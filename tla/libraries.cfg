SPECIFICATION Spec
CONSTANTS
  a = a
  b = b
  c = c
  dirA = dirA
  dirB = dirB
  own = own
  None = none
  Junk = junk
  Libs = {a, b, c}
  Dirs = {dirA, dirB, own}
  DirOf <- Dir
  LegacyName <- Name
  Releases <- AllReleases
  Depends <- Needs
  Worlds <- AllWorlds
INVARIANTS LibraryInv InstallsTheClosure WhatIsThereIsKept ListedIsThere
PROPERTY OthersAreKept
CHECK_DEADLOCK FALSE
