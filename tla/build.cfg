SPECIFICATION FairSpec
CONSTANTS
  main = main
  l1 = l1
  l2 = l2
  c1 = c1
  c2 = c2
  c3 = c3
  lib1 = lib1
  lib2 = lib2
  uno = uno
  unoX = unoX
  None = none
  Damaged = damaged
  Sources = {main, l1, l2, c1, c2, c3}
  FolderOf <- SixFolders
  Main = main
  Imports <- SomeImports
  Options = {uno, unoX}
  KeyOf <- OneKey
  Jobs = 2
  Worlds <- AllWorlds
INVARIANTS BuildInv LinkedIsCurrent FailsForAReason
PROPERTY BuildEnds
CHECK_DEADLOCK FALSE
