SPECIFICATION Spec
CONSTANTS
  p1 = p1
  p2 = p2
  t1 = t1
  t2 = t2
  t3 = t3
  Nobody = nobody
  Calls = {c1, c2}
  Releases <- FourReleases
  PlatformOf <- PlatformOfFour
  Requires <- RequiresOfFour
  Tools = {t1, t2, t3}
  Worlds <- AllWorlds
SYMMETRY CallSymmetry
INVARIANTS InstallInv ToolsKept MemoryMatchesDisk NoOrphanTools
PROPERTY KeepsThePlatformAlone
