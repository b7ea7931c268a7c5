SPECIFICATION Spec
CONSTANTS
  PatchOutcomes = {"panic", "return"}
  PM = pm
  FirstLm = firstLm
  Nobody = nobody
  PlatformLibs = {l1}
  Libs = {l1}
  Releases = {1, 2}
  Calls = {c1, c2, c3}
  Mixes <- OrderedMixes
SYMMETRY CallSymmetry
INVARIANTS TypeOK LockInv NoCommitUnderExplorer NoDeadlockInOneOrder LibrariesDirExclusive UninstalledLibNotListed
