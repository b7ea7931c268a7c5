SPECIFICATION Spec
CONSTANTS
  PatchOutcomes = {"return"}
  PM = pm
  FirstLm = firstLm
  Nobody = nobody
  PlatformLibs = {l1}
  Libs = {l1}
  Releases = {1, 2}
  Calls = {c1, c2}
  Mixes = {{"LibraryInstall", "LibraryList"}}
INVARIANT NoDeadlock
