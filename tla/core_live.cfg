SPECIFICATION FairSpec
CONSTANTS
  PatchOutcomes = {"return"}
  PM = pm
  FirstLm = firstLm
  Nobody = nobody
  PlatformLibs = {l1}
  Libs = {l1}
  Releases = {1}
  Calls = {c1, c2, c3}
  Mixes = {{"PlatformInstall", "LibraryList", "LibraryUninstall", "Init"}}
PROPERTY EveryCallEnds
