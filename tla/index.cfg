SPECIFICATION IndexSpec
CONSTANTS
  libs = libs
  main = main
  json = json
  Torn = torn
  Garbled = garbled
  Jobs = {j1, j2}
  Libraries = libs
  Packages <- PackagesSeq
  Archives = {libs, main}
  WithSignatureURL = {json}
  MaxVersion = 3
  Worlds <- AllWorlds
INVARIANTS IndexInv PairMatches ReportIsTrue
CHECK_DEADLOCK FALSE
