SPECIFICATION FairSpec
CONSTANTS
  board = board
  boot = boot
  moved = moved
  other = other
  None = none
  Ports = {board, boot, moved, other}
  Place <- Places
  SameHardware = {board, moved}
  SameProtocol = {board, boot, moved, other}
  SameAddress = {board, boot}
  UserPort = board
  Worlds <- AllWorlds
INVARIANTS UploadInv BestIsPicked LostIsWaitedFor
PROPERTY AlwaysAnswered
CHECK_DEADLOCK FALSE
