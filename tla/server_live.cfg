CONSTANTS
  MaxConn = 2
  MaxCmd = 1
  MaxTlm = 1
  MaxCrash = 0
  QueueMax <- OneEach
  CmdSize = 1
  Commander = {"GUI", "other"}
  HasTimeout = TRUE
  Privileged = FALSE
SPECIFICATION FairSpec
PROPERTY HungUpClosed
PROPERTY ClientAccepted
PROPERTY CloseReturns
PROPERTY QueuesDrain
CHECK_DEADLOCK FALSE
