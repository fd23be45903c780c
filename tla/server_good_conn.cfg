CONSTANTS
  MaxConn = 2
  MaxCmd = 0
  MaxTlm = 1
  MaxCrash = 0
  QueueMax <- OneEach
  CmdSize = 1
  Commander = {"GUI", "CSC", "other"}
  HasTimeout = TRUE
  Privileged = FALSE
SPECIFICATION FairSpec
PROPERTY GoodConnectionKept
CHECK_DEADLOCK FALSE
