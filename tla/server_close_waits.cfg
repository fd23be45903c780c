CONSTANTS
  MaxConn = 1
  MaxCmd = 0
  MaxTlm = 2
  MaxCrash = 0
  QueueMax <- OneEach
  CmdSize = 1
  Commander = {"GUI", "CSC", "other"}
  HasTimeout = TRUE
  Privileged = FALSE
SPECIFICATION FairSpec
PROPERTY CloseIsThorough
CHECK_DEADLOCK FALSE
