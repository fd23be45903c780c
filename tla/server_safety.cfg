CONSTANTS
  MaxConn = 2
  MaxCmd = 1
  MaxTlm = 2
  MaxCrash = 1
  QueueMax <- OneEach
  CmdSize = 1
  Commander = {"GUI", "CSC", "other"}
  HasTimeout = TRUE
  Privileged = TRUE
SPECIFICATION Spec
INVARIANT TypeOK
INVARIANT NothingLeaks
INVARIANT InUse
INVARIANT OneFate
INVARIANT TlmInOrder
CHECK_DEADLOCK FALSE
