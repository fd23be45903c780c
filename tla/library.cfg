CONSTANTS
  Drive = {d1, d2}
  MaxGoal = 2
  MaxUpset = 1
  Value = {5, 40000}
  Half = 32768
  MaxCall = 3
  MaxRetry = 2
  NameSize = 19
  OtherCode = {31, 32, 4096, 4097}
  SEC_TO_NS = 3
  MaxTimeInNs = 7
  MaxNow = 30
  LeapSeconds = 37
  MaxTimeout = 3
  Setting = {"KEY_A", "KEY_B"}
  Scalar = {"1", "2"}
  NoFile = NoFile
  MaxPair = 2
  Caller = {c1, c2}
  Descriptor = {3, 4, 5}
  MaxAddr = 2
  MaxSent = 4
  MaxSize = 3
SPECIFICATION LibrarySpec
INVARIANT DriveTypeOK
INVARIANT SdoTypeOK
INVARIANT FaultNameTells
INVARIANT SettingRead
INVARIANT OwnDescriptors
INVARIANT FramesKept
INVARIANT LogMemory
PROPERTY SeenAsIs
PROPERTY OnlyAsAsked
PROPERTY DrivesReachGoal
PROPERTY FaultCleared
PROPERTY ReadFresh
PROPERTY DownloadTold
PROPERTY CallAnswered
PROPERTY CyclesInTime
PROPERTY WaitReturns
CHECK_DEADLOCK FALSE
