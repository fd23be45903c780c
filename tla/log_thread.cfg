CONSTANTS
  BufferMax = 2
  FileMax = 3
  MaxRecord = 5
  MaxFault = 1
SPECIFICATION FairSpec
INVARIANT TypeOK
INVARIANT FileExclusive
INVARIANT RotationExact
PROPERTY BufferFlushed
PROPERTY CallReturns
PROPERTY ThreadJoins
CHECK_DEADLOCK FALSE
