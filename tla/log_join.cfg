CONSTANTS
  BufferMax = 2
  FileMax = 3
  MaxRecord = 2
  MaxFault = 0
SPECIFICATION FairSpec
PROPERTY CloseThreadReturns
CHECK_DEADLOCK FALSE
