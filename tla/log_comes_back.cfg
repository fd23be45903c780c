CONSTANTS
  BufferMax = 2
  FileMax = 3
  MaxRecord = 6
  MaxFault = 0
SPECIFICATION FairSpec
PROPERTY BufferComesBack
CHECK_DEADLOCK FALSE
