CONSTANTS
  BufferMax = 2
  FileMax = 3
  MaxRecord = 7
  MaxFault = 0
SPECIFICATION OneThreadSpec
PROPERTY FullBufferKept
CHECK_DEADLOCK FALSE
