CONSTANTS
  BufferMax = 2
  FileMax = 3
  MaxRecord = 7
  MaxFault = 1
SPECIFICATION PacedSpec
PROPERTY LogsInOrder
CHECK_DEADLOCK FALSE
