SPECIFICATION Spec
CONSTANTS
  Byte <- ThreeBytes
  Capacity = 5
  Data <- ShortData
  Lengths = {0, 1, 2}
  Prefix = 2
  Encoded <- LittleEndian
  Messages <- TwoMessages
  MaxMessages = 4
  Rooms = {1, 2}
  Overlap = FALSE
  Plain = TRUE
INVARIANT WholeFrames
PROPERTY ByteFifo
CHECK_DEADLOCK FALSE
