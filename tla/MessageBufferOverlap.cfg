SPECIFICATION Spec
CONSTANTS
  Byte <- ThreeBytes
  Capacity = 5
  Data <- ShortData
  Lengths = {0, 1, 2}
  Prefix = 2
  Encoded <- LittleEndian
  Messages <- TwoMessages
  MaxMessages = 4
  Rooms = {2}
  Overlap = TRUE
  Plain = FALSE
INVARIANT MessagesIntact
CHECK_DEADLOCK FALSE
