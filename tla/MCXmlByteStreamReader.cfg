SPECIFICATION LiveSpec
CONSTANTS
  NONE = NONE
  BufferSize = 4
  MaxParts = 3
  MaxSpace = 1
  Hints = {0, 5, NONE}
  Inputs <- AllDocuments
INVARIANT MemoryBounded
INVARIANT SameAsWhole
PROPERTY ReadsAll
CHECK_DEADLOCK FALSE
