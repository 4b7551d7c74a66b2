SPECIFICATION Spec
CONSTANTS
  Types = {"D", "E"}
  Lengths = {4, 5, 7, 9}
  MaxChunk = 12
  messageLimit = 7
  Limits = {0, 4, 7}
  None = None
INVARIANTS KeptBounds
PROPERTIES RefusedForCause
CHECK_DEADLOCK FALSE
