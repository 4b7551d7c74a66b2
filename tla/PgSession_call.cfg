\* maxRows, maxResultBytes and the row sizes are small and apart: a result can
\* pass either bound, both or none; one row can pass maxResultBytes alone, or
\* messageLimit too.
CONSTANTS
  maxRows = 2
  maxResultBytes = 3
  messageLimit = 4
  ChunkBytes = 4
  RowBytes = {1, 4, 5}
  MaxResult = 3
  Requested = {1, 3}
  MaxSample = 2
  None = None
SPECIFICATION FairSpec
INVARIANTS PinnedFirst AnswerTrue Bounded
PROPERTIES Answered BackendFreed
CHECK_DEADLOCK FALSE
