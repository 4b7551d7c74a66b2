\* Chunks of two bytes and a cap of three: a file takes up to two full reads, or
\* four short ones.
CONSTANTS
  maxBytes = 3
  READ_CHUNK_BYTES = 2
  Contents <- MCContents
  Appended <- MCAppended
  MaxChanges = 3
SPECIFICATION ReadSpec
INVARIANTS ReadTrue
CHECK_DEADLOCK FALSE
