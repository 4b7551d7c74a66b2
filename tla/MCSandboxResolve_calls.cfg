\* Inputs of up to three components after r or rx, over every small tree, on
\* both hosts, while other calls write; and for inputs of up to two components,
\* one entry of the tree changed at any moment.
CONSTANTS
  Hosts = {"strict", "lenient"}
  Locations <- Places
  Trees <- SmallTrees
  Inputs <- ShortInputs
  Configured = "l"
  Placed <- Entries
  MaxWalk = 24
  MaxMoves = 1
  MaxShort = 2
  Disturbed = {"strict"}
  Starts = {"r", "rx"}
  MaxSuffix = 3
  ShortStarts = {"l"}
SPECIFICATION Spec
INVARIANTS Agrees Contained
CHECK_DEADLOCK FALSE
