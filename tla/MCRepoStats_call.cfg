SPECIFICATION FairStats
CONSTANTS
  Streams = {"stdout", "stderr"}
  maxOutputBytes = 3
  MaxWritten = 4
  Root = "root"
  Paths = {"f", "d", "g", "e", "h"}
  Parent <- ParentOf
  Ext <- ExtOf
  Size <- SizeOf
  OtherSize = 32
  AbsoluteMaxDepth = 3
  DefaultMaxDepth = 2
  Trees <- SomeTrees
  Requests <- SomeRequests
  MaxMoves = 1
INVARIANTS OutputTrue KillExplained StatsTrue Whole
PROPERTIES NoLateKill ChildDies Replied
CHECK_DEADLOCK FALSE
