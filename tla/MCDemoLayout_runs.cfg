CONSTANTS
  Root = "root"
  Files = {"hello", "note"}
  Dirs = {"nested"}
  Others = {"other", "inner"}
  Parent <- ParentOf
  Argvs <- Short
  Dashed <- DashedWords
  MaxRuns = 2
  MaxOutside = 2
SPECIFICATION Spec
INVARIANTS Spared LayoutTrue Harmless
CHECK_DEADLOCK FALSE
