CONSTANTS
  Families <- MCFamilies
SPECIFICATION Spec
INVARIANTS GuardTrue EmbedsClosed
CHECK_DEADLOCK FALSE
