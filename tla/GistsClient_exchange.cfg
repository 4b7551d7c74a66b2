\* Two calls, each reading or updating, with every pair of arguments.
CONSTANTS
  Calls = {c1, c2}
  None = None
SPECIFICATION FairSpec
INVARIANTS SuccessTrue FailureTold
PROPERTIES Answered
CHECK_DEADLOCK FALSE
