\* Deadlock is checked: a server that can neither go on nor exit would be one.
CONSTANTS
  Lines <- MCLines
  MaxLines = 3
SPECIFICATION FairSpec
INVARIANTS AnswersTrue
PROPERTIES Answered
