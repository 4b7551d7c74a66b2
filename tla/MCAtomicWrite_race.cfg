SPECIFICATION Spec
CONSTANTS
  Calls = {c1, c2}
  Targets = {t}
  Directories = {}
  Temps = {n1, n2}
  Inodes = {i1, i2, i3}
  Payloads = {old, new}
  Refused = {}
  Original = old
  Blocks = 2
  Modes = {umask, other}
  CREATE_MODE = umask
  None = None
  MaxCrashes = 0
  MaxOutside = 1
SYMMETRY Symmetry
VIEW View
INVARIANTS TargetsWhole TempsAccounted
PROPERTIES ModeKept
