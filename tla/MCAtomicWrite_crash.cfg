SPECIFICATION Spec
CONSTANTS
  Calls = {c1}
  Targets = {t, d}
  Directories = {d}
  Temps = {n1, n2}
  Inodes = {i1, i2, i3}
  Payloads = {old, new, bad}
  Refused = {bad}
  Original = old
  Blocks = 2
  Modes = {umask, other}
  CREATE_MODE = umask
  None = None
  MaxCrashes = 1
  MaxOutside = 0
SYMMETRY Symmetry
VIEW View
INVARIANTS DurableWhole DurableMode
PROPERTIES ImplementsFileStore
