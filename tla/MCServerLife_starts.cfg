SPECIFICATION LifeSpec
CONSTANTS
  Unset = Unset
  MAX_SAFE_INTEGER = 101
  MAX_TIMEOUT_MS = 20
  QueryBackstop = 8
  ConnectFloor = 5
  MAX_MAX_RESULT_BYTES = 21
  DEFAULT <- SomeDefaults
  Base <- SomeBase
  Settings <- SomeSettings
  Configs <- SomeConfigs
  Arguments <- SomeArguments
  Ids <- SomeIds
  MaxText = 4
  MaxUrl = 4
  SurfaceCap = 4
  ERROR_TEXT_BACKSTOP_UNITS = 6
  MaxPieces = 5
  Results <- SomeResults
INVARIANTS NumbersHold PortsAgree RequestTrue ArgsTyped ProjectionTrue ErrorTextTrue PayloadTrue
CHECK_DEADLOCK FALSE
