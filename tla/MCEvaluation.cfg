CONSTANTS
  dirLib = dirLib
  dirPkgs = dirPkgs
  dirData = dirData
  NameOrder <- MCNames
  MaxFollowsDepth = 10
  NoUrl = NoUrl
  NoRef = NoRef
  NotATable = NotATable
  ConfigDir = ConfigDir
  Resolutions <- MCResolutions
  Inits = {dirLib, dirPkgs}
  Id = {a}
  NoId = NoId
  Content = {one, two}
  Check = {drift}
  NoCheck = NoCheck
  Wanted <- MCWanted
  MaxCalls = 3
  MaxDepth = 2
  Root = "/"
  Dot = "."
  Up = ".."
  Paths <- MCPaths
  WorkingDir <- MCWorkingDir
  Years <- MCYears
  Values <- MCValues
  MantissaDigits = 3
SPECIFICATION Spec
INVARIANTS
  LastWins
  NothingDangles
  SetupsNested
  PathsLead
  DaysFollow
  ValuesComeBack
CHECK_DEADLOCK FALSE
