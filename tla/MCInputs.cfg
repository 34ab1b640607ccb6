CONSTANTS
  A = A
  B = B
  P = P
  cfg = cfg
  x = x
  y = y
  sub = sub
  dotX = dotX
  dotY = dotY
  NameOrder <- MCNames
  MaxFollowsDepth = 3
  NoUrl = NoUrl
  NoRef = NoRef
  NotATable = NotATable
  Process = {p1, p2}
  Repo = {A, B, P}
  Configs <- MCConfigs
  Updates <- MCUpdates
  Trees <- MCTrees
  Located <- MCLocated
  Teammates <- MCTeammates
  MaxCommit <- MCCommits
  MaxCommands = 2
  MaxEvents = 1
  ConfigDir = cfg
  Branch = Branch
  LocalRev = LocalRev
  NoClone = NoClone
  NoFile = NoFile
  Torn = Torn
  Unforced = Unforced
SPECIFICATION Spec
INVARIANTS
  PinsHold
  LockRecordsResolution
  CyclesCut
PROPERTIES
  Reproduced
  ResolutionEnds
  UpdateConverges
  LookupsUnambiguous
CHECK_DEADLOCK FALSE
