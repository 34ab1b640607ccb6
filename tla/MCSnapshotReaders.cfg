CONSTANTS
  b1 = b1
  Process = {p1, p2}
  Build <- MCBuild
  Tag = {}
  Configs <- MCConfigs
  MaxSnapshots = 3
  Nobody = Nobody
  Asked <- MCAsked
SPECIFICATION ReadersSpec
SYMMETRY Processes
INVARIANTS
  CurrentIsFound
  DiffOfNeighbours
CHECK_DEADLOCK FALSE
