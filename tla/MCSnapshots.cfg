CONSTANTS
  b1 = b1
  b2 = b2
  Process = {p1, p2}
  Build <- MCBuild
  Tag = {t1}
  Configs <- MCConfigs
  MaxSnapshots = 2
  Nobody = Nobody
SPECIFICATION Spec
INVARIANTS
  TypeOK
  CurrentIsLoadable
  RealizedStay
PROPERTIES
  ListedBuildsKept
  ImplementsSnapshotLog
CHECK_DEADLOCK FALSE
