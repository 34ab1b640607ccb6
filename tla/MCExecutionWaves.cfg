CONSTANTS
  b1 = b1
  b2 = b2
  x1 = x1
  x2 = x2
  Build <- MCBuild
  Bind <- MCBind
  Mention <- MCMention
  Manifests <- MCManifests
SPECIFICATION Spec
INVARIANTS
  InDegreeCounts
  DepsAtLowerLevels
  LevelsTight
  CycleDetectedOnlyIfCyclic
  WavesOrdered
CHECK_DEADLOCK FALSE
