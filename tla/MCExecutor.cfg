CONSTANTS
  b1 = b1
  b2 = b2
  x1 = x1
  x2 = x2
  x3 = x3
  Build <- MCBuild
  Bind <- MCBind
  Mention <- MCMention
  Manifests <- MCManifests
  Permits = 2
SPECIFICATION Spec
INVARIANTS
  StartsAfterDeps
PROPERTIES
  NothingStartsAfterFailure
  ExecutionEnds
  ImplementsManifestExecution
CHECK_DEADLOCK FALSE
