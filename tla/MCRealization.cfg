CONSTANTS
  Build <- MCBuild
  Bind <- MCBind
  Deps <- MCDeps
  Old <- MCOld
  Recipe <- MCRecipe
  Outputs <- MCOutputs
  Content <- MCContent
  FileName <- MCFileName
  Environment <- MCEnvironment
  Configs <- MCConfigs
  NoFile = NoFile
  Junk = Junk
  MaxCommands = 4
  MaxFaults = 2
SPECIFICATION Spec
INVARIANT LikeFresh
INVARIANT FailsByItself
CHECK_DEADLOCK FALSE
