CONSTANTS
  b1 = b1
  b2 = b2
  p1 = p1
  p2 = p2
  q1 = q1
  q2 = q2
  r = r
  NoConfig = NoConfig
  Build <- MCBuild
  Bind <- MCBind
  Mention <- MCMention
  Id <- MCId
  NoId <- MCNoId
  Updatable <- MCUpdatable
  Checked <- MCChecked
  Refs <- MCRefs
  AllUses <- MCUses
  OutputUses <- FetchedOutput
  DestroyMentions = {}
  Configs <- MCConfigs
  MaxFaults = 3
  Faults = {"build"}
SPECIFICATION Spec
PROPERTY
  ImplementsAtomicApply
CHECK_DEADLOCK FALSE
