CONSTANTS
  b1 = b1
  b2 = b2
  p1 = p1
  p2 = p2
  q1 = q1
  q2 = q2
  NoConfig = NoConfig
  Build <- MCBuild
  Bind <- MCBind
  Mention <- MCMention
  Id <- MCId
  NoId <- MCNoId
  Updatable <- MCUpdatable
  Checked <- MCChecked
  Refs <- MCRefs
  AllUses <- MCUses
  OutputUses <- MCOutputUses
  DestroyMentions = {}
  Configs <- FetchedTwice
  MaxFaults = 0
  Faults = {}
SPECIFICATION Spec
INVARIANT
  FailsOnlyOnFaults
CHECK_DEADLOCK FALSE
