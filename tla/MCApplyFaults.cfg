CONSTANTS
  b1 = b1
  b2 = b2
  p1 = p1
  p2 = p2
  q1 = q1
  q2 = q2
  NoConfig = NoConfig
  Build <- MCBuild
  Bind <- MCBind
  Mention <- MCMention
  Id <- MCId
  NoId <- MCNoId
  Updatable <- MCUpdatable
  Checked <- MCChecked
  Refs <- MCRefs
  AllUses <- MCUses
  OutputUses <- MCOutputUses
  DestroyMentions <- MCDestroyMentions
  Configs <- MCConfigs
  MaxFaults = 2
  Faults = {"build", "create", "rollback", "destroy", "restore", "update", "repair", "crash", "drift"}
SPECIFICATION Spec
INVARIANTS
  CurrentCanBeDestroyed
PROPERTIES
  KeptBindsUntouched
  CommandsEnd
CHECK_DEADLOCK FALSE
