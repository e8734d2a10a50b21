SPECIFICATION Spec
CONSTANTS
  v1 = v1
  v2 = v2
  Viewers = {v1, v2}
  MaxClients = 1
  Sids = {1}
  Kinds <- WorkerKinds
  Token = TRUE
  DropToIdr = TRUE
  None = None
  MaxUnits = 3
  Scripts <- ViewerScripts
INVARIANT DescriptorsAccounted
INVARIANT Playable
INVARIANT RecoveryEnds
PROPERTY ViewersAnswered
CHECK_DEADLOCK FALSE
