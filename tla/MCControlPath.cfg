SPECIFICATION Spec
CONSTANTS
  c1 = c1
  c2 = c2
  None = None
  Controllers = {c1, c2}
  Talkers = {c1}
  Token = TRUE
  MaxUnread = 2
  QueueLimit = 1
INVARIANT HeldMatches
INVARIANT ExitTells
PROPERTY AuthAnswered
PROPERTY WorkerEnds
CHECK_DEADLOCK FALSE
