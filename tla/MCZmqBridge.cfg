SPECIFICATION FairSpec
CONSTANTS
  c1 = c1
  b1 = b1
  b2 = b2
  bt601 = bt601
  bt709 = bt709
  wide = wide
  Clients = {c1}
  Requests <- SomeRequests
  Sids = {1}
  Colours = {bt601, bt709}
  Shapes = {wide}
  Buffers = {b1, b2}
  Places = {1}
  None = None
  Text = Text
  MaxDecoders = 2
  MaxPts = 2
INVARIANT ReferencesExact
INVARIANT AnswersCurrent
PROPERTY RequestsEnd
CHECK_DEADLOCK FALSE
