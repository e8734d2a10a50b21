SPECIFICATION TapSpec
CONSTANTS
  h1 = h1
  s1 = s1
  s2 = s2
  Publishers = {h1}
  Subscribers = {s1, s2}
  Slots = {1}
  Sids = {1, 2}
  Payloads <- WorkerUnits
  Room = 3
  DropToIdr = TRUE
  NoConn = NoConn
  MaxUnits = 4
SYMMETRY SubscriberSymmetry
INVARIANT OnlyOwnStream
CHECK_DEADLOCK FALSE
