SPECIFICATION Spec
CONSTANTS
  c1 = c1
  c2 = c2
  h264 = h264
  Conns = {c1, c2}
  Sids = {1}
  WorkerSids = {1}
  Codecs = {h264}
  None = None
  MaxConnections = 1
  MaxSent = 2
  MaxFaults = 1
INVARIANT ClientsAccounted
INVARIANT DescriptorsClosedOnce
PROPERTY ClientsReaped
CHECK_DEADLOCK FALSE
