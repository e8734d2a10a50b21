SPECIFICATION Spec
CONSTANTS
  c1 = c1
  c2 = c2
  h264 = h264
  Conns = {c1, c2}
  Sids = {1}
  WorkerSids = {1, 2}
  Codecs = {h264}
  None = None
  MaxConnections = 2
  MaxSent = 3
  MaxFaults = 1
SYMMETRY ConnSymmetry
INVARIANT TypeOK
INVARIANT StreamsOutliveHandlers
INVARIANT SessionState
CHECK_DEADLOCK FALSE
