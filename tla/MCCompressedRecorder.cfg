SPECIFICATION Spec
CONSTANTS
  IdrInterval = 1
  MinIdrGap = 1
  Backoff <- MCBackoff
  MaxStreams = 2
  Streams = {1}
  EnabledStreams = {1}
  Codecs = {1, 2}
  Payloads <- MCPayloads
  QueueLimit = 3
  SegmentSpan = 1
  MountCheck = 1
  RequireNfs = TRUE
  NoFile = NoFile
  MaxEvents = 4
  MaxTime = 2
  MaxBacklog = 2
  UpsetKinds = {"io", "mount", "clock", "crash"}
  MaxUpsets = 1
INVARIANT TypeOK
INVARIANT QueueAccounting
INVARIANT SegmentsPlayable
INVARIANT CleanStop
PROPERTY NothingSkipped
PROPERTY IdrSpaced
PROPERTY StopCompletes
CHECK_DEADLOCK FALSE
