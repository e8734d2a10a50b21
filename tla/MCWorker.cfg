SPECIFICATION Spec
CONSTANTS
  MaxConnects = 2
  MaxFrames = 2
  MaxTime = 5
  ReconnectInterval = 2
  HeartbeatInterval = 2
  None = None
INVARIANTS
  OneDescriptor
  OutageIsNotFatal
PROPERTIES
  SessionRefined
  RetriesSpaced
  FatalEndsWorker
CHECK_DEADLOCK FALSE
