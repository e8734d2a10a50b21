SPECIFICATION Spec
CONSTANTS
  s1 = s1
  s2 = s2
  r1 = r1
  Streams = {s1, s2}
  Readers = {r1}
  Backends = {"auto", "nvidia"}
  Deferred = TRUE
  MaxPackets = 2
  MaxFaults = 1
SYMMETRY StreamSymmetry
INVARIANT DeviceShared
INVARIANT ReferencesExact
INVARIANT NewestShown
CHECK_DEADLOCK FALSE
