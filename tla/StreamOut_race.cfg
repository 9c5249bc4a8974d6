SPECIFICATION Spec
CONSTANTS
  Commands = {"getStatus", "start", "burst", "drainAll", "drainEarly", "standby",
    "pause", "flush", "flushFromFrame", "malformed"}
  MaxClips = 2
  Async = TRUE
  ForceSyncDrain = FALSE
  Failing = {}
  MqMayFail = FALSE
  BurstInStandby = FALSE
  Disconnects = FALSE
INVARIANTS NoTransferInStandby
CHECK_DEADLOCK FALSE
