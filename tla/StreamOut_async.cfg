SPECIFICATION FairSpec
CONSTANTS
  Commands = {"start", "burst", "drainAll", "drainEarly", "pause", "flush"}
  MaxClips = 1
  Async = TRUE
  ForceSyncDrain = FALSE
  Failing = {}
  MqMayFail = FALSE
  Disconnects = FALSE
  BurstInStandby = FALSE
INVARIANTS NoCallbackAfterShutdown DrainReadyBound
PROPERTIES CommandAnswered DrainHonoured
CHECK_DEADLOCK FALSE
