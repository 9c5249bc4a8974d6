SPECIFICATION MCSpec
CONSTANTS
  Parts = {"profile"}
  Commands = {"getStatus", "start", "burst", "drainAll", "drainEarly", "standby",
    "pause", "flush", "flushFromFrame", "malformed"}
  InCommands = {"getStatus", "start", "burst", "drain", "standby", "pause", "flush",
    "flushFromFrame", "malformed"}
  MaxClips = 1
  Async = FALSE
  ForceSyncDrain = FALSE
  Failing = {"start", "burst", "drain", "standby", "pause", "flush"}
  MqMayFail = TRUE
  InFailing = {"start", "burst", "drain", "standby", "pause", "flush"}
  InMqMayFail = TRUE
  BurstInStandby = FALSE
  Disconnects = TRUE
  SampleRate = 1000
  Fallback = 1210
  Reports <- MCReports
  Relative <- MCRelative
  Absolute <- MCAbsolute
  Bursts = {0, 350}
  MaxFrames = 1400
  Outs = {o1, o2}
  Ins = {i1}
  Odd = {o2}
  None = none
  Client = {}
  Effects = {"e1", "e2"}
  MaxParameters = 2
  Places = {1, 2}
  MaxPosition = 3
  CardNames <- MCCardNames
  DefaultDevice = "hdmi0"
  ForcedCard = {}
  UsbDevices = {"d1", "d2"}
  UsbCards = {1, 2, 3}
  Channels = {1, 2}
  WithoutSwitch = {}
  Broken <- MCBroken
  FCC_LIMIT = 12
  PeriodUs = 5000
  PcmDevices <- AllDevices
INVARIANT OfferedIsPrepared
CHECK_DEADLOCK FALSE
