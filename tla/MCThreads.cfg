SPECIFICATION MCSpec
CONSTANTS
  Parts = {"effect", "alsa", "bluetooth", "gadget", "hci"}
  t1 = t1
  t2 = t2
  None = None
  Callers = {t1, t2}
  Commons <- Refused
  Keeps = {TRUE, FALSE}
  Checks = {TRUE, FALSE}
  OpenDuringClose = FALSE
  Devices = {"d1", "d2"}
  BufferFrames = 2
  MaxFrames = 4
  Stack = {}
  Daemons = {"mtp", "adb"}
  Faults = {"pullup", "teardown", "vidpid", "descriptor", "link"}
  Requests = { {}, {"mtp", "adb"}, {"midi"} }
  HciCallers = {"a", "b", "death"}
INVARIANTS ThreadFollowsState FlagOutlivesWait CaptureInOrder PortFollowsStack SuccessMeansPulledUp OneClientAtATime
PROPERTIES WaitsEnd InputProcessed
CHECK_DEADLOCK FALSE
