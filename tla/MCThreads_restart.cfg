SPECIFICATION MCSpec
CONSTANTS
  Parts = {"gadget"}
  t1 = t1
  None = None
  Callers = {t1}
  Commons <- Refused
  Keeps = {TRUE, FALSE}
  Checks = {TRUE, FALSE}
  OpenDuringClose = FALSE
  Devices = {"d1", "d2"}
  BufferFrames = 2
  MaxFrames = 4
  Stack = {}
  Daemons = {"mtp", "adb"}
  Faults = {}
  Requests = { {}, {"mtp", "adb"}, {"midi"}, {"mtp", "midi"} }
  HciCallers = {"a", "b", "death"}
PROPERTY RestartedWhenBack
CHECK_DEADLOCK FALSE
