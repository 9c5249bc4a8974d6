SPECIFICATION MCSafety
CONSTANTS
  Parts = {"effect"}
  t1 = t1
  None = None
  Callers = {t1}
  Commons <- Three
  Keeps = {FALSE}
  Checks = {TRUE}
  OpenDuringClose = FALSE
  Devices = {"d1", "d2"}
  BufferFrames = 2
  MaxFrames = 4
  Stack = {}
  Daemons = {"mtp", "adb"}
  Faults = {"pullup", "teardown", "vidpid", "descriptor", "link"}
  Requests = { {}, {"mtp", "adb"}, {"midi"}, {"mtp", "midi"} }
  HciCallers = {"a", "b", "death"}
INVARIANT WorkBufferFits
CHECK_DEADLOCK FALSE
