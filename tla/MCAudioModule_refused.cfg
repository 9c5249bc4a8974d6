SPECIFICATION MCSpec
CONSTANTS
  Parts = {"module"}
  MixPorts = {1, 2, 3}
  DevicePorts = {4, 5}
  Templates = {6, 7}
  Unfilled = {3, 6}
  InitialRoutes <- MCRoutes
  Addresses = {"a", "b"}
  FirstId = 8
  MaxId = 11
  Refusals = {"update"}
  OneEach = TRUE
  MaxEnds = 2
  MaxStreams <- MCMaxStreams
  MaxPatchId = 2
  Outs = {o1}
  Ins = {i1, i2}
  Odd = {}
  None = none
  Client = {"overlap", "early"}
INVARIANTS NeverFatal
CHECK_DEADLOCK FALSE
