SPECIFICATION FactorySpec
CONSTANTS
  Uuids = {"equalizer"}
  Bundled = {"equalizer"}
  Instances = {1, 2}
  Sessions = {1, 2}
  MAX_BUNDLE_SESSIONS = 2
  MaxContexts = 3
INVARIANT OneOfATypeInASession
CHECK_DEADLOCK FALSE
