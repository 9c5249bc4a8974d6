SPECIFICATION MCSpec
CONSTANTS
  Parts = {"factory", "bundle", "parameters", "reverb", "visualizer", "equalizer", "dynamics", "cec", "btmodule", "configs"}
  Uuids = {"equalizer", "bass", "other"}
  Bundled = {"equalizer", "bass"}
  Instances = {1, 2}
  Sessions = {1, 2}
  MAX_BUNDLE_SESSIONS = 2
  MaxContexts = 3
  Levels <- MCLevels
  ExitSamples = 2
  RemoteDevices <- MCRemotes
  Bands = {1, 2}
  SoftPresets <- MCSoftPresets
  BandLevels <- MCBandLevels
  Strengths = {500}
  Volumes <- MCVolumes
  LevelMapping <- MCLevelMapping
  MaxReverbLevel = 2000
  MaxT60 = 7000
  ReverbPresets <- MCReverbPresets
  EnvironmentValues <- MCEnvironmentValues
  CaptureBufSize = 3
  CaptureSizes = {2}
  Latencies = {0, 2}
  StallTime = 1
  DiscardTime = 1
  Window = 1
  MaxPlayed = 4
  MaxBuffer = 2
  BandCount = 2
  Bins = 3
  EqBands <- MCEqBands
  InputGains = {0, 7}
  ChannelCounts = {1, 2}
  LinkGroups = {0, 1}
  Factors = {50, 100}
  Architectures <- MCArchitectures
  Addresses = {"playback"}
  Adders = {"a"}
  MaxQueued = 1
  BtDevices = {"d1", "d2"}
  Handles = {1, 2}
  PcmConfigs = {"cd", "studio"}
  MaxPorts = 2
  MaxProxies = 2
  Types = {"DEFAULT", "R_SUBMIX", "STUB", "USB", "BLUETOOTH"}
  Formats = {"pcm16", "pcm24", "mp3"}
  Masks = {"stereo"}
  Rates = {44100, 48000}
  DeviceProfiles <- MCDeviceProfiles
  PipeRates = {44100, 48000}
  MaxNew <- MCMaxNew
INVARIANTS BuffersProcessed AnswersAgree CapturedUnbroken SpectrumAsSet LinkedLimitAlike FlagsKeepBack ProxyInOnePlace SuggestionsAreTaken PatchBufferSuffices
PROPERTIES ContextStaysAlive
CHECK_DEADLOCK FALSE
