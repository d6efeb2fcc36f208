SPECIFICATION Spec
VIEW Live
CONSTANTS
  b1 = b1
  b2 = b2
  v1 = v1
  v2 = v2
  AutoRate = AutoRate
  Closed = Closed
  Unset = Unset
  None = None
  Bauds <- OneRate
  Probed <- ProbeOne
  SettingOrder <- OneSetting
  Values <- OneValue
  Configurations <- AnyConfiguration
  Ops <- AllOps
  FailedHandles <- CleanFailure
  EagerRebaud = TRUE
  RateMayFail = TRUE
  Lossy = TRUE
  RetryLimit = 1
  MaxResend = 0
  MaxQueue = 1
  MaxWire = 1
  MaxFrames = 1
INVARIANTS
  ThreadOnlyWhenStarted
