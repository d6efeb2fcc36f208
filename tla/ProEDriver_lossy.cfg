SPECIFICATION FairSpec
CONSTANTS
  a1 = a1
  a2 = a2
  p1 = p1
  p2 = p2
  v1 = v1
  v2 = v2
  Closed = Closed
  Unbound = Unbound
  None = None
  Addresses <- OneAddress
  Assigned <- OneAddress
  Wide <- OneAddress
  Ports <- OnePort
  SettingOrder <- OneSetting
  Values <- TwoValues
  Frames <- AnyFrame
  Lossy = TRUE
  PowerCycles = TRUE
  MaxResend = 1
  MaxQueue = 1
  MaxInbound = 1
  MaxFrames = 1
INVARIANTS
  TypeOK
  ThreadOnlyWhenStarted
  BoundWhileRunning
  OneReader
  SettingsAgree
  SpinningExplained
PROPERTIES
  SensorDriverSpec
  LockReleased
  ReturnsIfLockIsFair
