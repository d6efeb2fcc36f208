SPECIFICATION Spec
CONSTANTS
  a1 = a1
  a2 = a2
  p1 = p1
  p2 = p2
  v1 = v1
  v2 = v2
  Closed = Closed
  Unbound = Unbound
  None = None
  Addresses <- TwoAddresses
  Assigned <- OneAddress
  Wide <- OneAddress
  Ports <- OnePort
  SettingOrder <- NoSetting
  Values <- OneValue
  Frames <- PlainFrame
  Lossy = FALSE
  PowerCycles = TRUE
  MaxResend = 0
  MaxQueue = 1
  MaxInbound = 1
  MaxFrames = 1
PROPERTIES
  AddressedCommandsArrive
