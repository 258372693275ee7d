SPECIFICATION FairSpec
CONSTANTS
  Plugin = {"bme", "led"}
  MayFail = {"bme"}
  MayBeDisabled = {"led"}
  Chars <- MCChars
  BridgeChars = 1
  DeviceChars = 1
  QueueSize = 4
  ListenerSize = 6
  FirstNumber = 2
  MaxChars = 4
INVARIANTS TypeOK DeadIsDisabled NoOverrun ChangeIsNoticed
PROPERTIES NumberCatchesUp
