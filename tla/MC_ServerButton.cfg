SPECIFICATION Spec
CONSTANTS
  Client = {c1, c2}
  Controller = {k1, k2}
  Key = {l1}
  ZeroKey = l0
  NoClient = none
  NoController = nobody
  HAP_PAIRINGS_MAX = 1
  AllowPairingWhilePaired = FALSE
  HasButton = TRUE
  MaxTries = 1
  AttemptsModulus = 2
PROPERTIES
  ClosedIsReaped
  ButtonIsServed
  PairingEndsSetup
