SPECIFICATION Spec
CONSTANTS
  Client = {c1, c2}
  Controller = {k1, k2}
  Key = {l1}
  ZeroKey = l0
  NoClient = none
  NoController = nobody
  HAP_PAIRINGS_MAX = 2
  AllowPairingWhilePaired = TRUE
  HasButton = FALSE
  MaxTries = 2
  AttemptsModulus = 1
SYMMETRY Symmetry
INVARIANTS
  NoPairingNoSession
