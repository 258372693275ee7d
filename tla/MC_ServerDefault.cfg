SPECIFICATION Spec
CONSTANTS
  Client = {c1, c2, c3}
  Controller = {k1, k2, k3}
  Key = {l1, l2}
  ZeroKey = l0
  NoClient = none
  NoController = nobody
  HAP_PAIRINGS_MAX = 2
  AllowPairingWhilePaired = TRUE
  HasButton = FALSE
  MaxTries = 2
  AttemptsModulus = 2
SYMMETRY Symmetry
INVARIANTS
  TypeOK
  PairingsAreDurable
  KeyBeforePairing
  UnpairedIsDiscoverable
  BusyHasSession
PROPERTIES
  IdentityIsStable
