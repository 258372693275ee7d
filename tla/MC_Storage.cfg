SPECIFICATION Spec
CONSTANTS
  Controller = {k1, k2, k3}
  HAP_PAIRINGS_MAX = 3
INVARIANTS
  TypeOK
  SavedIsLoaded
  MagicMeansComplete
PROPERTY
  CutKeepsOldOrNew
