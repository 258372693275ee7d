SPECIFICATION Spec
CONSTANTS
  kEventQueueSize = 3
  Code = {c1, c2}
  kEventNone = none
  Param = {p1, p2}
  NoParam = p0
INVARIANTS
  RingInv
  ScanCountsQueued
PROPERTY
  ImplementsFifo
