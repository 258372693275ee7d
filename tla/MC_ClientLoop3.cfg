SPECIFICATION LoopSpec
CONSTANTS
  HAPClient = {c1, c2, c3, c4}
  nullptr = null
  MaxClients = 3
INVARIANT
  VisitsExisting
