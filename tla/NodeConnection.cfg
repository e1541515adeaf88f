SPECIFICATION Spec
CONSTANTS
  Callers = {c1, c2}
  Ops = {"get_verified", "closest_peers"}
  Addresses = {a1, a2}
  None = None
  MaxSeq = 4
  MaxCalls = 4
  MaxFaults = 1
SYMMETRY Symmetry
INVARIANTS
  TypeOK
  OneReceiver
  NonceNeverReused
  OkIsOwnVerifiedAnswer
PROPERTIES
  FramingErrorIsFinal
  CallsTakeTurns
