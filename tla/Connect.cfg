SPECIFICATION Spec
CONSTANTS
  Peers = {p1, p2}
  Bootstraps = {p1}
  None = None
  Offers <- MCOffers
  MaxAttempts = 3
  MaxFaults = 1
INVARIANTS
  TypeOK
  SessionIsFresh
  PoolKeyIsPeer
  CredentialsAgree
  NoHandlerDangles
  ClosedIsNoticed
PROPERTIES
  ConnectEnds
CHECK_DEADLOCK FALSE
