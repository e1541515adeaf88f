SPECIFICATION FairSpec
CONSTANTS
  Files = {"m"}
  Chunks = {"c1", "w1"}
  Levels <- WrappedLevels
  Tasks = {t1, t2}
  Peers = {p1, p2}
  Good = {p2}
  Bootstrap = p2
  MaxStarts = 2
  MaxCloses = 1
INVARIANTS
  TypeOK
  DoneIsWholeFile
  FailsOnlyForCause
  CountIsExact
PROPERTIES
  EveryCallEnds
