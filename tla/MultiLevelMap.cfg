SPECIFICATION Spec
CONSTANTS
  Files = {"m"}
  Chunks = {"c1", "w1", "v1"}
  Levels <- TwiceWrappedLevels
  Tasks = {t1}
  Peers = {p1, p2, p3}
  Good = {p2}
  Bootstrap = p1
  MaxStarts = 2
  MaxCloses = 0
INVARIANTS
  LargeFilesWork
