SPECIFICATION FairSpec
CONSTANTS
  Callers = {c1, c2}
  Ops = {"get_verified", "closest_peers", "signal_relay", "chunk_round_trip"}
  Addresses = {a1}
  None = None
  MaxSeq = 3
  MaxCalls = 3
  MaxFaults = 1
PROPERTIES
  OnlySilenceBlocks
