SPECIFICATION FairSpec
CONSTANTS
  p1 = p1
  p2 = p2
  p3 = p3
  p4 = p4
  Peers <- McPeers
  Liars = {}
  Bootstrap = p2
  Lists <- McLists
  Content <- McContent
  Wrappers <- McWrappers
  Map = "m"
  GroupSize = 3
  Majority = 2
  Attempts = 2
  MaxUploads = 1
  MaxFaults = 2
PROPERTIES
  PutRetryReconnects
