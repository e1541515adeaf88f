SPECIFICATION Spec
CONSTANTS
  Base = 2
  MaxMessage = 5
  MaxFrame = 2
  MessageSizes = {1, 5, 16}
  Payloads <- McPayloads
  IllegalPayloads <- McIllegal
  MaxSends = 4
INVARIANTS
  TypeOK
  NothingStranded
PROPERTIES
  WholeFramesInOrder
  LengthErrorSticks
  EveryFrameArrives
CHECK_DEADLOCK FALSE
