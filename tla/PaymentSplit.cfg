SPECIFICATION Spec
CONSTANTS
  Base = 2
  Width = 3
  GroupSize = 7
  HashLen = 1
  AddressLen = 2
  Address <- McAddress
  Vault <- McVault
  Replies <- McReplies
  Keys <- McKeys
  Other <- McOther
INVARIANTS
  TypeOK
  QuotesAreBinding
  AddIsModular
  MulIsModular
  MedianIsPaid
  ApproveCoversPayments
  ProofIsPaid
