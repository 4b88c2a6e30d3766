CONSTANTS
  Conns = {c1, c2, c3}
  Codes = {s1}
  Addresses = {here}
  AddressOf <- MCAddressOf
  None = None
  MaxSessions = 1
  MaxParties = 2
  MaxPerIP = 2
  Sizes = {1, 2}
  MaxDead = 2
SPECIFICATION MCSpec
SYMMETRY ConnSymmetry
CHECK_DEADLOCK FALSE
INVARIANTS
  AddressChargedExactly
  NeverOverfull
  CreatorIsPartyZero
  ReadyAgreed
  ConnectedIsOwn
PROPERTIES
  OnlyAbandonedDeleted
