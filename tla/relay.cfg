CONSTANTS
  Pages = {p1, p2, p3}
  creator = p1
  flaky = p2
  Conns = {1, 2, 3, 4}
  Codes = {s1}
  Addresses = {here}
  AddressOf <- MCAddressOf
  None = None
  MaxSessions = 1
  MaxParties = 3
  MaxPerIP = 4
  MaxAttempts = 1
  Sizes = {2, 3}
  Allowance = 2
SPECIFICATION MCSpec
CHECK_DEADLOCK FALSE
INVARIANTS
  ClientTypeOK
  SeatsNotShared
  PeerKeysRight
PROPERTIES
  ReadyReachesAll
  SentIsNoticed
