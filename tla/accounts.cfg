CONSTANTS
  alice = alice
  bob = bob
  p0 = p0
  Held = 4
  Accounts = {alice, bob}
  Reserve = Reserve
  Deployer = alice
  NewOwners = {bob}
  Recipients = {Reserve}
  Amounts = {1, 4}
  WbtcHeld <- MCWbtcHeld
  NoAddress = NoAddress
  Pools = {p0}
  WbtcIsToken0Of <- MCWbtcIsToken0Of
  SpotPrices = {1}
  SeedPrices = {4}
  RATIO_SCALE = 2
  MIN_RATIO = 8
  MAX_RATIO = 16
  FEE_SCALE = 4
  FEE = 1
  U256_MAX = 80
  TWAP_WINDOW = 1
  FirstBlock = 1
  MaxBlock = 2
SPECIFICATION Spec
INVARIANTS
  BalancesAddUp
  CoveredRedemption
PROPERTIES
  EquityPerOrcNeverFalls
