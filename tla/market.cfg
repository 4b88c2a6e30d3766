CONSTANTS
  alice = alice
  bob = bob
  p0 = p0
  Held = 12
  Accounts = {alice}
  Reserve = Reserve
  Deployer = alice
  NewOwners = {}
  Recipients = {}
  Amounts = {1, 2, 8}
  WbtcHeld <- MCWbtcHeld
  NoAddress = NoAddress
  Pools = {p0}
  WbtcIsToken0Of <- MCWbtcIsToken0Of
  SpotPrices = {1, 4}
  SeedPrices = {8}
  RATIO_SCALE = 2
  MIN_RATIO = 8
  MAX_RATIO = 16
  FEE_SCALE = 4
  FEE = 1
  U256_MAX = 80
  TWAP_WINDOW = 1
  FirstBlock = 1
  MaxBlock = 3
SPECIFICATION Spec
INVARIANTS
  TypeOK
  PremintCovered
PROPERTIES
  FloorKept
  RefinesOracle
  RefinesStableReserve
