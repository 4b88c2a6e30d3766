CONSTANTS
  deployer = deployer
  w1 = w1
  w2 = w2
  pair = pair
  Accounts = {deployer, w1, w2}
  Reserve = Reserve
  Deployer = deployer
  PoolAccount = deployer
  ThePool = pair
  NewOwners = {}
  Recipients = {}
  Amounts = {}
  WbtcHeld <- MCWbtcHeld
  NoAddress = NoAddress
  Pools = {pair}
  WbtcIsToken0Of <- MCWbtcIsToken0Of
  SpotPrices = {2}
  SeedPrices = {2}
  RATIO_SCALE = 1
  MIN_RATIO = 4
  MAX_RATIO = 8
  FEE_SCALE = 1
  FEE = 0
  U256_MAX = 12
  TWAP_WINDOW = 2
  FirstBlock = 1
  MaxBlock = 3
  LiquidityWbtc = 1
  LiquidityOd = 2
  MaxPending = 2
  Pages = {p1, p2}
  Wallets = {w1, w2}
  None = None
  DirectSteps = {4, 13}
  SignedSteps = {0, 13}
  Typed <- MCTyped
  Targets = {"OD", "Reserve"}
  SCALE = 2
  MaxJobs = 1
  MaxRestarts = 1
  MaxStarts = 3
SYMMETRY MCSymmetry
SPECIFICATION CabalSpec
INVARIANTS
  OwnersCanSign
  ExecutedWasSigned
CHECK_DEADLOCK FALSE
