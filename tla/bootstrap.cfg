CONSTANTS
  deployer = deployer
  pool = pool
  pair = pair
  Accounts = {deployer, pool}
  Reserve = Reserve
  Deployer = deployer
  PoolAccount = pool
  ThePool = pair
  NewOwners = {}
  Recipients = {}
  Amounts = {}
  WbtcHeld <- MCWbtcHeld
  NoAddress = NoAddress
  Pools = {pair}
  WbtcIsToken0Of <- MCWbtcIsToken0Of
  SpotPrices = {2}
  SeedPrices = {2}
  RATIO_SCALE = 1
  MIN_RATIO = 4
  MAX_RATIO = 8
  FEE_SCALE = 1
  FEE = 0
  U256_MAX = 12
  TWAP_WINDOW = 2
  FirstBlock = 1
  MaxBlock = 4
  SeedWbtc = 5
  SeedPrice = 2
  LiquidityWbtc = 1
  LiquidityOd = 2
  MaxPending = 2
  MaxRpcErrors = 2
SPECIFICATION ScriptFairSpec
INVARIANTS
  SeedBeforePremint

  
CHECK_DEADLOCK FALSE
