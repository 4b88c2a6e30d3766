CONSTANTS
  p0 = p0
  p1 = p1
  NoAddress = NoAddress
  Pools <- MCPools
  WbtcIsToken0Of <- MCWbtcIsToken0Of
  SpotPrices = {2, 4}
  SeedPrices = {2}
  RATIO_SCALE = 2
  MIN_RATIO = 8
  MAX_RATIO = 16
  FEE_SCALE = 4
  FEE = 1
  U256_MAX = 1000
  TWAP_WINDOW = 2
  FirstBlock = 1
  MaxBlock = 4
SPECIFICATION HistorySpec
INVARIANTS
  OracleNeverReverts
  LiveAfterWindow
  TwapIsRollingAverage
PROPERTIES
  ReadTwiceSame
  LiveUnlessRestarted
