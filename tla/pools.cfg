SPECIFICATION PoolsSpec
CONSTANTS
  None = None
  MaxLedger = 9
  Beneficiaries = {"v"}
  Schedules <- VestingSchedules
  Strategies = {"s1", "s2"}
  Portfolios <- WeightSets
  Reserves = {3}
  Shortfalls = {0, 1}
  Yields = {0, 1}
  Assets = {"tok", "fee", "usd"}
  Token = "tok"
  DistToken = "fee"
  TreasuryUsers = {"u1", "u2"}
  StakeSizes = {2, 3}
  YieldSizes = {5}
  PRECISION = 10
  Prices = {0, 2}
  PRICE_SCALE = 2
  Slippage = {5, 10}
  Trades = {0, 3}
  TotalBps = 10
  Deposits = {5}
  MaxBalance = 10
  MaxNet = 11
  MaxStaked = 5
  PoolUsers = {"p", "q"}
  PoolAmounts = {37}
  INDEX_ONE = 1000
  BPS_ONE = 100
  BASE_RATE_BPS = 2
  SLOPE_BPS = 100
  RESERVE_FACTOR_BPS = 10
  SECONDS_PER_YEAR = 2
  MaxSupplied = 80
  Terms <- StreamTerms
  MaxStreams = 2
  Collateral = {"eurc", "usdc", "xlm"}
  ChannelIds = {1, 2}
  DepositMaps <- CollateralMaps
  Periods = {0, 9}
  States <- SignedStates
  MaxOpenLedger = 1
  MAX_ASSETS = 2
  DEFAULT_CHALLENGE_PERIOD = 1
  MAX_CHALLENGE_PERIOD = 2
  MaxLifetime = 1
  SenderFunds = 4
  Owners = {"a", "b"}
  StealthKeys = {"p1", "p2", "zero"}
  Ephemerals = {"e"}
  ZeroPoint = "zero"
  StealthTokens = {"usdc", "eurc"}
  StealthAmounts = {0, 1, 2}
  MaxStealthDeposits = 3
INVARIANTS
  TreasurySound
  StreamsSound
  AssetsSound
PROPERTIES
  InterestFollowsDebt
  NewestStateHasItsWindow
  EveryPoolSettles
  ClaimsReachTheirRecipient
CHECK_DEADLOCK FALSE
