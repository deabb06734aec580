SPECIFICATION AccountsSpec
CONSTANTS
  None = None
  MaxLedger = 3
  Self = "self"
  ZeroAddress = "zero"
  Addresses = {"s1", "s2", "s3", "zero"}
  Tokens = {"usd", "eur"}
  Setups <- AccountSetups
  Weights = {0, 1, 3}
  Rotations <- AccountRotations
  Limits = {0, 2}
  Spends <- AccountSpends
  Delays = {0, 2}
  Required = {2}
  MAX_U32 = 4
  WINDOW_SECONDS = 2
  APPROVAL_TTL_SECONDS = 2
  MaxQueue = 1
  MaxOutflow = 2
  Payments = {1, 2}
  Buyers = {"b1", "b2"}
  Sellers = {"seller"}
  Caps = {0, 2}
  Expiries = {2}
  Slippages = {0, 2, 4, 5}
  Actuals = {2, 3}
  Keys = {"k1"}
  Vouchers <- AccountVouchers
  Timeouts = {1}
  DEFAULT_INACTIVITY_LEDGERS = 2
  BPS_DENOMINATOR = 4
  MAX_I128 = 3
  InitialBalance = 4
  Holders = {"h1", "h2"}
  Disputes = {1, 2, 3, 4}
  Escrows = {1, 2}
  Configs <- TierConfigs
  Classes = {0, 1, 4}
  BaseFees = {1, 30}
  BRONZE_THRESHOLD = 2
  SILVER_THRESHOLD = 3
  GOLD_THRESHOLD = 4
  MAX_SCORE = 1000
  STARTING_SCORE = 500
  SCORE_FLOOR = 100
  GROWTH_RATE_BPS = 2500
  PENALTY_RATE_BPS = 5000
  DECAY_INTERVAL_LEDGERS = 1
  DECAY_RATE_BPS = 4000
  DEFAULT_GOLD_TIER = 800
  DEFAULT_ZERO_FEE_TIER = 950
  MaxFrauds = 1
  Gateways = {"gw1", "gw2"}
  Endpoints = {"lz1", "lz2"}
  Messages <- AxelarMessages
  Packets <- DisputePackets
  GuardianSets <- WormholeSets
  Vaas <- WormholeVaas
  Withdrawers = {"w1", "w2"}
  Withdrawals = {0, 1, 2}
  InitialWrapped = 2
  MaxCredit = 4
  MaxRequests = 4
INVARIANTS
  MultisigSound
  GrantsKept
  ReputationSound
PROPERTIES
  AccountGuarded
  DeliveredOnce
CHECK_DEADLOCK FALSE
