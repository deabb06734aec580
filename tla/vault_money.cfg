SPECIFICATION MoneySpec
CONSTANTS
  m1 = m1
  m2 = m2
  c1 = c1
  c2 = c2
  r1 = r1
  r2 = r2
  r3 = r3
  s1 = s1
  s2 = s2
  Vault = Vault
  None = None
  MaxAmount = 1000000
  Merchants = {m1, m2}
  Others = {c1}
  Refs = {r1, r2}
  LegacyRefs = {}
  Strategies = {s1, s2}
  CouponIds = {1}
  Tokens = {1, 2}
  VaultInits <- MoneyInits
  Claims <- MoneyClaims
  Batches <- MoneyBatches
  Deposits = {4}
  Discounts = {5000, 6000}
  Withdrawals = {2}
  Policies = {}
  Cooldowns = {}
  FeeRates = {0, 3000, 10001}
  Ladders <- MoneyLadders
  DustThresholds = {0, 2}
  FlashLoans <- MoneyLoans
  Deployments = {3}
  Recalls = {1, 2}
  Replies <- MoneyReplies
  Ratios = {2500}
  POLICY_TIMELOCK = 2
  DUST_SWEEP_DELAY_LEDGERS = 1
  FLASH_LOAN_FEE_BPS = 9
  MAX_BATCH_SIZE = 3
  MAX_COUPON_DISCOUNT_BPS = 5000
  MaxLedger = 3
  MaxNonce = 3
  MaxFloat = 6
INVARIANTS
  StrategyAccounting
  TierMirrorsLadder
PROPERTIES
  MovesAreAuthorised
  FailedItemPaysNothing
