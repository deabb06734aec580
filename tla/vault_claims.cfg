SPECIFICATION ClaimsSpec
CONSTANTS
  m1 = m1
  m2 = m2
  c1 = c1
  c2 = c2
  r1 = r1
  r2 = r2
  r3 = r3
  s1 = s1
  s2 = s2
  Vault = Vault
  None = None
  MaxAmount = 1000000
  Merchants = {m1}
  Others = {c1, c2}
  Refs = {r1, r2, r3}
  LegacyRefs = {r3}
  Strategies = {}
  CouponIds = {}
  Tokens = {1}
  VaultInits <- ClaimsInits
  Claims <- ClaimsClaims
  Batches <- ClaimsBatches
  Deposits = {3}
  Discounts = {}
  Withdrawals = {1}
  Policies <- ClaimsPolicies
  Cooldowns = {0, 2}
  FeeRates = {}
  Ladders = {}
  DustThresholds = {}
  FlashLoans = {}
  Deployments = {}
  Recalls = {}
  Replies = {}
  Ratios = {}
  POLICY_TIMELOCK = 2
  DUST_SWEEP_DELAY_LEDGERS = 1
  FLASH_LOAN_FEE_BPS = 9
  MAX_BATCH_SIZE = 3
  MAX_COUPON_DISCOUNT_BPS = 5000
  MaxLedger = 3
  MaxNonce = 3
  MaxFloat = 6
INVARIANTS
  RefundsWithinCeiling
  CooldownAdmitsOnePerBatch
PROPERTIES
  TimelockHonoured
  ImplementsLedger
