SPECIFICATION DustSpec
CONSTANTS
  m1 = m1
  m2 = m2
  c1 = c1
  c2 = c2
  r1 = r1
  r2 = r2
  r3 = r3
  s1 = s1
  s2 = s2
  Vault = Vault
  None = None
  MaxAmount = 1000000
  Merchants = {m1}
  Others = {c1}
  Refs = {r1}
  LegacyRefs = {}
  Strategies = {}
  CouponIds = {}
  Tokens = {1}
  VaultInits <- DustInits
  Claims <- MoneyClaims
  Batches = {}
  Deposits = {3}
  Discounts = {}
  Withdrawals = {}
  Policies = {}
  Cooldowns = {}
  FeeRates = {}
  Ladders = {}
  DustThresholds = {2}
  FlashLoans = {}
  Deployments = {}
  Recalls = {}
  Replies = {}
  Ratios = {}
  POLICY_TIMELOCK = 2
  DUST_SWEEP_DELAY_LEDGERS = 1
  FLASH_LOAN_FEE_BPS = 9
  MAX_BATCH_SIZE = 3
  MAX_COUPON_DISCOUNT_BPS = 5000
  MaxLedger = 3
  MaxNonce = 4
  MaxFloat = 6
INVARIANTS
  FirstCeilingBinds
