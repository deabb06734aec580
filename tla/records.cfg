SPECIFICATION RecordsSpec
CONSTANTS
  None = None
  MaxLedger = 4
  MaxBatches = 3
  Pruners = {"p1", "p2"}
  RETENTION_LEDGERS = 2
  PRUNE_BOUNTY_PER_BATCH = 1
  MAX_PROOF_LEN = 1
  ShardFunds = 1
  Streams = {1, 2}
  Roots = {"r1", "r2"}
  Counts = {1, 2, 3}
  ZkProven <- ReceiptZk
  Merchants = {"m1", "m2"}
  RateLimits <- ReceiptLimits
  Intervals = {0, 2, 3}
  MaxCounts = {1, 3}
  PruneBefore = {2, 4}
  MigratedRecords <- ReceiptMigrations
  SHARD_CAPACITY = 2
  ROOT_BUFFER_SIZE = 2
  MAX_BATCH_SIZE = 2
  MAX_PRUNE_BATCHES = 3
  MAX_RATE_BURST = 2
  MAX_RATE_REFILL_INTERVAL = 2
  MAX_ANCHOR_INTERVAL = 2
  MaxLeaves = 9
  MaxTotalLeaves = 6
  MAX_DEPTH = 4
  Vault = "vault"
  Parties = {"a1", "a2", "b"}
  Nfts = {"n1", "n2"}
  Operations = {"refund", "policy"}
  Plaintexts = {"x"}
  Unknown = "unknown"
  COMMIT_MIN_DELAY_LEDGERS = 2
  MaxVersion = 2
  Feeds = {"f1", "f2", "f3"}
  Rounds <- FeedRounds
  Policies <- FeedPolicies
  Sellers = {"m1", "m2"}
  Buyers = {"b"}
  ChosenSalts = {"s"}
  TimePolicies = {"t1"}
  Wasms = {"w1", "zero"}
  ZeroWasm = "zero"
  FeeRates = {500, 501}
  MAX_FEE_BPS = 500
  MaxVaults = 2
  MaxHeld = 1
  Commitments = {"c1", "c2", "zero"}
  ZeroCommitment = "zero"
  MinAmounts <- EscrowFloors
  IcLengths = {0, 1, 2, 4}
  Proofs <- EscrowProofs
  DisputeOracles = {"o1", "o2"}
  DisputedAmounts = {0, 1}
  MaxEscrows = 2
  MaxDisputes = 3
INVARIANTS
  ReceiptsCounted
  ReceiptsReadBack
  VaultsCounted
  FeedsSound
PROPERTIES
  CustodyKept
  VerdictsFinal
CHECK_DEADLOCK FALSE
