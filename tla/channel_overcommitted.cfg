SPECIFICATION MixedSpec
CONSTANTS
  None = None
  Ids = {1}
  Signed <- PooledSigned
  Certificates = {}
  Amounts = {2}
  ChallengePeriods = {1}
  Hops <- PooledHops
  Payments = {1, 2}
  Splices = {}
  Rewards = {}
  DEFAULT_CHALLENGE_PERIOD = 2
  MAX_CHALLENGE_PERIOD = 2
  MaxChannelLifetime = 1
  COUNTER_PROOF_EXTENSION_LEDGERS = 1
  MAX_DISPUTE_EXTENSIONS = 1
  MAX_REWARD_BPS = 5000
  MaxLedger = 2
  MaxOpenLedger = 0
  MaxLocks = 2
  MaxFunding = 3
  WINDOW_SIZE = 2
INVARIANTS
  EscrowCovers
CHECK_DEADLOCK FALSE
