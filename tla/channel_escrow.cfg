SPECIFICATION PooledSpec
CONSTANTS
  None = None
  Ids = {1, 2}
  Signed <- PooledSigned
  Certificates = {}
  Amounts = {2}
  ChallengePeriods = {1}
  Hops <- PooledHops
  Payments = {0, 1, 2}
  Splices = {0, 1}
  Rewards = {5000}
  DEFAULT_CHALLENGE_PERIOD = 2
  MAX_CHALLENGE_PERIOD = 2
  MaxChannelLifetime = 2
  COUNTER_PROOF_EXTENSION_LEDGERS = 1
  MAX_DISPUTE_EXTENSIONS = 1
  MAX_REWARD_BPS = 5000
  MaxLedger = 3
  MaxOpenLedger = 0
  MaxLocks = 2
  MaxFunding = 3
  WINDOW_SIZE = 2
INVARIANTS
  EscrowBacked
PROPERTIES
  SettlesInFull
  UpstreamOutlivesDownstream
CHECK_DEADLOCK FALSE
