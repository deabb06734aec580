SPECIFICATION FairSpec
CONSTANTS
  None = None
  Ids = {1}
  Signed <- DisputeSigned
  Certificates <- DisputeCertificates
  Amounts = {0, 3}
  ChallengePeriods = {0, 1, 9}
  Hops = {}
  Payments = {}
  Splices = {}
  Rewards = {0, 5000, 6000}
  DEFAULT_CHALLENGE_PERIOD = 2
  MAX_CHALLENGE_PERIOD = 2
  MaxChannelLifetime = 1
  COUNTER_PROOF_EXTENSION_LEDGERS = 1
  MAX_DISPUTE_EXTENSIONS = 1
  MAX_REWARD_BPS = 5000
  MaxLedger = 9
  MaxOpenLedger = 1
  MaxLocks = 2
  MaxFunding = 3
  WINDOW_SIZE = 2
INVARIANTS
  NonceAcceptedOnce
PROPERTIES
  BalanceNeverRegresses
  EveryChannelEnds
CHECK_DEADLOCK FALSE
