SPECIFICATION GovernanceSpec
CONSTANTS
  None = None
  MaxLedger = 4
  U64Max = 255
  U128Max = 100000
  MAX_LOCK_LEDGERS = 4
  QF_SCALE = 4
  Accounts = {"a", "b", "c"}
  Constitutions <- GovConstitutions
  Calls = {"call"}
  Keys = {"ka", "kb", "kc"}
  ValidKeys = {"ka", "kb"}
  Rings <- GovRings
  Simulators = {"sim"}
  Tokens = {"usd", "acc"}
  TreasuryTokens = {"usd"}
  VeTokens = {"acc"}
  LockAmounts = {0, 5}
  Unlocks = {2, 4}
  FundAmounts = {5}
  RAGEQUIT_WINDOW = 1
  TIMELOCK_DELAY_LEDGERS = 1
  OPTIMISTIC_CHALLENGE_WINDOW = 1
  MIN_LOCK_LEDGERS = 2
  MaxProposals = 2
  MaxHolding = 10
  Bounties = {1, 2}
  Recipients = {"r"}
  Donations = {1, 2}
  Stakers = {"u1", "u2"}
  StakeAmounts = {1, 2}
  StakeRates = {0, 1, 3, 6}
  LOCK_EPOCH_LEDGERS = 2
  RateOne = 2
  MaxSupply = 4
PROPERTIES
  MatchNetOfAllDonations
CHECK_DEADLOCK FALSE
