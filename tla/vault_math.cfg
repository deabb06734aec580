SPECIFICATION Spec
CONSTANTS
  MaxAmount = 1000000
  Amounts = {0, 1, 2, 6, 7, 8, 9, 10, 9999, 10000, 10001, 20000}
  Rates = {0, 1, 9, 3333, 5000, 9999, 10000}
  U64Max = 255
  U128Max = 1000000
  MAX_LOCK_LEDGERS = 9
  QF_SCALE = 4
INVARIANTS
  VaultArithmetic
  GovernanceArithmetic
