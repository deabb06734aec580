----------------------------- MODULE Insurance -----------------------------
(***************************************************************************)
(* contracts/insurance: a lending pool with Compound-style interest.       *)
(* Supply and borrow indexes grow on every call; a user's position is      *)
(* settled against them on that user's next call.                          *)
(*                                                                         *)
(* The fixed-point scale, the basis points and the length of a year are    *)
(* constants, so that products stay small; i128 overflow is out of reach.  *)
(***************************************************************************)
EXTENDS LedgerClock

CONSTANTS PoolUsers, PoolAmounts,
          INDEX_ONE,             \* PRECISION
          BPS_ONE,               \* MAX_UTILIZATION_BPS, and the 10_000 of the rates
          BASE_RATE_BPS, SLOPE_BPS, RESERVE_FACTOR_BPS, SECONDS_PER_YEAR,
          MaxSupplied

UserInfo == [supplied : Nat, borrowed : Nat, supply_checkpoint : Nat, borrow_checkpoint : Nat]

\* What the constants of interest.rs satisfy.  The last conjunct compares the least
\* rate of a second, 634195839 of 10^18 in the code, with the reserve factor.
ASSUME PoolAssumption ==
  /\ INDEX_ONE \in Nat \ {0} /\ BPS_ONE \in Nat \ {0} /\ SECONDS_PER_YEAR \in Nat \ {0}
  /\ BASE_RATE_BPS \in Nat /\ SLOPE_BPS \in Nat /\ RESERVE_FACTOR_BPS \in 0..BPS_ONE
  /\ RESERVE_FACTOR_BPS * ((BASE_RATE_BPS * INDEX_ONE) \div (BPS_ONE * SECONDS_PER_YEAR)) >= BPS_ONE
  /\ PoolAmounts \subseteq Int /\ None \notin UserInfo

VARIABLES
  pool,         \* TotalSupplied, TotalBorrowed, SupplyIndex, BorrowIndex, LastAccrual
  user_info,    \* UserInfo
  cash          \* the contract's balance of its token

poolVars == <<pool, user_info, cash>>

Clamp(lo, hi, x) == IF x < lo THEN lo ELSE IF x > hi THEN hi ELSE x

\* __constructor
PoolInit ==
  /\ pool = [supplied |-> 0, borrowed |-> 0, supply_index |-> INDEX_ONE,
             borrow_index |-> INDEX_ONE, last_accrual |-> now]
  /\ user_info = [u \in PoolUsers |-> None]
  /\ cash = 0

---------------------------------------------------------------------------
(* interest.rs                                                             *)

utilization_ratio(borrowed, supplied) ==
  IF borrowed <= 0 THEN 0
  ELSE IF supplied <= 0 THEN BPS_ONE
  ELSE Clamp(0, BPS_ONE, (borrowed * BPS_ONE) \div supplied)

borrow_rate(util) ==
  LET annual_bps == BASE_RATE_BPS + (SLOPE_BPS * util) \div BPS_ONE
  IN  (annual_bps * INDEX_ONE) \div (BPS_ONE * SECONDS_PER_YEAR)

supply_rate(rate, util) ==
  (rate * util * (BPS_ONE - RESERVE_FACTOR_BPS)) \div (BPS_ONE * BPS_ONE)

\* accrue_interest and accrue_supply
Compounded(index, rate, dt) ==
  IF dt <= 0 THEN index ELSE (index * (INDEX_ONE + rate * dt)) \div INDEX_ONE

\* Rust's division rounds towards zero; TotalBorrowed may be negative.
mul_div(a, b, c) == IF c = 0 THEN a
                    ELSE IF a >= 0 THEN (a * b) \div c ELSE -(((-a) * b) \div c)

\* accrue_internal: the pool every call works on.
accrue_internal ==
  LET dt == now - pool.last_accrual
      util == utilization_ratio(pool.borrowed, pool.supplied)
      new_b == Compounded(pool.borrow_index, borrow_rate(util), dt)
      new_s == Compounded(pool.supply_index, supply_rate(borrow_rate(util), util), dt)
  IN  IF dt > 0 /\ (pool.supplied > 0 \/ pool.borrowed > 0)
      THEN [supplied |-> mul_div(pool.supplied, new_s, pool.supply_index),
            borrowed |-> mul_div(pool.borrowed, new_b, pool.borrow_index),
            supply_index |-> new_s, borrow_index |-> new_b, last_accrual |-> now]
      ELSE [pool EXCEPT !.last_accrual = now]

---------------------------------------------------------------------------
load_user(u, p) ==
  IF user_info[u] # None THEN user_info[u]
  ELSE [supplied |-> 0, borrowed |-> 0, supply_checkpoint |-> p.supply_index,
        borrow_checkpoint |-> p.borrow_index]

\* Mutant of settle_view: the checkpoint moves without the debt.
settle_view_forgiving(i, p) ==
  [supplied |-> i.supplied
     + (i.supplied * (p.supply_index - i.supply_checkpoint)) \div INDEX_ONE,
   borrowed |-> i.borrowed,
   supply_checkpoint |-> p.supply_index, borrow_checkpoint |-> p.borrow_index]

\* The indexes never fall, so the code's comparisons with the checkpoints only
\* skip an addition of zero.
settle_view(i, p) ==
  [supplied |-> i.supplied
     + (i.supplied * (p.supply_index - i.supply_checkpoint)) \div INDEX_ONE,
   borrowed |-> i.borrowed
     + (i.borrowed * (p.borrow_index - i.borrow_checkpoint)) \div INDEX_ONE,
   supply_checkpoint |-> p.supply_index, borrow_checkpoint |-> p.borrow_index]

settle_user(u, p) == settle_view(load_user(u, p), p)

accrue == pool' = accrue_internal /\ UNCHANGED <<user_info, cash>>

pool_deposit(u, amount) ==
  LET p == accrue_internal
      info == settle_user(u, p)
  IN  /\ amount > 0
      /\ p.supplied + amount <= MaxSupplied             \* bound
      /\ pool' = [p EXCEPT !.supplied = @ + amount]
      /\ user_info' = [user_info EXCEPT ![u] = [info EXCEPT !.supplied = info.supplied + amount]]
      /\ cash' = cash + amount

Liquid(p) == p.supplied - p.borrowed

pool_withdraw(u, amount) ==
  LET p == accrue_internal
      info == settle_user(u, p)
  IN  /\ amount > 0 /\ amount <= info.supplied
      /\ info.borrowed <= info.supplied - amount
      /\ amount <= Liquid(p)
      /\ cash >= amount                                 \* the token's transfer
      /\ pool' = [p EXCEPT !.supplied = @ - amount]
      /\ user_info' = [user_info EXCEPT ![u] = [info EXCEPT !.supplied = info.supplied - amount]]
      /\ cash' = cash - amount

pool_borrow(u, amount) ==
  LET p == accrue_internal
      info == settle_user(u, p)
  IN  /\ amount > 0
      /\ info.borrowed + amount <= info.supplied
      /\ amount <= Liquid(p)
      /\ cash >= amount                                 \* the token's transfer
      /\ pool' = [p EXCEPT !.borrowed = @ + amount]
      /\ user_info' = [user_info EXCEPT ![u] = [info EXCEPT !.borrowed = info.borrowed + amount]]
      /\ cash' = cash - amount

pool_repay(u, amount) ==
  LET p == accrue_internal
      info == settle_user(u, p)
      actual == IF amount <= info.borrowed THEN amount ELSE info.borrowed
  IN  /\ amount > 0
      /\ info.borrowed > 0
      /\ pool' = [p EXCEPT !.borrowed = @ - actual]
      /\ user_info' = [user_info EXCEPT ![u] = [info EXCEPT !.borrowed = info.borrowed - actual]]
      /\ cash' = cash + actual

PoolStep ==
  \/ accrue
  \/ \E u \in PoolUsers, n \in PoolAmounts :
       \/ pool_deposit(u, n) \/ pool_withdraw(u, n)
       \/ pool_borrow(u, n) \/ pool_repay(u, n)

PoolNext == (PoolStep /\ UNCHANGED now) \/ (NextLedger /\ UNCHANGED poolVars)

PoolSpec == ClockInit /\ PoolInit /\ [][PoolNext]_<<poolVars, now>>

---------------------------------------------------------------------------
(* Properties                                                              *)

\* What a user owes at the current ledger: the debt of the last call and its
\* share of the growth of the borrow index since.
DebtOf(u) ==
  IF user_info[u] = None THEN 0
  ELSE user_info[u].borrowed
         + (user_info[u].borrowed
              * (accrue_internal.borrow_index - user_info[u].borrow_checkpoint)) \div INDEX_ONE

\* The indices only grow from INDEX_ONE and no user's checkpoint is ahead of them.
PoolTypeOK ==
  /\ pool.supplied \in Int /\ pool.borrowed \in Int
  /\ pool.supply_index >= INDEX_ONE /\ pool.borrow_index >= INDEX_ONE
  /\ pool.last_accrual \in 0..now
  /\ \A u \in PoolUsers : user_info[u] # None =>
       /\ user_info[u].supplied \in Nat /\ user_info[u].borrowed \in Nat
       /\ user_info[u].supply_checkpoint \in INDEX_ONE..pool.supply_index
       /\ user_info[u].borrow_checkpoint \in INDEX_ONE..pool.borrow_index
  /\ cash \in Nat

\* accrue_internal never raises the pool's total supply by more than its total
\* debt, although each total is rounded through an index of its own: the reserve
\* factor absorbs the roundings.  The totals are all that it bounds: settle_view
\* credits one supplier with supplied * (index - checkpoint) / PRECISION, not
\* divided by the checkpoint, so positions may add up to more than the total.
YieldWithinInterest ==
  pool.borrowed >= 0 =>
    accrue_internal.supplied - pool.supplied <= accrue_internal.borrowed - pool.borrowed

\* A debt, with the interest of the elapsed time, falls in no other way than by
\* tokens paid in: no accrual, settlement or call of another user forgives any.
DebtFallsByRepayment ==
  \A u \in PoolUsers :
    DebtOf(u)' < DebtOf(u) => DebtOf(u) - DebtOf(u)' = cash' - cash

\* Over every interleaving of deposits, loans, repayments and lapses of time the
\* pool's total supply gains no more than its total debt when interest accrues,
\* and no borrower's debt falls except by the tokens the same call pays in.
InterestFollowsDebt ==
  [][PoolTypeOK' /\ YieldWithinInterest' /\ DebtFallsByRepayment]_<<poolVars, now>>
=============================================================================
