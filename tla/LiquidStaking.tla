--------------------------- MODULE LiquidStaking ---------------------------
(***************************************************************************)
(* contracts/governance/src/liquid_staking.rs: stACC minted one to one for *)
(* locked tokens and burned at an exchange rate that never falls.  The     *)
(* contract keeps the books only; it moves no tokens.                      *)
(***************************************************************************)
EXTENDS LedgerClock, FiniteSets, Functions

CONSTANTS Stakers, StakeAmounts, StakeRates,
          LOCK_EPOCH_LEDGERS,
          RateOne,             \* 1_000_000: one underlying per stACC
          MaxSupply            \* u64::MAX

StakerEntry == [stacc_balance : Nat, locked_underlying : Nat, lock_start_ledger : Nat]

\* Amounts are unsigned, and a stored entry is told from none.
ASSUME StakingAssumption ==
  IsFiniteSet(Stakers) /\ StakeAmounts \subseteq Nat /\ None \notin StakerEntry

VARIABLES rate, total_locked, total_supply, staker,
          minted_at            \* ghost: the ledger of each staker's latest mint

lsVars == <<rate, total_locked, total_supply, staker, minted_at>>

NoStake == [stacc_balance |-> 0, locked_underlying |-> 0, lock_start_ledger |-> 0]

\* Nothing stored: the getters answer with the defaults.
LsInit ==
  /\ rate = RateOne /\ total_locked = 0 /\ total_supply = 0
  /\ staker = [u \in Stakers |-> None]
  /\ minted_at = [u \in Stakers |-> 0]

\* May be called again; the stakers' entries stay.
initialize(initial_exchange_rate) ==
  /\ initial_exchange_rate # 0
  /\ rate' = initial_exchange_rate /\ total_locked' = 0 /\ total_supply' = 0
  /\ UNCHANGED <<staker, minted_at>>

load_user(u) == IF staker[u] = None THEN NoStake ELSE staker[u]

\* Mutant of mint: the lock of an earlier stake is kept for a later one.
mint_keeping_lock(u, amount) ==
  /\ amount # 0
  /\ total_supply + amount <= MaxSupply /\ total_locked + amount <= MaxSupply
  /\ load_user(u).stacc_balance + amount <= MaxSupply
  /\ total_supply' = total_supply + amount /\ total_locked' = total_locked + amount
  /\ staker' = [staker EXCEPT ![u] =
       [load_user(u) EXCEPT !.stacc_balance = @ + amount, !.locked_underlying = @ + amount]]
  /\ minted_at' = [minted_at EXCEPT ![u] = now]
  /\ UNCHANGED rate

mint(u, amount) ==
  /\ amount # 0
  /\ total_supply + amount <= MaxSupply /\ total_locked + amount <= MaxSupply
  /\ load_user(u).stacc_balance + amount <= MaxSupply
  /\ load_user(u).locked_underlying + amount <= MaxSupply
  /\ total_supply' = total_supply + amount /\ total_locked' = total_locked + amount
  /\ staker' = [staker EXCEPT ![u] =
       [stacc_balance |-> load_user(u).stacc_balance + amount,
        locked_underlying |-> load_user(u).locked_underlying + amount,
        lock_start_ledger |-> now]]
  /\ minted_at' = [minted_at EXCEPT ![u] = now]
  /\ UNCHANGED rate

\* The tokens redeemed are cut to 64 bits by `as u64`, without an error.
burn(u, stacc_amount) ==
  LET redeemed == ((stacc_amount * rate) \div RateOne) % (MaxSupply + 1)
  IN  /\ stacc_amount # 0 /\ staker[u] # None
      /\ now >= staker[u].lock_start_ledger + LOCK_EPOCH_LEDGERS
      /\ redeemed # 0
      /\ staker[u].stacc_balance >= stacc_amount
      /\ staker[u].locked_underlying >= stacc_amount
      /\ total_supply >= stacc_amount /\ total_locked >= redeemed
      /\ staker' = [staker EXCEPT ![u] =
           [stacc_balance |-> staker[u].stacc_balance - stacc_amount,
            locked_underlying |-> staker[u].locked_underlying - stacc_amount,
            lock_start_ledger |-> staker[u].lock_start_ledger]]
      /\ total_supply' = total_supply - stacc_amount
      /\ total_locked' = total_locked - redeemed
      /\ UNCHANGED <<rate, minted_at>>

set_exchange_rate(new_rate) ==
  /\ new_rate # 0 /\ new_rate >= rate
  /\ rate' = new_rate
  /\ UNCHANGED <<total_locked, total_supply, staker, minted_at>>

LsStep ==
  \/ \E r \in StakeRates : initialize(r) \/ set_exchange_rate(r)
  \/ \E u \in Stakers, n \in StakeAmounts : mint(u, n) \/ burn(u, n)

LsNext == (LsStep /\ UNCHANGED now) \/ (NextLedger /\ UNCHANGED lsVars)

LsSpec == LsInit /\ ClockInit /\ [][LsNext]_<<lsVars, now>>

---------------------------------------------------------------------------
(* Properties                                                              *)

\* mint and burn keep the books of the supply covered by the stakers' balances,
\* even across a second initialize (which restarts the totals only): no burn
\* can be refused for want of balance while the supply still counts it.
SupplyCovered ==
  /\ total_supply <= SumFunction([u \in Stakers |-> load_user(u).stacc_balance])
  /\ \A u \in Stakers : load_user(u).stacc_balance = load_user(u).locked_underlying

\* burn: no balance leaves an account within LOCK_EPOCH_LEDGERS of its latest
\* mint, so topping up a stake locks all of it again.
StakeStaysLocked ==
  \A u \in Stakers :
    load_user(u)'.stacc_balance < load_user(u).stacc_balance
      => now >= minted_at[u] + LOCK_EPOCH_LEDGERS

\* mint, burn and set_exchange_rate in any order: the supply stays covered and a
\* balance falls only once its lock has run out.
StakesKept == [][SupplyCovered' /\ StakeStaysLocked]_<<lsVars, now>>
=============================================================================
