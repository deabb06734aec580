------------------------- MODULE UptoAuthorization -------------------------
(***************************************************************************)
(* Authorizations of payments up to a cap (upto-authorization): a buyer    *)
(* grants the contract an allowance on the token, the facilitator settles  *)
(* the actual amount once before the expiry.  The token keeps ONE          *)
(* allowance per buyer, so the payments of a buyer share it: every grant   *)
(* overwrites it, every settlement and every cancellation zeroes it.       *)
(***************************************************************************)
EXTENDS LedgerClock

CONSTANTS
  Payments, Buyers,
  Sellers,
  Caps, Expiries,         \* arguments of authorize
  Slippages,              \* arguments of authorize_with_slippage
  Actuals,                \* arguments of settle
  Keys,                   \* signing keys of buyers
  Vouchers,               \* signed authorizations: [key, payment, from, to, cap, expiry]
  Timeouts,               \* arguments of set_inactivity_timeout
  DEFAULT_INACTIVITY_LEDGERS,
  BPS_DENOMINATOR,
  MAX_I128,               \* the largest amount
  InitialBalance          \* of a buyer

AuthorizationRecord ==
  [from : Buyers, to : Sellers, cap : Nat, expiry : Nat, consumed : BOOLEAN,
   max_slippage_bps : Nat, created_ledger : Nat]

\* The argument types of the entry points, and an absent record told from a
\* stored one.
ASSUME UptoAssumption ==
  /\ Caps \subseteq Int /\ Actuals \subseteq Int
  /\ Expiries \subseteq Nat /\ Slippages \subseteq Nat
  /\ \A v \in Vouchers : /\ v.payment \in Payments /\ v.from \in Buyers /\ v.to \in Sellers
                        /\ v.cap \in Int /\ v.expiry \in Nat
  /\ BPS_DENOMINATOR \in Nat \ {0} /\ MAX_I128 \in Nat /\ InitialBalance \in Nat
  /\ None \notin AuthorizationRecord /\ None \notin Nat

VARIABLES
  auth,                   \* [Payments -> AuthorizationRecord or None]
  signer,                 \* [Buyers -> registered key or None]
  timeout,                \* inactivity timeout, None before it is set
  allowance,              \* external: the token's allowance, [amount, live_until]
  wallet,                 \* external: the token balances of the buyers
  settled                 \* history: paid under the latest grant of a payment

uptoVars == <<auth, signer, timeout, allowance, wallet, settled>>

UptoInit ==
  /\ auth = [p \in Payments |-> None]
  /\ signer = [b \in Buyers |-> None]
  /\ timeout = None
  /\ allowance = [b \in Buyers |-> [amount |-> 0, live_until |-> 0]]
  /\ wallet = [b \in Buyers |-> InitialBalance]
  /\ settled = [p \in Payments |-> 0]

-----------------------------------------------------------------------------
MAX_SLIPPAGE_BPS == BPS_DENOMINATOR

\* None where the tolerance overflows.
max_settleable(cap, bps) ==
  LET tolerance == (cap \div BPS_DENOMINATOR) * bps
                     + ((cap % BPS_DENOMINATOR) * bps) \div BPS_DENOMINATOR
  IN IF cap < 0 \/ bps > MAX_SLIPPAGE_BPS \/ cap + tolerance > MAX_I128
     THEN None ELSE cap + tolerance

\* External: the token refuses a positive allowance that has already lapsed.
CanApprove(amount, live_until) == amount > 0 => live_until >= now

\* External: what the token lets the contract spend of a buyer's balance.
Spendable(b) == IF allowance[b].live_until >= now THEN allowance[b].amount ELSE 0

authorize_with_slippage(p, from, to, cap, expiry, bps) ==
  LET max_amount == max_settleable(cap, bps)
  IN /\ cap > 0
     /\ bps <= MAX_SLIPPAGE_BPS
     /\ max_amount # None
     /\ auth[p] # None => auth[p].expiry <= now \/ auth[p].consumed
     /\ CanApprove(max_amount, expiry)
     /\ allowance' = [allowance EXCEPT ![from] = [amount |-> max_amount, live_until |-> expiry]]
     /\ auth' = [auth EXCEPT ![p] =
          [from |-> from, to |-> to, cap |-> cap, expiry |-> expiry, consumed |-> FALSE,
           max_slippage_bps |-> bps, created_ledger |-> now]]
     /\ settled' = [settled EXCEPT ![p] = 0]
     /\ UNCHANGED <<signer, timeout, wallet>>

authorize(p, from, to, cap, expiry) == authorize_with_slippage(p, from, to, cap, expiry, 0)

register_signer(b, key) ==
  /\ signer' = [signer EXCEPT ![b] = key]
  /\ UNCHANGED <<auth, timeout, allowance, wallet, settled>>

\* A voucher verifies against the key its buyer has registered now.
authorize_signed(v) ==
  /\ signer[v.from] # None
  /\ v.key = signer[v.from]
  /\ authorize(v.payment, v.from, v.to, v.cap, v.expiry)

\* Mutant of settle: the rest of the allowance is not revoked.
settle_keeping_allowance(p, actual) ==
  LET r == auth[p]
  IN /\ actual > 0
     /\ r # None
     /\ ~r.consumed
     /\ now <= r.expiry
     /\ actual <= max_settleable(r.cap, r.max_slippage_bps)
     /\ actual <= Spendable(r.from) /\ actual <= wallet[r.from]
     /\ wallet' = [wallet EXCEPT ![r.from] = @ - actual]
     /\ allowance' = [allowance EXCEPT ![r.from].amount = @ - actual]
     /\ auth' = [auth EXCEPT ![p].consumed = TRUE]
     /\ settled' = [settled EXCEPT ![p] = @ + actual]
     /\ UNCHANGED <<signer, timeout>>

\* transfer_from traps when the allowance or the balance is too small.
settle(p, actual) ==
  LET r == auth[p]
  IN /\ actual > 0
     /\ r # None
     /\ ~r.consumed
     /\ now <= r.expiry
     /\ actual <= max_settleable(r.cap, r.max_slippage_bps)
     /\ actual <= Spendable(r.from) /\ actual <= wallet[r.from]
     /\ wallet' = [wallet EXCEPT ![r.from] = @ - actual]
     /\ allowance' = [allowance EXCEPT ![r.from] = [amount |-> 0, live_until |-> r.expiry]]
     /\ auth' = [auth EXCEPT ![p].consumed = TRUE]
     /\ settled' = [settled EXCEPT ![p] = @ + actual]
     /\ UNCHANGED <<signer, timeout>>

prune_authorization(p) ==
  /\ auth[p] # None
  /\ now > auth[p].expiry
  /\ auth' = [auth EXCEPT ![p] = None]
  /\ UNCHANGED <<signer, timeout, allowance, wallet, settled>>

set_inactivity_timeout(ledgers) ==
  /\ timeout' = ledgers
  /\ UNCHANGED <<auth, signer, allowance, wallet, settled>>

inactivity_timeout == IF timeout = None THEN DEFAULT_INACTIVITY_LEDGERS ELSE timeout

cancellation_deadline(created_ledger) == created_ledger + inactivity_timeout

cancel_inactive_escrow(p) ==
  /\ auth[p] # None
  /\ ~auth[p].consumed
  /\ now > cancellation_deadline(auth[p].created_ledger)
  /\ allowance' = [allowance EXCEPT ![auth[p].from] = [amount |-> 0, live_until |-> 0]]
  /\ auth' = [auth EXCEPT ![p] = None]
  /\ UNCHANGED <<signer, timeout, wallet, settled>>

UptoNext ==
  \/ \E p \in Payments :
       \/ \E b \in Buyers, to \in Sellers, cap \in Caps, e \in Expiries, bps \in Slippages :
            authorize_with_slippage(p, b, to, cap, e, bps)
       \/ \E actual \in Actuals : settle(p, actual)
       \/ prune_authorization(p)
       \/ cancel_inactive_escrow(p)
  \/ \E b \in Buyers, key \in Keys : register_signer(b, key)
  \/ \E v \in Vouchers : authorize_signed(v)
  \/ \E ledgers \in Timeouts : set_inactivity_timeout(ledgers)

UptoSpec ==
  UptoInit /\ ClockInit /\
  [][(UptoNext /\ UNCHANGED now) \/ (NextLedger /\ UNCHANGED uptoVars)]_<<uptoVars, now>>

-----------------------------------------------------------------------------
(* Properties. *)

\* Records, keys and allowances have their types.
UptoTypeOK ==
  /\ \A p \in Payments : auth[p] # None =>
       /\ auth[p].from \in Buyers /\ auth[p].to \in Sellers
       /\ auth[p].cap \in 1 .. MAX_I128 /\ auth[p].expiry \in Nat
       /\ auth[p].max_slippage_bps \in 0 .. MAX_SLIPPAGE_BPS
  /\ signer \in [Buyers -> Keys \union {None}]
  /\ allowance \in [Buyers -> [amount : 0 .. MAX_I128, live_until : Nat]]
  /\ wallet \in [Buyers -> 0 .. InitialBalance]

\* An allowance the token would still honour in the next ledger belongs to an
\* authorization that is still open, to the last unit: settle and
\* cancel_inactive_escrow leave nothing behind that another record of the
\* buyer could draw on, and a record is pruned only after its allowance
\* lapsed.
AllowanceIsGranted ==
  \A b \in Buyers :
    Spendable(b) > 0 /\ allowance[b].live_until > now =>
      \E p \in Payments :
        /\ auth[p] # None /\ ~auth[p].consumed /\ auth[p].from = b
        /\ auth[p].expiry = allowance[b].live_until
        /\ max_settleable(auth[p].cap, auth[p].max_slippage_bps) = allowance[b].amount

\* What was paid under the latest grant of a payment never exceeds that grant,
\* however the allowance was refilled by other payments of the buyer in
\* between (settle marks the record consumed).
PaidWithinGrant ==
  \A p \in Payments : auth[p] # None =>
    settled[p] <= max_settleable(auth[p].cap, auth[p].max_slippage_bps)

\* The token's allowance and the payments made are those of the grants on
\* record.
GrantsKept == UptoTypeOK /\ AllowanceIsGranted /\ PaidWithinGrant
=============================================================================
