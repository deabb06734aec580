---------------------------- MODULE RefundVault ----------------------------
(***************************************************************************)
(* The refund vault contract: a merchant's float, the cumulative refund    *)
(* record of every payment, the claim path with its policy gates, the two  *)
(* kinds of batches, dust sweeping, flash loans, the yield strategy, the   *)
(* fee ladder and the administration.                                      *)
(*                                                                         *)
(* Each entry point is one transaction, so it is one action; the batches,  *)
(* which loop over claims, are a transaction in flight (tx) that no other  *)
(* transaction interleaves with.  An entry point that returns an error     *)
(* changes nothing and is simply not enabled.  Inside a batch an error and *)
(* a trap differ: process_batch survives an error (and keeps whatever the  *)
(* failed claim had already done), nothing survives a trap.                *)
(*                                                                         *)
(* One clock, now, stands for the ledger sequence and for the timestamp.   *)
(***************************************************************************)
EXTENDS VaultMath, FiniteSets

CONSTANTS
  Merchants,        \* addresses that can administer the vault
  Vault,            \* the vault's own address
  Others,           \* customers and treasuries
  Refs,             \* payment references
  LegacyRefs,       \* references refunded under the old single-refund record
  Strategies,       \* yield strategy contracts
  CouponIds,
  Tokens,
  None,             \* an Option that is None

  \* The inputs each entry point is called with.
  VaultInits, Claims, Batches, Deposits, Discounts, Withdrawals, Policies,
  Cooldowns, FeeRates, Ladders, DustThresholds, FlashLoans, Deployments,
  Recalls, Replies, Ratios,

  POLICY_TIMELOCK, DUST_SWEEP_DELAY_LEDGERS, FLASH_LOAN_FEE_BPS,
  MAX_BATCH_SIZE, MAX_COUPON_DISCOUNT_BPS,

  MaxLedger,        \* bound: the last ledger
  MaxNonce,         \* bound: money-moving transactions start below this nonce
  MaxFloat          \* bound: flash loans, which draw no nonce, start below it

Addresses == Merchants \cup Others \cup {Vault}

RefundClaim ==
  [ payment_ref : Refs, recipient : Addresses, amount : Int,
    paid_at_ledger : Nat, payment_amount : Int,
    vdf_proof : {"none", "valid", "invalid"} ]

Policy == [window : Nat, deadline : Nat, vdf_delay : Nat]
Proposal == [policy : Policy, ledger : Nat]

\* What a strategy answers to withdraw: the principal and yield it reports
\* and the tokens it really sends.
StrategyReply == [principal : Int, yield : Int, paid : Nat]

VaultInit ==
  [ policy : Policy, time_policy : BOOLEAN, vdf_policy : BOOLEAN, fee_bps : Nat,
    fee_recipient : Addresses \cup {None} ]

\* What storage holds: the records, the books that claims and money-moving
\* entry points write, the configuration, and a batch in flight.
RefundRecord ==
  [ amount_refunded : Int, payment_amount : Int, paid_at_ledger : Nat, ledger : Nat ]

MerchantTierState ==
  [ settled_volume : Int, current_tier : Nat, fee_bps : Nat, next_threshold : Int ]

CouponRecord ==
  [ owner : Merchants, discount_bps : 0..MAX_COUPON_DISCOUNT_BPS, redeemed : BOOLEAN ]

Books ==
  [ float : Int, records : [Refs -> RefundRecord \cup {None}],
    user_nonce : [Merchants -> Nat], nonce : Nat, last_claim : Nat,
    tier : MerchantTierState \cup {None}, deployed : Int, harvested : Int,
    lock : BOOLEAN, owed : Int, coupons : [CouponIds -> CouponRecord \cup {None}],
    claimed : [Refs -> Int], ceiling : [Refs -> Int \cup {None}],
    accepted : [Merchants -> SUBSET Nat] ]

Config ==
  [ admin : Merchants, pending_admin : Merchants \cup {None}, paused : BOOLEAN,
    policy : Policy,
    pending_policy : [policy : Policy, proposed_at_ledger : Nat] \cup {None},
    time_policy : BOOLEAN, vdf_policy : BOOLEAN, oracle_policy : BOOLEAN,
    cooldown : Nat, fee_bps : Nat, fee_recipient : Addresses \cup {None},
    ladder : Seq(MerchantTier), dust_threshold : Int, dust_treasury : Addresses \cup {None},
    token : Tokens, approved : SUBSET Strategies, strategy : Strategies \cup {None},
    reserve_ratio : Nat, max_deploy_ratio : Nat ]

Batch ==
  [ kind : {"claim_batch", "process_batch"}, todo : Seq(RefundClaim), fee_bps : Nat,
    saved : Books, results : Seq(BOOLEAN) ]

ASSUME AddressAssumption == Vault \notin Merchants \cup Others

ASSUME NoneAssumption ==
  /\ None \notin Strategies \cup Addresses
  /\ None \notin RefundRecord \cup Proposal \cup Batch

ASSUME InputAssumption ==
  /\ LegacyRefs \subseteq Refs
  /\ VaultInits \subseteq VaultInit
  /\ Claims \subseteq RefundClaim
  /\ \A s \in Batches : s \in Seq(RefundClaim)
  /\ Policies \subseteq Policy
  /\ Ladders \subseteq Seq(MerchantTier)
  /\ Replies \subseteq StrategyReply
  /\ FlashLoans \subseteq [amount : Int, repaid : Int]
  /\ Deposits \cup Withdrawals \cup Deployments \cup Recalls \cup DustThresholds
       \subseteq Int
  /\ Discounts \cup Cooldowns \cup FeeRates \cup Ratios \subseteq Nat

ASSUME BoundAssumption ==
  /\ MaxLedger \in Nat /\ MaxNonce \in Nat /\ MaxFloat \in Nat /\ MaxAmount \in Nat
  /\ POLICY_TIMELOCK \in Nat /\ DUST_SWEEP_DELAY_LEDGERS \in Nat
  /\ FLASH_LOAN_FEE_BPS \in Nat
  /\ MAX_COUPON_DISCOUNT_BPS \in 0..BPS

VARIABLES
  now,         \* ledger sequence and timestamp
  cfg,         \* instance storage written by the administration
  books,       \* what claims and money-moving entry points write
  tx,          \* the batch in flight, or None
  proposed     \* history: the latest policy proposal and its ledger

vars == <<now, cfg, books, tx, proposed>>

-----------------------------------------------------------------------------
(* Construction.  A VaultInit carries the policy, the policy contracts, the *)
(* fee rate (which the constructor does not validate) and its recipient.   *)

Init ==
  \E init \in VaultInits, m \in Merchants, t \in Tokens :
    /\ now = 0
    /\ cfg = [ admin |-> m, pending_admin |-> None, paused |-> FALSE,
               policy |-> init.policy, pending_policy |-> None,
               time_policy |-> init.time_policy, vdf_policy |-> init.vdf_policy,
               oracle_policy |-> FALSE, cooldown |-> 0,
               fee_bps |-> init.fee_bps, fee_recipient |-> init.fee_recipient,
               ladder |-> <<>>, dust_threshold |-> 100, dust_treasury |-> None,
               token |-> t, approved |-> {}, strategy |-> None,
               reserve_ratio |-> 0, max_deploy_ratio |-> BPS ]
    /\ books = [ float |-> 0, records |-> [r \in Refs |-> None],
                 user_nonce |-> [a \in Merchants |-> 0], nonce |-> 0,
                 last_claim |-> 0, tier |-> None, deployed |-> 0,
                 harvested |-> 0, lock |-> FALSE, owed |-> 0,
                 coupons |-> [c \in CouponIds |-> None],
                 claimed |-> [r \in Refs |-> 0],
                 ceiling |-> [r \in Refs |-> None],
                 accepted |-> [a \in Merchants |-> {}] ]
    /\ tx = None
    /\ proposed = None

Idle == tx = None

\* An entry point that writes the configuration, or the books, and nothing else.
Configure(c) == Idle /\ cfg' = c /\ UNCHANGED <<now, books, tx, proposed>>
OnlyBooksChange == UNCHANGED <<now, cfg, tx, proposed>>

\* The bound on the transactions that draw an event or a user nonce.
Moving ==
  /\ Idle
  /\ books.nonce < MaxNonce
  /\ books.user_nonce[cfg.admin] < MaxNonce

-----------------------------------------------------------------------------
(* The outcome of a call: its result and the books it leaves behind.       *)

Ok(b) == [res |-> "ok", books |-> b]
Err(b) == [res |-> "err", books |-> b]
Trap(b) == [res |-> "trap", books |-> b]

\* Fees go to the configured recipient, by default to the merchant.
active_fee_recipient == IF cfg.fee_recipient # None THEN cfg.fee_recipient
                        ELSE cfg.admin

dust_treasury == IF cfg.dust_treasury # None THEN cfg.dust_treasury
                 ELSE active_fee_recipient

\* The pause check of the money-moving entry points.
NotPaused == ~cfg.paused

\* The rate read once per entry point into the policy cache.
effective_fee_bps == IF books.tier # None THEN books.tier.fee_bps
                     ELSE cfg.fee_bps

\* A claim call carries a nonce, which must be the next one of its caller.
\* Mutant: any nonce will do.
AnyNonce(nonce) == nonce \in Nat
ExpectedNonce(nonce) == nonce = books.user_nonce[cfg.admin]

\* accepted is a history: the nonces that calls which took effect carried.
bump_user_nonce(b, nonce) ==
  [b EXCEPT !.user_nonce[cfg.admin] = @ + 1,
            !.accepted[cfg.admin] = @ \cup {nonce}]

-----------------------------------------------------------------------------
(* Yield strategy recalls.                                                 *)

\* The reply is checked against the balance delta.  Mutant: it is not.
ReplyTrusted(principal, y) ==
  y.principal <= 0 \/ y.principal > principal \/ y.yield < 0
ReplyRejected(principal, y) ==
  \/ y.principal <= 0 \/ y.principal > principal \/ y.yield < 0
  \/ y.paid < y.principal + y.yield

\* A rejected reply returns an error after the tokens have moved.  owed is a
\* history: the tokens sent to strategies and not received back by recalls.
BookReply(b, principal, y) ==
  LET moved == [b EXCEPT !.float = @ + y.paid, !.owed = @ - y.paid]
  IN  IF ReplyRejected(principal, y)
      THEN Err(moved)
      ELSE Ok([moved EXCEPT !.deployed = @ - y.principal,
                            !.harvested = @ + y.yield,
                            !.nonce = @ + 1])

\* A strategy that fails traps the caller: its client is not a try_ client.
recall_principal(b, principal) ==
  IF principal <= 0 \/ principal > b.deployed
  THEN {Err(b)}
  ELSE {Trap(b)} \cup {BookReply(b, principal, y) : y \in Replies}

\* The lock is taken around the recall and released only when it succeeds.
ensure_liquidity(b, needed) ==
  IF b.float >= needed \/ b.deployed <= 0 \/ cfg.strategy = None
  THEN {Ok(b)}
  ELSE {[o EXCEPT !.books.lock = (o.res = "ok") => @] :
          o \in recall_principal(b, Least(needed - b.float, b.deployed))}
-----------------------------------------------------------------------------
(* The claim path.  A gate passes, fails with an error, or traps: the time *)
(* and VDF policies live in other contracts whose rejection is a trap.     *)

check_time_gates(c) ==
  LET p == cfg.policy
  IN  CASE p.window = 0 /\ p.deadline = 0 -> "ok"
        [] ~cfg.time_policy -> "err"
        [] OTHER -> IF \/ p.window > 0 /\ now > c.paid_at_ledger + p.window
                       \/ p.deadline > 0 /\ now > p.deadline
                    THEN "trap" ELSE "ok"

\* Stale or missing data and a failed condition are errors; a whitelisted
\* oracle that fails traps.
OracleGate == IF cfg.oracle_policy THEN {"ok", "err", "trap"} ELSE {"ok"}

\* One last-claim timestamp for the whole vault.
CooldownGate(b) ==
  IF cfg.cooldown > 0 /\ now < b.last_claim + cfg.cooldown THEN "err" ELSE "ok"

VdfGate(c) ==
  CASE cfg.policy.vdf_delay = 0 -> IF c.vdf_proof = "none" THEN "ok" ELSE "err"
    [] ~cfg.vdf_policy -> "err"
    [] OTHER -> IF c.vdf_proof = "valid" THEN "ok" ELSE "trap"

\* The gates run in this order and the first that does not pass decides.
FirstFailure(gates) ==
  LET failed == SelectSeq(gates, LAMBDA g : g # "ok")
  IN  IF failed = <<>> THEN "ok" ELSE Head(failed)

PolicyGates(b, c) ==
  {FirstFailure(<<check_time_gates(c), o, CooldownGate(b), VdfGate(c)>>) :
     o \in OracleGate}

\* The amount already refunded and the ceiling: both come from the stored
\* record once there is one.
PreviousRefunded(b, r) ==
  IF b.records[r] = None THEN 0 ELSE b.records[r].amount_refunded

\* Mutant of RecordCeiling: the ceiling is the one supplied on every call.
SuppliedCeiling(b, c) == c.payment_amount

RecordCeiling(b, c) ==
  IF b.records[c.payment_ref] = None THEN c.payment_amount
  ELSE b.records[c.payment_ref].payment_amount

\* Mutant of WithinCeiling: the claim alone is compared with the ceiling.
ClaimWithinCeiling(b, c) ==
  c.amount <= RecordCeiling(b, c) /\ RecordCeiling(b, c) > 0

\* resolve_ceiling accepts the claim.
WithinCeiling(b, c) ==
  /\ PreviousRefunded(b, c.payment_ref) + c.amount <= RecordCeiling(b, c)
  /\ RecordCeiling(b, c) > 0

\* The last-claim time written by a claim.  Mutant: the old one is kept.
KeepClaimTime(b) == b.last_claim
ClaimTime(b) == now

\* The books after the transfers: record, last claim, nonce, tier, and the
\* history variables claimed (paid out for a reference over all time) and
\* ceiling (the first ceiling a reference ever had).
Settled(b, c) ==
  LET r == c.payment_ref
  IN  [b EXCEPT
         !.float = @ - c.amount,
         !.records[r] =
           [ amount_refunded |-> PreviousRefunded(b, r) + c.amount,
             payment_amount  |-> RecordCeiling(b, c),
             paid_at_ledger  |-> c.paid_at_ledger,
             ledger          |-> now ],
         !.last_claim = ClaimTime(b),
         !.nonce = @ + 1,
         !.tier = IF @ = None THEN None ELSE on_settled(cfg.ladder, @, c.amount),
         !.claimed[r] = @ + c.amount,
         !.ceiling[r] = IF @ = None THEN RecordCeiling(b, c) ELSE @]

\* Mutant of Pay: the record is written before the checks.
PayAfterRecord(b, fee_bps, c) ==
  LET fee == refund_fee(c.amount, fee_bps)
      done == Settled(b, c)
  IN  CASE b.float < c.amount -> Err([done EXCEPT !.float = b.float])
        [] b.float >= c.amount /\ fee > 0 /\ active_fee_recipient = Vault ->
             Err([done EXCEPT !.float = b.float])
        [] OTHER -> IF fee > c.amount THEN Trap(b) ELSE Ok(done)

\* Float check, fee split and transfers; a fee above the amount makes the
\* payout negative, which the token refuses with a trap.
Pay(b, fee_bps, c) ==
  LET fee == refund_fee(c.amount, fee_bps)
  IN  CASE b.float < c.amount -> Err(b)
        [] b.float >= c.amount /\ fee > 0 /\ active_fee_recipient = Vault -> Err(b)
        [] OTHER -> IF fee > c.amount THEN Trap(b) ELSE Ok(Settled(b, c))

\* The set of outcomes of one claim.
claim_single(b, fee_bps, c) ==
  IF c.amount <= 0 \/ c.recipient = Vault \/ c.payment_ref \in LegacyRefs
  THEN {Err(b)}
  ELSE UNION { CASE g = "trap" -> {Trap(b)}
                 [] g = "err" \/ ~WithinCeiling(b, c) -> {Err(b)}
                 [] OTHER -> {IF l.res = "ok" THEN Pay(l.books, fee_bps, c) ELSE l :
                                l \in ensure_liquidity(b, c.amount)}
               : g \in PolicyGates(b, c) }

refund(c, nonce) ==
  /\ Moving
  /\ NotPaused
  /\ ExpectedNonce(nonce)
  /\ \E o \in claim_single(bump_user_nonce(books, nonce), effective_fee_bps, c) :
       /\ o.res = "ok"
       /\ books' = o.books
  /\ OnlyBooksChange

-----------------------------------------------------------------------------
(* Batches: the fee is read once, then the claims run one by one.          *)

BeginBatch(kind, claims, nonce) ==
  /\ Moving
  /\ NotPaused
  /\ ExpectedNonce(nonce)
  /\ Len(claims) <= MAX_BATCH_SIZE
  /\ books' = bump_user_nonce(books, nonce)
  /\ tx' = [ kind |-> kind, todo |-> claims, fee_bps |-> effective_fee_bps,
             saved |-> books, results |-> <<>> ]
  /\ UNCHANGED <<now, cfg, proposed>>

claim_batch(claims, nonce) == BeginBatch("claim_batch", claims, nonce)

\* An empty process_batch returns before it touches any state.
process_batch(claims, nonce) ==
  /\ claims # <<>>
  /\ BeginBatch("process_batch", claims, nonce)

\* Whether a failed claim is only recorded, its own effects kept.
BestEffort(o) == tx.kind = "process_batch" /\ o.res = "err"

BatchClaim ==
  /\ tx # None
  /\ tx.todo # <<>>
  /\ \E o \in claim_single(books, tx.fee_bps, Head(tx.todo)) :
       \/ /\ o.res = "ok" \/ BestEffort(o)
          /\ books' = o.books
          /\ tx' = [tx EXCEPT !.todo = Tail(@),
                              !.results = Append(@, o.res = "ok")]
       \/ /\ o.res # "ok" /\ ~BestEffort(o)      \* the transaction is reverted
          /\ books' = tx.saved
          /\ tx' = None
  /\ UNCHANGED <<now, cfg, proposed>>

EndBatch ==
  /\ tx # None
  /\ tx.todo = <<>>
  /\ tx' = None
  /\ UNCHANGED <<now, cfg, books, proposed>>

-----------------------------------------------------------------------------
(* The float: deposits with coupons, withdrawals, dust and flash loans.    *)

mint_coupon(id, owner, discount_bps) ==
  /\ Idle
  /\ discount_bps <= MAX_COUPON_DISCOUNT_BPS
  /\ books.coupons[id] = None
  /\ books' = [books EXCEPT !.coupons[id] =
                 [owner |-> owner, discount_bps |-> discount_bps, redeemed |-> FALSE]]
  /\ OnlyBooksChange

\* The discount is rounded down.
apply_coupon(amount, discount_bps) ==
  amount - mul_ratio(amount, discount_bps, BPS)

deposit(amount) ==
  /\ Moving
  /\ NotPaused
  /\ amount > 0
  /\ books' = [books EXCEPT !.float = @ + amount, !.nonce = @ + 1]
  /\ OnlyBooksChange

deposit_with_coupon(amount, id) ==
  /\ Moving
  /\ NotPaused
  /\ amount > 0
  /\ books.coupons[id] # None
  /\ books.coupons[id].owner = cfg.admin
  /\ ~books.coupons[id].redeemed
  /\ books' = [books EXCEPT
                 !.float = @ + apply_coupon(amount, books.coupons[id].discount_bps),
                 !.coupons[id].redeemed = TRUE,
                 !.nonce = @ + 1]
  /\ OnlyBooksChange

withdraw(amount) ==
  /\ Moving
  /\ NotPaused
  /\ amount > 0
  /\ \E l \in ensure_liquidity(books, amount) :
       /\ l.res = "ok"
       /\ l.books.float >= amount
       /\ books' = [l.books EXCEPT !.float = @ - amount, !.nonce = @ + 1]
  /\ OnlyBooksChange

\* The ledger at which a payment's escrow closed.
closed_at(rec) ==
  Greatest(rec.paid_at_ledger + cfg.policy.window, rec.ledger)

Residual(rec) == rec.payment_amount - rec.amount_refunded

\* A positive residual needs a treasury and the float.
SweepFunded(rec) ==
  Residual(rec) > 0 => dust_treasury # Vault /\ books.float >= Residual(rec)

sweep_dust(r) ==
  LET rec == books.records[r]
  IN  /\ Idle
      /\ NotPaused
      /\ rec # None
      /\ Residual(rec) >= 0
      /\ Residual(rec) < cfg.dust_threshold
      /\ now > closed_at(rec) + DUST_SWEEP_DELAY_LEDGERS
      /\ SweepFunded(rec)
      /\ books' = [books EXCEPT !.float = @ - Residual(rec), !.records[r] = None]
      /\ OnlyBooksChange

\* The loan comes back with its premium.
Repaid(amount, repaid) ==
  repaid >= amount + refund_fee(amount, FLASH_LOAN_FEE_BPS)

\* The borrower's callback leaves repaid tokens behind; the premium goes to
\* the fee recipient unless that is the vault itself.
flash_loan(amount, repaid) ==
  LET fee == refund_fee(amount, FLASH_LOAN_FEE_BPS)
      kept == IF active_fee_recipient # Vault THEN 0 ELSE fee
  IN  /\ Idle
      /\ NotPaused
      /\ amount > 0
      /\ amount <= books.float
      /\ books.float < MaxFloat
      /\ Repaid(amount, repaid)
      /\ books' = [books EXCEPT !.float = @ - amount + repaid - fee + kept]
      /\ OnlyBooksChange

\* The new token's balance is taken to be empty.
set_token(t) ==
  /\ books.float = 0
  /\ Configure([cfg EXCEPT !.token = t])

-----------------------------------------------------------------------------
(* The yield strategy.                                                     *)

approve_yield_strategy(s) == Configure([cfg EXCEPT !.approved = @ \cup {s}])

\* Revoking the active strategy unregisters it, once it holds no principal.
revoke_yield_strategy(s) ==
  /\ cfg.strategy = s => books.deployed <= 0
  /\ Configure([cfg EXCEPT !.approved = @ \ {s},
                           !.strategy = IF @ = s THEN None ELSE @])

set_yield_strategy(s) ==
  /\ s \in cfg.approved
  /\ cfg.strategy \notin {None, s} => books.deployed <= 0
  /\ Configure([cfg EXCEPT !.strategy = s])

set_reserve_ratio(bps) ==
  /\ bps <= BPS
  /\ Configure([cfg EXCEPT !.reserve_ratio = bps])

set_max_deploy_ratio(bps) ==
  /\ bps <= BPS
  /\ Configure([cfg EXCEPT !.max_deploy_ratio = bps])

\* Harvested yield sits in the float but belongs to the operator.
TotalValue == books.float + books.deployed - books.harvested

deploy_to_yield(amount) ==
  /\ Moving
  /\ NotPaused
  /\ amount > 0
  /\ cfg.strategy # None
  /\ cfg.strategy \in cfg.approved
  /\ books.float >= amount
  /\ books.float - amount >= mul_ratio(TotalValue, cfg.reserve_ratio, BPS)
  /\ books.deployed + amount <= mul_ratio(TotalValue, cfg.max_deploy_ratio, BPS)
  /\ books' = [books EXCEPT !.float = @ - amount, !.deployed = @ + amount,
                            !.owed = @ + amount, !.nonce = @ + 1]
  /\ OnlyBooksChange

\* An explicit recall, shared by withdraw_from_yield and the emergency exit.
RecallStep(principal) ==
  /\ Moving
  /\ cfg.strategy # None
  /\ \E o \in recall_principal(books, principal) :
       /\ o.res = "ok"
       /\ books' = o.books
  /\ OnlyBooksChange

withdraw_from_yield(principal) == NotPaused /\ RecallStep(principal)

\* Works while paused.
emergency_exit_yield == books.deployed > 0 /\ RecallStep(books.deployed)

\* The reported yield is booked without looking at the balance.
harvest_yield(reported, paid) ==
  /\ Moving
  /\ NotPaused
  /\ cfg.strategy # None
  /\ reported > 0
  /\ books' = [books EXCEPT !.float = @ + paid, !.harvested = @ + reported,
                            !.nonce = @ + 1]
  /\ OnlyBooksChange

\* The yield recipient is never the vault: its setter refuses it.
distribute_yield ==
  /\ Moving
  /\ NotPaused
  /\ books.harvested > 0
  /\ books.float >= books.harvested
  /\ books' = [books EXCEPT !.float = @ - books.harvested, !.harvested = 0,
                            !.nonce = @ + 1]
  /\ OnlyBooksChange

-----------------------------------------------------------------------------
(* Policy proposals behind a timelock, and the policy contracts.           *)

\* Mutant of propose_policy: a replacement keeps the old proposal's ledger.
propose_policy_backdated(p) ==
  /\ Idle
  /\ cfg' = [cfg EXCEPT !.pending_policy =
       [ policy |-> p,
         proposed_at_ledger |-> IF @ = None THEN now ELSE @.proposed_at_ledger ]]
  /\ proposed' = [policy |-> p, ledger |-> now]
  /\ UNCHANGED <<now, books, tx>>

\* A proposal overwrites the pending one and restarts the timelock.
propose_policy(p) ==
  /\ Idle
  /\ cfg' = [cfg EXCEPT !.pending_policy = [policy |-> p, proposed_at_ledger |-> now]]
  /\ proposed' = [policy |-> p, ledger |-> now]
  /\ UNCHANGED <<now, books, tx>>

execute_policy ==
  LET p == cfg.pending_policy.policy
  IN  /\ cfg.pending_policy # None
      /\ now >= cfg.pending_policy.proposed_at_ledger + POLICY_TIMELOCK
      /\ p.window > 0 \/ p.deadline > 0 => cfg.time_policy
      /\ p.vdf_delay > 0 => cfg.vdf_policy
      /\ Configure([cfg EXCEPT !.policy = p, !.pending_policy = None])

set_time_policy_contract(present) == Configure([cfg EXCEPT !.time_policy = present])

set_vdf_policy_contract(present) == Configure([cfg EXCEPT !.vdf_policy = present])

set_oracle_policy == Configure([cfg EXCEPT !.oracle_policy = TRUE])

clear_oracle_policy ==
  /\ cfg.oracle_policy
  /\ Configure([cfg EXCEPT !.oracle_policy = FALSE])

set_claim_cooldown(c) == Configure([cfg EXCEPT !.cooldown = c])

-----------------------------------------------------------------------------
(* Fees and the fee ladder.                                                *)

set_fee_bps(bps) ==
  /\ bps <= BPS
  /\ Configure([cfg EXCEPT !.fee_bps = bps])

set_fee_recipient(a) ==
  /\ a # Vault
  /\ Configure([cfg EXCEPT !.fee_recipient = a])

\* A new ladder keeps the settled volume and recomputes the rung from it.
set_tier_ladder(ladder) ==
  /\ Idle
  /\ ValidLadder(ladder)
  /\ cfg' = [cfg EXCEPT !.ladder = ladder]
  /\ books' = [books EXCEPT !.tier =
                 TierState(ladder, IF @ = None THEN 0 ELSE @.settled_volume)]
  /\ UNCHANGED <<now, tx, proposed>>

clear_tier_ladder ==
  /\ Idle
  /\ cfg' = [cfg EXCEPT !.ladder = <<>>]
  /\ books' = [books EXCEPT !.tier = None]
  /\ UNCHANGED <<now, tx, proposed>>

set_dust_config(threshold, treasury) ==
  /\ threshold > 0
  /\ treasury # Vault
  /\ Configure([cfg EXCEPT !.dust_threshold = threshold, !.dust_treasury = treasury])

-----------------------------------------------------------------------------
(* Pausing and the two-step handover of the administration.                *)

pause == Configure([cfg EXCEPT !.paused = TRUE])

unpause == Configure([cfg EXCEPT !.paused = FALSE])

transfer_admin(a) == Configure([cfg EXCEPT !.pending_admin = a])

accept_admin ==
  /\ cfg.pending_admin # None
  /\ Configure([cfg EXCEPT !.admin = cfg.pending_admin, !.pending_admin = None])

cancel_admin_transfer ==
  /\ cfg.pending_admin # None
  /\ Configure([cfg EXCEPT !.pending_admin = None])

\* A ledger closes.
Tick ==
  /\ Idle
  /\ now < MaxLedger
  /\ now' = now + 1
  /\ UNCHANGED <<cfg, books, tx, proposed>>

-----------------------------------------------------------------------------
(* The entry points in groups: an instance may exercise some of them only. *)

BatchStep == BatchClaim \/ EndBatch

ClaimStep ==
  \/ \E c \in Claims, n \in 0..MaxNonce : refund(c, n)
  \/ \E s \in Batches, n \in 0..MaxNonce : claim_batch(s, n) \/ process_batch(s, n)
  \/ BatchStep

FloatStep ==
  \/ \E a \in Deposits : deposit(a)
  \/ \E a \in Withdrawals : withdraw(a)

CouponStep ==
  \/ \E id \in CouponIds, m \in Merchants, d \in Discounts : mint_coupon(id, m, d)
  \/ \E a \in Deposits, id \in CouponIds : deposit_with_coupon(a, id)

DustStep ==
  \/ \E r \in Refs : sweep_dust(r)
  \/ \E t \in DustThresholds, a \in Others \cup {Vault} : set_dust_config(t, a)

FlashStep == \E l \in FlashLoans : flash_loan(l.amount, l.repaid)

YieldStep ==
  \/ \E s \in Strategies : \/ approve_yield_strategy(s)
                           \/ revoke_yield_strategy(s)
                           \/ set_yield_strategy(s)
  \/ \E a \in Deployments : deploy_to_yield(a)
  \/ \E a \in Recalls : withdraw_from_yield(a)
  \/ \E y \in Replies : harvest_yield(y.yield, y.paid)
  \/ emergency_exit_yield
  \/ distribute_yield

RatioStep ==
  \E r \in Ratios : set_reserve_ratio(r) \/ set_max_deploy_ratio(r)

PolicyStep ==
  \/ \E p \in Policies : propose_policy(p)
  \/ execute_policy

ContractStep ==
  \E x \in BOOLEAN : set_time_policy_contract(x) \/ set_vdf_policy_contract(x)

GateStep ==
  \/ \E x \in Cooldowns : set_claim_cooldown(x)
  \/ set_oracle_policy
  \/ clear_oracle_policy

FeeStep ==
  \/ \E x \in FeeRates : set_fee_bps(x)
  \/ \E a \in Others \cup {Vault} : set_fee_recipient(a)

LadderStep ==
  \/ \E l \in Ladders : set_tier_ladder(l)
  \/ clear_tier_ladder

AdminStep ==
  \/ pause
  \/ unpause
  \/ \E a \in Merchants : transfer_admin(a)
  \/ accept_admin
  \/ cancel_admin_transfer

TokenStep == \E t \in Tokens : set_token(t)

Next ==
  \/ Tick \/ ClaimStep \/ FloatStep \/ CouponStep \/ DustStep \/ FlashStep
  \/ YieldStep \/ RatioStep \/ PolicyStep \/ ContractStep \/ GateStep \/ FeeStep
  \/ LadderStep \/ AdminStep \/ TokenStep

Spec == Init /\ [][Next]_vars

-----------------------------------------------------------------------------
(* Properties.                                                             *)

\* Every storage entry keeps the type its readers decode, no balance the
\* vault pays from is negative, and the clock stays within its bound.
TypeOK ==
  /\ now \in 0..MaxLedger
  /\ cfg \in Config
  /\ books \in Books
  /\ books.float >= 0
  /\ tx \in Batch \cup {None}
  /\ proposed \in Proposal \cup {None}

\* What claim_single and the batches leave in storage: the cumulative refund
\* of a payment never passes the ceiling of its record, however the claims
\* of single calls and of batches in flight interleave.
RefundsWithinCeiling ==
  \A r \in Refs : books.records[r] # None =>
    /\ 0 < books.records[r].amount_refunded
    /\ books.records[r].amount_refunded <= books.records[r].payment_amount

\* resolve_ceiling: over the whole life of the vault a payment is never paid
\* more than the ceiling its first claim fixed.
FirstCeilingBinds ==
  \A r \in Refs : books.ceiling[r] # None => books.claimed[r] <= books.ceiling[r]

\* The records as other transactions see them: a batch in flight may still
\* be reverted.
CommittedRecords == IF tx = None THEN books.records ELSE tx.saved.records

Ledger == INSTANCE RefundLedger
            WITH records <- CommittedRecords, paused <- cfg.paused

\* The vault implements the refund ledger: batches commit as one step.
ImplementsLedger == Ledger!Spec

\* process_batch: a claim it reports as failed has changed no record, no fee
\* tier, no last-claim time and paid nothing out, although its error does
\* not roll anything back.
FailedItemPaysNothing ==
  [][ (tx # None /\ tx' # None /\ tx'.todo # tx.todo /\ ~tx'.results[Len(tx'.results)])
      => /\ books'.records = books.records
         /\ books'.tier = books.tier
         /\ books'.last_claim = books.last_claim
         /\ books'.float >= books.float ]_vars

\* Yield accounting: the active strategy is approved, there is one as long as
\* principal is deployed, and the books never claim less principal than the
\* strategies still owe (recall_principal cross-checks the balance).
StrategyAccounting ==
  /\ cfg.strategy # None => cfg.strategy \in cfg.approved
  /\ books.deployed > 0 => cfg.strategy # None
  /\ books.deployed >= 0 /\ books.harvested >= 0
  /\ books.deployed >= books.owed

\* set_active, revoke: while a strategy holds principal no step replaces or
\* unregisters it, a recall inside a batch that is reverted included.
StrategyPinned ==
  [][ books.deployed > 0 /\ books'.deployed > 0 => cfg'.strategy = cfg.strategy ]_vars

\* execute_policy: a policy comes into force only when it was proposed a full
\* timelock ago and nothing has been proposed since.
TimelockHonoured ==
  [][ cfg'.policy # cfg.policy =>
        /\ proposed # None
        /\ cfg'.policy = proposed.policy
        /\ now >= proposed.ledger + POLICY_TIMELOCK ]_vars

\* claim_single's cooldown reads one last-claim time kept for the whole vault,
\* not one per recipient as the comments of its setter and getter say: under a
\* cooldown a batch settles at most one of its claims, whoever they pay.
CooldownAdmitsOnePerBatch ==
  tx # None /\ cfg.cooldown > 0 =>
    Cardinality({i \in DOMAIN tx.results : tx.results[i]}) <= 1

\* on_settled promotes from a cached threshold, batch item by batch item; the
\* cached rung, rate and threshold always equal those recomputed from the
\* ladder and the settled volume.
TierMirrorsLadder ==
  books.tier # None => books.tier = TierState(cfg.ladder, books.tier.settled_volume)

\* pause: nothing leaves a paused vault and no record, nonce or coupon of it
\* is consumed; the emergency exit may still bring principal home.
PausedMovesNothing ==
  cfg.paused => /\ books'.float >= books.float
                /\ books'.records = books.records
                /\ books'.user_nonce = books.user_nonce
                /\ \A id \in CouponIds : books.coupons[id] # None =>
                     books'.coupons[id] = books.coupons[id]

\* Every step that lowers the float draws an event nonce, sweeps a record, or
\* reverts a batch: a flash loan in particular returns all it took.
OutflowsNumbered ==
  books'.float < books.float =>
    \/ books'.nonce > books.nonce
    \/ \E r \in Refs : books.records[r] # None /\ books'.records[r] = None
    \/ tx # None /\ tx' = None

\* check_and_bump_user_nonce: the claim calls of a merchant that took effect
\* carried the nonces 0, 1, 2, ... once each, whatever is retried, repeated or
\* skipped, and a batch that reverts gives its nonce back.
NoncesInOrder ==
  \A m \in Merchants : books.accepted[m] = 0..(books.user_nonce[m] - 1)

\* A coupon's terms never change and it is redeemed at most once, across
\* mints, deposits and handovers of the administration.
CouponTermsKept ==
  \A id \in CouponIds : books.coupons[id] # None =>
    /\ books'.coupons[id] # None
    /\ books'.coupons[id].owner = books.coupons[id].owner
    /\ books'.coupons[id].discount_bps = books.coupons[id].discount_bps
    /\ books.coupons[id].redeemed => books'.coupons[id].redeemed

\* What no step of the vault may do: move money or consume an entry while
\* paused, let the float fall without a numbered event, a sweep or the revert
\* of a batch, take a nonce out of order or twice, or alter a coupon minted.
MovesAreAuthorised ==
  [][PausedMovesNothing /\ OutflowsNumbered /\ NoncesInOrder' /\ CouponTermsKept]_vars
=============================================================================
