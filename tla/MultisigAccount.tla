-------------------------- MODULE MultisigAccount --------------------------
(***************************************************************************)
(* The weighted multisig account (multisig-account): registered signers,   *)
(* their weights and the threshold; rotation; the guardian's pause; daily  *)
(* limits for spending below the threshold; and the queue of delayed       *)
(* transactions with approvals that expire.                                *)
(*                                                                         *)
(* The account keeps three views of who may sign: the Signer markers       *)
(* (account.signer), the weights (account.weight, absent means the default *)
(* weight) and the enumerable list (account.list).  The tally of an        *)
(* authorization reads markers and weights, the checks that keep the       *)
(* threshold reachable read the list.                                      *)
(*                                                                         *)
(* The functions of the queue are a library: no entry point of this crate  *)
(* calls them, so a caller may keep what they wrote before they returned   *)
(* an error (the approvals pruned by a refused execution or approval).     *)
(*                                                                         *)
(* Nobody signs for the zero address.  Rotation refuses it, but the        *)
(* constructor and add_signer register it like any other signer.           *)
(***************************************************************************)
EXTENDS LedgerClock, SequencesExt

CONSTANTS
  Self,                   \* the account's own address
  ZeroAddress,
  Addresses,              \* possible signers, ZeroAddress among them
  Tokens,
  Setups,                 \* arguments of __constructor: [signers, threshold]
  Weights,                \* weights passed to add_signer and set_signer_weight
  Rotations,              \* [add, remove, threshold]
  Limits,                 \* limits passed to set_daily_limit
  Spends,                 \* sequences of [token, amount]: transfers of one authorization
  Delays, Required,       \* arguments of queue_transaction
  MAX_U32,
  WINDOW_SECONDS,
  APPROVAL_TTL_SECONDS,
  MaxQueue,               \* bound on the transactions queued
  MaxOutflow              \* bound on the spends made

VARIABLES
  account,
  queue,                  \* [1 .. MaxQueue -> QueuedTransaction or None]
  queue_count,
  approval,               \* [1 .. MaxQueue -> [Addresses -> created_at or None]]
  outflow                 \* history: the authorized spends, in order

msVars == <<account, queue, queue_count, approval, outflow>>

DEFAULT_SIGNER_WEIGHT == 1

ALLOWED_WHILE_PAUSED == {"pause", "unpause", "set_guardian", "rotate_signers_and_threshold"}

QueueIds == 1 .. MaxQueue

\* Those who can sign.
Signers == Addresses \ {ZeroAddress}

-----------------------------------------------------------------------------
(* Weights. *)

saturated(n) == Min({MAX_U32, n})

signer_weight(a, s) == IF a.weight[s] = None THEN DEFAULT_SIGNER_WEIGHT ELSE a.weight[s]

total_weight(a) ==
  saturated(MapThenSumSet(LAMBDA i : signer_weight(a, a.list[i]), DOMAIN a.list))

\* An unknown delegate refuses the whole authorization.
tally_weight(a, delegates) ==
  IF delegates \subseteq a.signer
  THEN saturated(MapThenSumSet(LAMBDA s : signer_weight(a, s), delegates))
  ELSE None

\* None is the overflow or underflow of the code's checked arithmetic.
projected_total(total, previous, weight) ==
  IF total < previous \/ total - previous + weight > MAX_U32
  THEN None
  ELSE total - previous + weight

\* The account is deployed: repeated signers count once, threshold 0 asks for
\* all of them.
Deployed(setup) ==
  LET unique == ToSet(setup.signers)
      fresh ==
        [threshold |-> IF setup.threshold = 0 THEN Cardinality(unique) ELSE setup.threshold,
         signer |-> unique,
         weight |-> [s \in Addresses |-> IF s \in unique THEN DEFAULT_SIGNER_WEIGHT ELSE None],
         list |-> SetToSeq(unique),
         paused |-> FALSE,
         guardian |-> None,
         limit |-> [t \in Tokens |-> 0],
         spending |-> [s \in Addresses |-> [t \in Tokens |-> None]]]
  IN IF fresh.threshold = 0 \/ fresh.threshold > total_weight(fresh) THEN None ELSE fresh

MsInit ==
  /\ \E setup \in Setups : account = Deployed(setup) /\ account # None
  /\ queue = [q \in QueueIds |-> None]
  /\ queue_count = 0
  /\ approval = [q \in QueueIds |-> [s \in Addresses |-> None]]
  /\ outflow = <<>>

-----------------------------------------------------------------------------
(* Daily limits. *)

window_start == now - (now % WINDOW_SECONDS)

spent_today(s, t) ==
  LET r == account.spending[s][t]
  IN IF r # None /\ r.window_start = window_start THEN r.spent ELSE 0

TokensOf(spend) == {spend[i].token : i \in DOMAIN spend}
TotalOf(spend, t) ==
  MapThenSumSet(LAMBDA i : IF spend[i].token = t THEN spend[i].amount ELSE 0, DOMAIN spend)

\* The whole amount of a token is charged to each of the delegates.
ChargedSpending(delegates, spend) ==
  [s \in Addresses |-> [t \in Tokens |->
     IF s \in delegates /\ t \in TokensOf(spend)
     THEN [window_start |-> window_start, spent |-> spent_today(s, t) + TotalOf(spend, t)]
     ELSE account.spending[s][t]]]

\* Mutant of WithinLimits: the transfers of one authorization are not added up.
WithinLimits_each(delegates, spend) ==
  \A i \in DOMAIN spend :
    /\ account.limit[spend[i].token] # 0
    /\ \A s \in delegates :
         spent_today(s, spend[i].token) + spend[i].amount <= account.limit[spend[i].token]

WithinLimits(delegates, spend) ==
  \A t \in TokensOf(spend) :
    /\ account.limit[t] # 0
    /\ \A s \in delegates : spent_today(s, t) + TotalOf(spend, t) <= account.limit[t]

authorize_within_limits(delegates, spend) ==
  /\ delegates # {} /\ spend # <<>>
  /\ WithinLimits(delegates, spend)
  /\ account' = [account EXCEPT !.spending = ChargedSpending(delegates, spend)]

-----------------------------------------------------------------------------
(* Authorization of the account: __check_auth.                             *)

QuorumOf(delegates) ==
  LET w == tally_weight(account, delegates) IN w # None /\ w >= account.threshold

\* A call of the account's own entry point.
SelfAuthorized(name) ==
  /\ account.paused => name \in ALLOWED_WHILE_PAUSED
  /\ \E delegates \in SUBSET Signers : QuorumOf(delegates)

\* Of a spend with a quorum the history keeps only that it happened.
RecordOutflow(delegates, spend, quorum) ==
  /\ Len(outflow) < MaxOutflow
  /\ outflow' = Append(outflow,
       IF quorum THEN [by |-> {}, day |-> window_start, spend |-> <<>>, limit |-> account.limit]
       ELSE [by |-> delegates, day |-> window_start, spend |-> spend, limit |-> account.limit])

\* Transfers of the account's tokens authorized by the attached delegates: any
\* amount with a quorum, within the daily limits below it.
transfer(delegates, spend) ==
  /\ ~account.paused
  /\ tally_weight(account, delegates) # None
  /\ IF QuorumOf(delegates)
     THEN UNCHANGED account
     ELSE authorize_within_limits(delegates, spend)
  /\ RecordOutflow(delegates, spend, QuorumOf(delegates))
  /\ UNCHANGED <<queue, queue_count, approval>>

\* The calls of a batch are authorized by the account being their caller, so
\* the batch itself needs the quorum.
execute_batch(spend) ==
  /\ SelfAuthorized("execute_batch")
  /\ RecordOutflow({}, spend, TRUE)
  /\ UNCHANGED <<account, queue, queue_count, approval>>

-----------------------------------------------------------------------------
(* Signers, weights and limits. *)

OnlyAccount == UNCHANGED <<queue, queue_count, approval, outflow>>

set_signer_weight(s, weight) ==
  LET next_total == projected_total(total_weight(account), signer_weight(account, s), weight)
  IN /\ SelfAuthorized("set_signer_weight")
     /\ weight # 0
     /\ s \in account.signer
     /\ next_total # None
     /\ next_total >= account.threshold
     /\ account' = [account EXCEPT !.weight[s] = weight]
     /\ OnlyAccount

add_signer(s, weight) ==
  /\ SelfAuthorized("add_signer")
  /\ weight # 0
  /\ s \notin account.signer
  /\ account' = [account EXCEPT !.signer = @ \union {s}, !.weight[s] = weight,
                                !.list = Append(@, s)]
  /\ OnlyAccount

remove_signer(s) ==
  LET total == total_weight(account)
      removed == signer_weight(account, s)
  IN /\ SelfAuthorized("remove_signer")
     /\ s \in account.signer
     /\ total >= removed
     /\ total - removed >= account.threshold
     /\ account' = [account EXCEPT !.signer = @ \ {s}, !.weight[s] = None,
                                   !.list = Remove(@, s)]
     /\ OnlyAccount

\* Everything is checked before anything is written.
rotate_signers_and_threshold(r) ==
  LET added == ToSet(r.add)
      removed == ToSet(r.remove)
      remaining == SelectSeq(account.list, LAMBDA s : s \notin removed)
      outgoing == MapThenSumSet(LAMBDA s : signer_weight(account, s), removed)
      kept == total_weight(account) - outgoing
  IN /\ SelfAuthorized("rotate_signers_and_threshold")
     /\ r.threshold >= 1
     /\ IsInjective(r.add)
     /\ added \intersect removed = {}
     /\ ZeroAddress \notin added \union removed
     /\ removed \subseteq ToSet(account.list) /\ IsInjective(r.remove)
     /\ kept >= 0
     /\ added \intersect ToSet(remaining) = {}
     /\ kept + Len(r.add) * DEFAULT_SIGNER_WEIGHT <= MAX_U32
     /\ kept + Len(r.add) * DEFAULT_SIGNER_WEIGHT >= r.threshold
     /\ account' = [account EXCEPT
          !.signer = (@ \ removed) \union added,
          !.weight = [s \in Addresses |->
             IF s \in added THEN DEFAULT_SIGNER_WEIGHT ELSE IF s \in removed THEN None ELSE @[s]],
          !.list = remaining \o r.add,
          !.threshold = r.threshold]
     /\ OnlyAccount

set_daily_limit(t, limit) ==
  /\ SelfAuthorized("set_daily_limit")
  /\ limit >= 0
  /\ account' = [account EXCEPT !.limit[t] = limit]
  /\ OnlyAccount

-----------------------------------------------------------------------------
(* The pause. *)

require_pause_authority(caller, name) ==
  \/ caller = Self /\ SelfAuthorized(name)
  \/ account.guardian # None /\ caller = account.guardian

set_guardian(g) ==
  /\ SelfAuthorized("set_guardian")
  /\ account' = [account EXCEPT !.guardian = g]
  /\ OnlyAccount

ms_pause(caller) ==
  /\ require_pause_authority(caller, "pause")
  /\ ~account.paused
  /\ account' = [account EXCEPT !.paused = TRUE]
  /\ OnlyAccount

ms_unpause(caller) ==
  /\ require_pause_authority(caller, "unpause")
  /\ account' = [account EXCEPT !.paused = FALSE]
  /\ OnlyAccount

-----------------------------------------------------------------------------
(* The queue. *)

\* Mutant of is_stale: an approval is still fresh at its time to live.
is_stale_late(created_at) == now - created_at > APPROVAL_TTL_SECONDS

is_stale(created_at) == now - created_at >= APPROVAL_TTL_SECONDS

\* The approvals that prune_stale_approvals keeps.
FreshApprovers(q) ==
  SelectSeq(queue[q].approvers,
            LAMBDA s : approval[q][s] # None /\ ~is_stale(approval[q][s]))

PrunedEntry(q) ==
  [queue[q] EXCEPT !.approvers = FreshApprovers(q), !.approval_count = Len(FreshApprovers(q))]

prune_stale_approvals(q) ==
  [s \in Addresses |->
     IF Contains(queue[q].approvers, s) /\ ~Contains(FreshApprovers(q), s)
     THEN None ELSE approval[q][s]]

queue_transaction(delay, required, guardian) ==
  /\ queue_count < MaxQueue
  /\ queue_count' = queue_count + 1
  /\ queue' = [queue EXCEPT ![queue_count + 1] =
        [execution_ledger |-> now + delay, approval_count |-> 0,
         required_approvals |-> required, guardian |-> guardian, approvers |-> <<>>]]
  /\ UNCHANGED <<account, approval, outflow>>

\* Stores the entry without its stale approvals.
StorePruned(q) ==
  /\ PrunedEntry(q) # queue[q]
  /\ approval' = [approval EXCEPT ![q] = prune_stale_approvals(q)]
  /\ queue' = [queue EXCEPT ![q] = PrunedEntry(q)]
  /\ UNCHANGED <<account, queue_count, outflow>>

\* The caller vouches for the signer: registration is not looked at here.
approve_queued_transaction(q, s) ==
  /\ queue[q] # None
  /\ ~Contains(FreshApprovers(q), s)
  /\ approval' = [approval EXCEPT ![q] = [prune_stale_approvals(q) EXCEPT ![s] = now]]
  /\ queue' = [queue EXCEPT ![q] =
        [@ EXCEPT !.approvers = Append(FreshApprovers(q), s),
                  !.approval_count = Len(FreshApprovers(q)) + 1]]
  /\ UNCHANGED <<account, queue_count, outflow>>

\* The signer has a fresh approval already: the stale ones of the others are gone
\* all the same.
approve_refused_voted(q, s) ==
  /\ queue[q] # None
  /\ Contains(FreshApprovers(q), s)
  /\ StorePruned(q)

\* The approvals of the approvers are removed with the entry.
clear_approvals(q, approvers) ==
  [s \in Addresses |-> IF Contains(approvers, s) THEN None ELSE approval[q][s]]

execute_queued_transaction(q) ==
  /\ ~account.paused
  /\ queue[q] # None
  /\ now >= queue[q].execution_ledger
  /\ PrunedEntry(q).approval_count >= queue[q].required_approvals
  /\ approval' = [approval EXCEPT ![q] = clear_approvals(q, queue[q].approvers)]
  /\ queue' = [queue EXCEPT ![q] = None]
  /\ UNCHANGED <<account, queue_count, outflow>>

\* Stale approvals left too few: the pruned entry is stored all the same.
execute_refused_stale(q) ==
  /\ ~account.paused
  /\ queue[q] # None
  /\ now >= queue[q].execution_ledger
  /\ PrunedEntry(q).approval_count < queue[q].required_approvals
  /\ StorePruned(q)

cancel_queued_transaction(q, caller) ==
  /\ queue[q] # None
  /\ now < queue[q].execution_ledger
  /\ caller = queue[q].guardian \/ caller \in account.signer
  /\ approval' = [approval EXCEPT ![q] = clear_approvals(q, queue[q].approvers)]
  /\ queue' = [queue EXCEPT ![q] = None]
  /\ UNCHANGED <<account, queue_count, outflow>>

-----------------------------------------------------------------------------
MsSignerStep ==
  \/ \E s \in Addresses, w \in Weights : set_signer_weight(s, w) \/ add_signer(s, w)
  \/ \E s \in Addresses : remove_signer(s)
  \/ \E r \in Rotations : rotate_signers_and_threshold(r)

MsSpendStep ==
  \/ \E t \in Tokens, limit \in Limits : set_daily_limit(t, limit)
  \/ \E delegates \in SUBSET Signers, spend \in Spends : transfer(delegates, spend)
  \/ \E spend \in Spends : execute_batch(spend)

MsPauseStep ==
  \/ \E g \in Addresses \union {None} : set_guardian(g)
  \/ \E caller \in Signers \union {Self} : ms_pause(caller) \/ ms_unpause(caller)

MsQueueStep ==
  \/ \E delay \in Delays, n \in Required, g \in Signers : queue_transaction(delay, n, g)
  \/ \E q \in QueueIds :
       \/ \E s \in Addresses :
            \/ approve_queued_transaction(q, s) \/ approve_refused_voted(q, s)
            \/ cancel_queued_transaction(q, s)
       \/ execute_queued_transaction(q) \/ execute_refused_stale(q)

MsNext == MsSignerStep \/ MsSpendStep \/ MsPauseStep \/ MsQueueStep

MsSpec ==
  MsInit /\ ClockInit /\
  [][(MsNext /\ UNCHANGED now) \/ (NextLedger /\ UNCHANGED msVars)]_<<msVars, now>>

-----------------------------------------------------------------------------
(* Properties. *)

\* The stored values have their types.
MsTypeOK ==
  /\ account.threshold \in 1 .. MAX_U32
  /\ account.signer \subseteq Addresses
  /\ account.weight \in [Addresses -> 1 .. MAX_U32 \union {None}]
  /\ account.list \in Seq(Addresses)
  /\ account.paused \in BOOLEAN
  /\ account.guardian \in Addresses \union {None}
  /\ account.limit \in [Tokens -> Nat]
  /\ queue_count \in 0 .. MaxQueue
  /\ approval \in [QueueIds -> [Addresses -> Nat \union {None}]]

\* The registered signers reach the threshold together: the markers and weights
\* that an authorization tallies are enough, although set_signer_weight,
\* remove_signer and rotate_signers_and_threshold checked a saturating total of
\* the list.  Weight of the zero address counts here as it does in the code, so
\* this is not to say that those who can sign reach it.
QuorumReachable ==
  /\ tally_weight(account, account.signer) >= account.threshold
  /\ ToSet(account.list) = account.signer /\ IsInjective(account.list)

\* Whenever a spend below the threshold is authorized, what each of its
\* delegates has signed for on that day below the threshold, this spend
\* included, is within the token's limit at that moment: over several
\* transfers of one authorization, several authorizations, and removal and
\* return of the signer.
DailyLimitHolds ==
  \A i \in DOMAIN outflow : \A s \in outflow[i].by, t \in TokensOf(outflow[i].spend) :
    MapThenSumSet(LAMBDA j : TotalOf(outflow[j].spend, t),
                  {j \in 1 .. i : s \in outflow[j].by /\ outflow[j].day = outflow[i].day})
      <= outflow[i].limit[t]

\* A queued transaction leaves the queue after its delay only on enough
\* approvals of distinct signers, none of them older than the time to live,
\* and not while the account is paused (execute_queued_transaction); before
\* its delay only by cancellation.
ExecutesOnFreshApprovals ==
  \A q \in QueueIds : queue[q] # None /\ queue'[q] = None /\ now >= queue[q].execution_ledger =>
    /\ ~account.paused
    /\ Cardinality({s \in Addresses : /\ approval[q][s] # None
                                      /\ now < approval[q][s] + APPROVAL_TTL_SECONDS})
         >= queue[q].required_approvals

\* The approval records of a transaction are exactly those of its listed
\* approvers, whose number is the stored count, and none outlives its
\* transaction: an approval left behind would count for nobody's vote.
ApprovalsFollowQueue ==
  \A q \in QueueIds :
    LET recorded == {s \in Addresses : approval[q][s] # None}
    IN IF queue[q] = None
       THEN recorded = {}
       ELSE /\ recorded = ToSet(queue[q].approvers)
            /\ Cardinality(recorded) = queue[q].approval_count

\* While the account is paused nothing is spent, and nothing of its configuration
\* changes but the pause and the guardian, except in a rotation of the signers and
\* the threshold (is_allowed_while_paused).
PausedOnlyRecovers ==
  account.paused =>
    /\ UNCHANGED outflow
    /\ \/ account' = [account EXCEPT !.paused = account'.paused,
                                     !.guardian = account'.guardian]
       \/ \E r \in Rotations : rotate_signers_and_threshold(r)

\* The registered weight reaches the threshold, and the queue and the daily limits
\* say what was approved and what was spent, whatever happens to the signers.
MultisigSound == MsTypeOK /\ QuorumReachable /\ DailyLimitHolds /\ ApprovalsFollowQueue

\* What no step may do: run a queued transaction on stale or missing approvals,
\* or spend, or reconfigure other than by a rotation, while paused.
AccountGuarded == [][ExecutesOnFreshApprovals /\ PausedOnlyRecovers]_msVars
=============================================================================
