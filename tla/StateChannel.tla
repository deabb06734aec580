---------------------------- MODULE StateChannel ----------------------------
(***************************************************************************)
(* Unidirectional payment channels: a sender escrows tokens, signs states  *)
(* off chain that raise the receiver's balance, and the channel is closed, *)
(* disputed, finalized, claimed, reclaimed or closed by both.  Slices of   *)
(* the escrow can be locked in HTLC hops and hashlock payments.            *)
(*                                                                         *)
(* Every call is one transaction; one that returns an error is not enabled.*)
(* A state the sender signed can be submitted by anyone, late, out of      *)
(* order and more than once.  A preimage is known to whoever resolves.     *)
(***************************************************************************)
EXTENDS NonceWindow, Sequences

CONSTANTS
  Ids,              \* channel ids, assigned in order from 1
  None,

  \* The inputs the entry points are called with.
  Signed,           \* per channel, the states its sender ever signs
  Certificates,     \* delegations the senders sign
  Amounts, ChallengePeriods, Hops, Payments, Splices, Rewards,

  DEFAULT_CHALLENGE_PERIOD, MAX_CHALLENGE_PERIOD, MaxChannelLifetime,
  COUNTER_PROOF_EXTENSION_LEDGERS, MAX_DISPUTE_EXTENSIONS, MAX_REWARD_BPS,

  MaxLedger,        \* bound: the last ledger
  MaxOpenLedger,    \* bound: channels are opened no later than this
  MaxLocks,         \* bound: hops and payments per channel
  MaxFunding        \* bound: tokens ever paid into a channel by splices

StateUpdate == [nonce : Nat, balance : Int]

Phases == {"Open", "Closed", "Disputed", "Finalized"}

Channel ==
  [ amount : Int, nonce : Nat, balance : Int, phase : Phases, opened_at : Nat,
    closed_at : Nat, disputed_at : Nat, dispute_extensions : Nat,
    challenge_period : Nat, nonce_window : Window ]

\* parent is the upstream hop's channel and position, or None.
Htlc ==
  [ amount : Int, timeout_ledger : Nat, state : {"Pending", "Resolved", "Refunded"},
    parent : (Ids \X Nat) \cup {None} ]

HashlockPayment == [amount : Int, state : {"Pending", "Resolved"}]

Locks ==
  [ htlcs : Seq(Htlc), htlc_reserved : Int,
    payments : Seq(HashlockPayment), hashlock_reserved : Int ]

\* Whether a watchtower is recorded; who it is makes no difference.
WatchtowerBounty == [reward_bps : Nat, watchtower : BOOLEAN]

\* Tokens paid in and out on account of a channel.
Flows == [in : Int, sender : Int, receiver : Int, watchtower : Int]

Nonces == UNION {{s.nonce : s \in Signed[c]} : c \in Ids}

ASSUME ChannelAssumption ==
  /\ Ids \subseteq Nat \ {0}
  /\ None \notin Channel \cup (Ids \X Nat)
  /\ Signed \in [Ids -> SUBSET StateUpdate]
  /\ Certificates \subseteq [channel_id : Ids \cup {0}, expires_at_ledger : Nat]
  /\ Hops \subseteq [amount : Int, timeout_ledger : Nat, parent : (Ids \X Nat) \cup {None}]
  /\ Amounts \cup Payments \cup Splices \subseteq Int
  /\ ChallengePeriods \cup Rewards \subseteq Nat

BPS == 10000

ASSUME ChannelBoundAssumption ==
  /\ DEFAULT_CHALLENGE_PERIOD \in Nat /\ MAX_CHALLENGE_PERIOD \in Nat
  /\ MaxChannelLifetime \in Nat
  /\ COUNTER_PROOF_EXTENSION_LEDGERS \in Nat /\ MAX_DISPUTE_EXTENSIONS \in Nat
  /\ MAX_REWARD_BPS \in Nat /\ MAX_REWARD_BPS <= BPS
  /\ MaxLedger \in Nat /\ MaxOpenLedger \in Nat /\ MaxLocks \in Nat
  /\ MaxFunding \in Nat

VARIABLES
  now,              \* ledger sequence
  count,            \* ChannelCount
  channels,         \* Channel(id), None before opening and after a mutual close
  receiver_keys,    \* channels whose receiver has registered a key
  locks,            \* hops and hashlock payments with their reservations
  bounties,
  pool,             \* the contract's token balance
  flows,            \* history: tokens in and out per channel
  uses,             \* history: times a nonce was accepted as fresh
  filed_at          \* history: ledger of the dispute

vars == <<now, count, channels, receiver_keys, locks, bounties, pool, flows, uses, filed_at>>

NoLocks == [htlcs |-> <<>>, htlc_reserved |-> 0, payments |-> <<>>, hashlock_reserved |-> 0]

Init ==
  /\ now = 0
  /\ count = 0
  /\ channels = [c \in Ids |-> None]
  /\ receiver_keys = {}
  /\ locks = [c \in Ids |-> NoLocks]
  /\ bounties = [c \in Ids |-> [reward_bps |-> 0, watchtower |-> FALSE]]
  /\ pool = 0
  /\ flows = [c \in Ids |-> [in |-> 0, sender |-> 0, receiver |-> 0, watchtower |-> 0]]
  /\ uses = [c \in Ids |-> [n \in Nonces |-> 0]]
  /\ filed_at = [c \in Ids |-> 0]

-----------------------------------------------------------------------------
(* Helpers.                                                                *)

Phase(c) == IF channels[c] = None THEN "none" ELSE channels[c].phase

effective_challenge_period(p) ==
  IF p = 0 THEN DEFAULT_CHALLENGE_PERIOD
  ELSE IF p <= MAX_CHALLENGE_PERIOD THEN p ELSE MAX_CHALLENGE_PERIOD

Reserved(c) == locks[c].htlc_reserved + locks[c].hashlock_reserved

\* The ceiling every submitted state is checked against.
FitsEscrow(c, balance) ==
  balance >= 0 /\ balance + Reserved(c) <= channels[c].amount

\* Mutant of NotStale: a fresh nonce is enough.
FreshNonce(c, s) == ~is_consumed(channels[c].nonce_window, s.nonce)

\* The balance must not regress and the nonce must be fresh.
NotStale(c, s) ==
  /\ s.balance >= channels[c].balance
  /\ ~is_consumed(channels[c].nonce_window, s.nonce)

HighWater(n, m) == IF n >= m THEN n ELSE m

\* The channel after a state was recorded, its nonce consumed if fresh.
Recorded(c, s, balance) ==
  LET w == channels[c].nonce_window
  IN  [channels[c] EXCEPT
         !.nonce_window = IF is_consumed(w, s.nonce) THEN w ELSE consume(w, s.nonce),
         !.nonce = HighWater(@, s.nonce),
         !.balance = balance]

CountUse(c, s) ==
  uses' = IF is_consumed(channels[c].nonce_window, s.nonce) THEN uses
          ELSE [uses EXCEPT ![c][s.nonce] = @ + 1]

\* Tokens leave the contract; the token traps when the contract is short.
PayOut(c, sender, receiver, watchtower) ==
  /\ pool >= sender + receiver + watchtower
  /\ pool' = pool - (sender + receiver + watchtower)
  /\ flows' = [flows EXCEPT ![c].sender = @ + sender, ![c].receiver = @ + receiver,
                            ![c].watchtower = @ + watchtower]

PayIn(c, amount) ==
  /\ pool' = pool + amount
  /\ flows' = [flows EXCEPT ![c].in = @ + amount]

Positive(n) == IF n > 0 THEN n ELSE 0

-----------------------------------------------------------------------------
(* Opening and updating.                                                   *)

open_channel(amount, challenge_period) ==
  LET c == count + 1
  IN  /\ c \in Ids
      /\ now <= MaxOpenLedger
      /\ amount > 0
      /\ count' = c
      /\ channels' = [channels EXCEPT ![c] =
           [ amount |-> amount, nonce |-> 0, balance |-> 0, phase |-> "Open",
             opened_at |-> now, closed_at |-> 0, disputed_at |-> 0,
             dispute_extensions |-> 0,
             challenge_period |-> effective_challenge_period(challenge_period),
             nonce_window |-> empty ]]
      /\ PayIn(c, amount)
      /\ UNCHANGED <<now, receiver_keys, locks, bounties, uses, filed_at>>

update_state(c, s) ==
  /\ Phase(c) = "Open"
  /\ FitsEscrow(c, s.balance)
  /\ NotStale(c, s)
  /\ channels' = [channels EXCEPT ![c] = Recorded(c, s, s.balance)]
  /\ CountUse(c, s)
  /\ UNCHANGED <<now, count, receiver_keys, locks, bounties, pool, flows, filed_at>>

\* The master key delegates to an ephemeral key, for one channel or all (0).
Delegated(c, cert) ==
  /\ cert.channel_id \in {0, c}
  /\ now <= cert.expires_at_ledger

update_state_delegated(c, s, cert) == Delegated(c, cert) /\ update_state(c, s)

-----------------------------------------------------------------------------
(* Closing, disputing and settling.                                        *)

NotExpired(c) == now <= channels[c].opened_at + MaxChannelLifetime

\* A close may repeat a nonce and may lower the recorded balance.
RecordClose(c, s, balance) ==
  /\ channels' = [channels EXCEPT ![c] =
       [Recorded(c, s, balance) EXCEPT !.phase = "Closed", !.closed_at = now]]
  /\ CountUse(c, s)
  /\ UNCHANGED <<now, count, receiver_keys, bounties, pool, flows, filed_at>>

close_channel(c, s) ==
  /\ Phase(c) = "Open"
  /\ NotExpired(c)
  /\ FitsEscrow(c, s.balance)
  /\ RecordClose(c, s, s.balance)
  /\ UNCHANGED locks

close_channel_delegated(c, s, cert) == Delegated(c, cert) /\ close_channel(c, s)

ensure_window_open(c, started) == now <= started + channels[c].challenge_period

\* Mutant of ensure_window_elapsed: the comparison is reversed.
window_not_elapsed(c, started) == now < started + channels[c].challenge_period

ensure_window_elapsed(c, started) == now > started + channels[c].challenge_period

dispute(c, s) ==
  /\ Phase(c) = "Closed"
  /\ ensure_window_open(c, channels[c].closed_at)
  /\ FitsEscrow(c, s.balance)
  /\ NotStale(c, s)
  /\ channels' = [channels EXCEPT ![c] =
       [Recorded(c, s, s.balance) EXCEPT
          !.phase = "Disputed", !.disputed_at = now, !.dispute_extensions = 0]]
  /\ CountUse(c, s)
  /\ filed_at' = [filed_at EXCEPT ![c] = now]
  /\ UNCHANGED <<now, count, receiver_keys, locks, bounties, pool, flows>>

\* A counter-proof is late in the last ledgers of the window.
LateCounterProof(c) ==
  channels[c].disputed_at + channels[c].challenge_period - now
    < COUNTER_PROOF_EXTENSION_LEDGERS

MayExtend(c) == channels[c].dispute_extensions < MAX_DISPUTE_EXTENSIONS

extend_window_on_late_counter_proof(c, ch) ==
  IF LateCounterProof(c)
  THEN [ch EXCEPT !.disputed_at = @ + COUNTER_PROOF_EXTENSION_LEDGERS,
                  !.dispute_extensions = @ + 1]
  ELSE ch

CounterEvidence(c, s) ==
  /\ Phase(c) = "Disputed"
  /\ ensure_window_open(c, channels[c].disputed_at)
  /\ FitsEscrow(c, s.balance)
  /\ NotStale(c, s)
  /\ LateCounterProof(c) => MayExtend(c)
  /\ channels' = [channels EXCEPT ![c] =
       extend_window_on_late_counter_proof(c, Recorded(c, s, s.balance))]
  /\ CountUse(c, s)
  /\ UNCHANGED <<now, count, receiver_keys, locks, pool, flows, filed_at>>

submit_counter_evidence(c, s) == CounterEvidence(c, s) /\ UNCHANGED bounties

watchtower_counter_evidence(c, s) ==
  /\ CounterEvidence(c, s)
  /\ bounties' = [bounties EXCEPT ![c].watchtower = TRUE]

set_watchtower_bounty(c, reward_bps) ==
  /\ Phase(c) \in {"Open", "Closed", "Disputed"}
  /\ reward_bps <= MAX_REWARD_BPS
  /\ bounties' = [bounties EXCEPT ![c].reward_bps = reward_bps]
  /\ UNCHANGED <<now, count, channels, receiver_keys, locks, pool, flows, uses, filed_at>>

\* The share of the receiver's payout that a recorded watchtower earns.
Reward(c, payout) ==
  IF bounties[c].watchtower /\ payout > 0
  THEN (payout * bounties[c].reward_bps) \div BPS
  ELSE 0

\* Mutant of take_reward: the bounty is deducted and stays in the contract.
take_reward_unpaid(c, payout) ==
  [receiver |-> payout - Reward(c, payout), watchtower |-> 0]

take_reward(c, payout) ==
  [receiver |-> payout - Reward(c, payout), watchtower |-> Reward(c, payout)]

Finalize(c) == channels' = [channels EXCEPT ![c].phase = "Finalized"]

finalize_dispute(c) ==
  LET split == take_reward(c, channels[c].balance)
  IN  /\ Phase(c) = "Disputed"
      /\ ensure_window_elapsed(c, channels[c].disputed_at)
      /\ PayOut(c, Positive(channels[c].amount - channels[c].balance),
                   Positive(split.receiver), split.watchtower)
      /\ bounties' = [bounties EXCEPT ![c].watchtower = FALSE]
      /\ Finalize(c)
      /\ UNCHANGED <<now, count, receiver_keys, locks, uses, filed_at>>

\* Only the receiver is paid; the rest of the escrow stays in the contract.
claim(c) ==
  /\ Phase(c) = "Closed"
  /\ ensure_window_elapsed(c, channels[c].closed_at)
  /\ PayOut(c, 0, Positive(channels[c].balance), 0)
  /\ Finalize(c)
  /\ UNCHANGED <<now, count, receiver_keys, locks, bounties, uses, filed_at>>

\* Only the sender is paid; the receiver's balance stays in the contract.
reclaim(c) ==
  /\ Phase(c) = "Open"
  /\ ~NotExpired(c)
  /\ PayOut(c, Positive(channels[c].amount - channels[c].balance), 0, 0)
  /\ Finalize(c)
  /\ UNCHANGED <<now, count, receiver_keys, locks, bounties, uses, filed_at>>

register_receiver_key(c) ==
  /\ Phase(c) \in {"Open", "Closed", "Disputed"}
  /\ receiver_keys' = receiver_keys \cup {c}
  /\ UNCHANGED <<now, count, channels, locks, bounties, pool, flows, uses, filed_at>>

\* Both parties sign any split of the whole escrow; the record is deleted.
mutual_close(c, receiver_balance, sender_balance) ==
  /\ Phase(c) \in {"Open", "Closed", "Disputed"}
  /\ c \in receiver_keys
  /\ receiver_balance >= 0
  /\ sender_balance >= 0
  /\ receiver_balance + sender_balance = channels[c].amount
  /\ PayOut(c, sender_balance, receiver_balance, 0)
  /\ channels' = [channels EXCEPT ![c] = None]
  /\ receiver_keys' = receiver_keys \ {c}
  /\ UNCHANGED <<now, count, locks, bounties, uses, filed_at>>

-----------------------------------------------------------------------------
(* Hops of a route and hashlock payments: slices of the escrow are reserved *)
(* and, with the preimage, join the receiver's balance.                    *)

OnlyLocksChange ==
  UNCHANGED <<now, count, channels, receiver_keys, bounties, pool, flows, uses, filed_at>>

HopAt(ref) == locks[ref[1]].htlcs[ref[2]]
HopExists(ref) == ref[2] \in DOMAIN locks[ref[1]].htlcs

\* Mutant of ParentOutlives: the hop may expire together with its parent.
ParentNotShorter(hop) ==
  hop.parent # None =>
    /\ HopExists(hop.parent)
    /\ HopAt(hop.parent).state = "Pending"
    /\ hop.timeout_ledger <= HopAt(hop.parent).timeout_ledger

\* A linked hop expires strictly before its pending parent.
ParentOutlives(hop) ==
  hop.parent # None =>
    /\ HopExists(hop.parent)
    /\ HopAt(hop.parent).state = "Pending"
    /\ hop.timeout_ledger < HopAt(hop.parent).timeout_ledger

\* Hashlock reservations are not part of this ceiling.
add_htlc(c, hop) ==
  /\ Phase(c) = "Open"
  /\ Len(locks[c].htlcs) < MaxLocks
  /\ hop.amount > 0
  /\ hop.timeout_ledger > now
  /\ channels[c].balance + locks[c].htlc_reserved + hop.amount <= channels[c].amount
  /\ ParentOutlives(hop)
  /\ locks' = [locks EXCEPT
       ![c].htlcs = Append(@, [ amount |-> hop.amount, parent |-> hop.parent,
                                timeout_ledger |-> hop.timeout_ledger,
                                state |-> "Pending" ]),
       ![c].htlc_reserved = @ + hop.amount]
  /\ OnlyLocksChange

Pending(c, i) == i \in DOMAIN locks[c].htlcs /\ locks[c].htlcs[i].state = "Pending"

\* The timeout is not looked at.
resolve_htlc(c, i) ==
  LET amount == locks[c].htlcs[i].amount
  IN  /\ Pending(c, i)
      /\ Phase(c) = "Open"
      /\ locks' = [locks EXCEPT ![c].htlcs[i].state = "Resolved",
                                ![c].htlc_reserved = @ - amount]
      /\ channels' = [channels EXCEPT ![c].balance = @ + amount]
      /\ UNCHANGED <<now, count, receiver_keys, bounties, pool, flows, uses, filed_at>>

\* The phase of the channel is not looked at.
refund_htlc(c, i) ==
  /\ Pending(c, i)
  /\ now > locks[c].htlcs[i].timeout_ledger
  /\ channels[c] # None
  /\ locks' = [locks EXCEPT ![c].htlcs[i].state = "Refunded",
                            ![c].htlc_reserved = @ - locks[c].htlcs[i].amount]
  /\ OnlyLocksChange

add_hashlock_payment(c, amount) ==
  /\ Phase(c) = "Open"
  /\ Len(locks[c].payments) < MaxLocks
  /\ amount > 0
  /\ channels[c].balance + Reserved(c) + amount <= channels[c].amount
  /\ locks' = [locks EXCEPT
       ![c].payments = Append(@, [amount |-> amount, state |-> "Pending"]),
       ![c].hashlock_reserved = @ + amount]
  /\ OnlyLocksChange

\* What revealing a pending payment does to the locks.
resolve_payment(c, i) ==
  /\ i \in DOMAIN locks[c].payments
  /\ locks[c].payments[i].state = "Pending"
  /\ locks' = [locks EXCEPT ![c].payments[i].state = "Resolved",
                            ![c].hashlock_reserved = @ - locks[c].payments[i].amount]

reveal_preimage(c, i) ==
  /\ resolve_payment(c, i)
  /\ Phase(c) = "Open"
  /\ channels' = [channels EXCEPT ![c].balance = @ + locks[c].payments[i].amount]
  /\ UNCHANGED <<now, count, receiver_keys, bounties, pool, flows, uses, filed_at>>

\* Mutant of close_channel_with_preimage: the credit of the reveal and the
\* signed balance are both added to the recorded balance.
close_channel_with_preimage_twice(c, s, i) ==
  /\ Phase(c) = "Open"
  /\ NotExpired(c)
  /\ FitsEscrow(c, s.balance)
  /\ resolve_payment(c, i)
  /\ RecordClose(c, s, channels[c].balance + s.balance + locks[c].payments[i].amount)

\* The signed balance and the revealed payment; the credit that revealing
\* makes to the stored channel is overwritten.
close_channel_with_preimage(c, s, i) ==
  /\ Phase(c) = "Open"
  /\ NotExpired(c)
  /\ FitsEscrow(c, s.balance)
  /\ resolve_payment(c, i)
  /\ RecordClose(c, s, s.balance + locks[c].payments[i].amount)

-----------------------------------------------------------------------------
(* Splicing.                                                               *)

Resize(c, delta) ==
  /\ channels' = [channels EXCEPT ![c].amount = @ + delta]
  /\ UNCHANGED <<now, count, receiver_keys, locks, bounties, uses, filed_at>>

splice_in(c, amount) ==
  /\ Phase(c) = "Open"
  /\ amount > 0
  /\ flows[c].in + amount <= MaxFunding
  /\ PayIn(c, amount)
  /\ Resize(c, amount)

free_balance(c) == channels[c].amount - channels[c].balance - Reserved(c)

splice_out(c, amount) ==
  /\ Phase(c) = "Open"
  /\ amount > 0
  /\ amount <= free_balance(c)
  /\ PayOut(c, amount, 0, 0)
  /\ Resize(c, -amount)

\* A ledger closes.
Tick ==
  /\ now < MaxLedger
  /\ now' = now + 1
  /\ UNCHANGED <<count, channels, receiver_keys, locks, bounties, pool, flows, uses, filed_at>>

-----------------------------------------------------------------------------
(* The entry points in groups.                                             *)

LifeCycle(c) ==
  \/ \E s \in Signed[c] : \/ update_state(c, s)
                          \/ close_channel(c, s)
                          \/ dispute(c, s)
                          \/ submit_counter_evidence(c, s)
                          \/ watchtower_counter_evidence(c, s)
  \/ finalize_dispute(c) \/ claim(c) \/ reclaim(c)

Delegation(c) ==
  \E s \in Signed[c], cert \in Certificates :
    update_state_delegated(c, s, cert) \/ close_channel_delegated(c, s, cert)

BountyStep(c) == \E r \in Rewards : set_watchtower_bounty(c, r)

MutualStep(c) ==
  \/ register_receiver_key(c)
  \/ /\ Phase(c) # "none"
     /\ \E r \in 0..channels[c].amount : mutual_close(c, r, channels[c].amount - r)

HtlcStep(c) ==
  \/ \E hop \in Hops : add_htlc(c, hop)
  \/ \E i \in 1..MaxLocks : resolve_htlc(c, i) \/ refund_htlc(c, i)

HashlockStep(c) ==
  \/ \E a \in Payments : add_hashlock_payment(c, a)
  \/ \E i \in 1..MaxLocks : reveal_preimage(c, i)
  \/ \E i \in 1..MaxLocks, s \in Signed[c] : close_channel_with_preimage(c, s, i)

SpliceStep(c) == \E a \in Splices : splice_in(c, a) \/ splice_out(c, a)

OpenStep == \E a \in Amounts, p \in ChallengePeriods : open_channel(a, p)

ChannelStep(c) ==
  \/ LifeCycle(c) \/ Delegation(c) \/ BountyStep(c) \/ MutualStep(c)
  \/ HtlcStep(c) \/ HashlockStep(c) \/ SpliceStep(c)

Next == Tick \/ OpenStep \/ \E c \in Ids : ChannelStep(c)

Spec == Init /\ [][Next]_vars

\* Adding a hop disregards pending hashlock payments.  The escrow is covered
\* by behaviours that add no hop to a channel while it has one.
Exclusive ==
  \A c \in Ids : locks'[c].htlc_reserved > locks[c].htlc_reserved
                 => locks[c].hashlock_reserved = 0

ExclusiveSpec == Init /\ [][Next /\ Exclusive]_vars

-----------------------------------------------------------------------------
(* Properties.                                                             *)

\* Every record keeps the type its readers decode and the contract's token
\* balance is never negative.
TypeOK ==
  /\ now \in 0..MaxLedger
  /\ count \in Nat
  /\ channels \in [Ids -> Channel \cup {None}]
  /\ receiver_keys \subseteq Ids
  /\ locks \in [Ids -> Locks]
  /\ bounties \in [Ids -> WatchtowerBounty]
  /\ pool \in Nat
  /\ flows \in [Ids -> Flows]
  /\ uses \in [Ids -> [Nonces -> Nat]]
  /\ filed_at \in [Ids -> Nat]

\* Every ceiling check together, updates, closes, disputes, hops, payments
\* and splices in any Exclusive order: the receiver's balance and all pending
\* reservations fit in the escrow of a channel that is not settled.
EscrowCovers ==
  \A c \in Ids : Phase(c) \in {"Open", "Closed", "Disputed"} =>
    /\ 0 <= channels[c].balance
    /\ channels[c].balance + Reserved(c) <= channels[c].amount

PaidOut(f) == f.sender + f.receiver + f.watchtower

\* The contract keeps the escrow of a channel that is not settled, and over
\* its whole life no channel pays out more than was paid in for it.
EscrowBacked ==
  \A c \in Ids :
    /\ PaidOut(flows[c]) <= flows[c].in
    /\ Phase(c) \in {"Open", "Closed", "Disputed"} =>
         flows[c].in - PaidOut(flows[c]) = channels[c].amount

\* finalize_dispute ("nothing is minted or withheld") and mutual_close: when
\* they end a channel, everything ever paid in has been paid out, and a
\* watchtower's bounty is not taken from the sender.
SettlesInFull ==
  [][ \A c \in Ids :
        \/ Phase(c) = "Disputed" /\ Phase(c)' = "Finalized"
        \/ Phase(c) # "none" /\ Phase(c)' = "none"
        => /\ PaidOut(flows'[c]) = flows'[c].in
           /\ Phase(c)' = "Finalized" =>
                flows'[c].sender - flows[c].sender
                  = channels[c].amount - channels[c].balance ]_vars

\* update_state, dispute and counter-evidence: submitted states arrive in any
\* order, yet the receiver's balance falls only in a close of an open channel.
BalanceNeverRegresses ==
  [][ \A c \in Ids : Phase(c) # "none" /\ Phase(c)' # "none" =>
        \/ channels'[c].balance >= channels[c].balance
        \/ Phase(c) = "Open" /\ Phase(c)' = "Closed" ]_vars

\* NonceWindow: a nonce is accepted as fresh once in the life of a channel,
\* however far the window has slid since.
NonceAcceptedOnce == \A c \in Ids, n \in Nonces : uses[c][n] <= 1

\* extend_window_on_late_counter_proof: counter-evidence cannot stretch a
\* dispute beyond the capped extensions of the window it was filed in.
DisputeBounded ==
  \A c \in Ids : Phase(c) = "Disputed" =>
    channels[c].disputed_at
      <= filed_at[c] + MAX_DISPUTE_EXTENSIONS * COUNTER_PROOF_EXTENSION_LEDGERS

\* r is the total of the pending amounts of s: t is the running total.
PendingTotal(s, r) ==
  \E t \in [0..Len(s) -> 0..r] :
    /\ t[0] = 0
    /\ t[Len(s)] = r
    /\ \A i \in 1..Len(s) :
         t[i] = t[i - 1] + (IF s[i].state = "Pending" THEN s[i].amount ELSE 0)

\* The stored reservations that the ceilings use are the totals of the pending
\* hops and payments, through adding, resolving, refunding and closing.
ReservationsExact ==
  \A c \in Ids : /\ PendingTotal(locks[c].htlcs, locks[c].htlc_reserved)
                 /\ PendingTotal(locks[c].payments, locks[c].hashlock_reserved)

\* The ordering of a route's timeouts: when a hop is resolved in time, its
\* parent has not been refunded and cannot be before another ledger closes.
UpstreamOutlivesDownstream ==
  [][ \A c \in Ids : \A i \in DOMAIN locks[c].htlcs :
        LET hop == locks[c].htlcs[i]
        IN  (/\ hop.state = "Pending" /\ locks'[c].htlcs[i].state = "Resolved"
             /\ now <= hop.timeout_ledger /\ hop.parent # None)
            => /\ HopAt(hop.parent).state # "Refunded"
               /\ now < HopAt(hop.parent).timeout_ledger ]_vars

\* Anyone may finalize, claim and reclaim, so someone does when the call is
\* possible for good; ledgers keep closing.
Fairness ==
  /\ WF_vars(Tick)
  /\ \A c \in Ids : /\ WF_vars(finalize_dispute(c))
                    /\ WF_vars(claim(c))
                    /\ WF_vars(reclaim(c))

\* A channel, whatever its parties submit or fail to submit, is eventually
\* settled or closed by both.
EveryChannelEnds ==
  \A c \in Ids : Phase(c) = "Open" ~> Phase(c) \in {"Finalized", "none"}
=============================================================================
