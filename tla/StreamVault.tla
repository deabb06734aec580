---------------------------- MODULE StreamVault ----------------------------
(***************************************************************************)
(* contracts/stream-vault: a buyer's deposit streams to the merchant ledger *)
(* by ledger; the buyer may pause, resume and cancel, anyone may claim for *)
(* the merchant.  Addresses are left out: a stream's buyer is the one that *)
(* authorises its pause, resume and cancel.  i128 overflow is out of reach. *)
(***************************************************************************)
EXTENDS LedgerClock, Functions

CONSTANTS Terms,          \* arguments of create_stream: from, length, rate, deposit
          MaxStreams

StreamIds == 0..(MaxStreams - 1)

Stream ==
  [ start_ledger : Nat, stop_ledger : Nat, rate_per_ledger : Nat, deposit : Nat,
    claimed : Nat, paused_at : Nat \union {None} ]

ASSUME StreamAssumption ==
  /\ Terms \subseteq [from : Nat, length : Int, rate : Int, deposit : Int]
  /\ MaxStreams \in Nat
  /\ None \notin Stream \union Nat

VARIABLES
  stream,        \* Stream (None: never created or removed)
  stream_count,  \* StreamCount
  escrow,        \* the contract's balance
  ran            \* ghost: start asked for, and ledgers each stream ran unpaused since

streamVars == <<stream, stream_count, escrow, ran>>

Smaller(a, b) == IF a <= b THEN a ELSE b
Larger(a, b) == IF a >= b THEN a ELSE b

StrInit ==
  /\ stream = [i \in StreamIds |-> None]
  /\ stream_count = 0
  /\ escrow = 0
  /\ ran = [i \in StreamIds |-> None]

streamed_amount(s) ==
  LET clock == Smaller(IF s.paused_at # None THEN s.paused_at ELSE now, s.stop_ledger)
      elapsed == Larger(clock - s.start_ledger, 0)
  IN  Smaller(elapsed * s.rate_per_ledger, s.deposit)

create_stream(t) ==
  /\ stream_count < MaxStreams                          \* bound
  /\ t.deposit > 0 /\ t.rate > 0
  /\ t.from >= now /\ t.length > 0
  /\ t.length * t.rate >= t.deposit
  /\ stream_count' = stream_count + 1
  /\ stream' = [stream EXCEPT ![stream_count] =
       [start_ledger |-> t.from, stop_ledger |-> t.from + t.length,
        rate_per_ledger |-> t.rate, deposit |-> t.deposit, claimed |-> 0, paused_at |-> None]]
  /\ escrow' = escrow + t.deposit
  /\ ran' = [ran EXCEPT ![stream_count] = [since |-> t.from, ledgers |-> 0]]

claim_stream(i) ==
  LET amount == streamed_amount(stream[i]) - stream[i].claimed
  IN  /\ stream[i] # None
      /\ amount > 0
      /\ escrow >= amount                               \* the token's transfer
      /\ stream' = [stream EXCEPT ![i] =
           IF stream[i].claimed + amount = stream[i].deposit THEN None
           ELSE [stream[i] EXCEPT !.claimed = @ + amount]]
      /\ escrow' = escrow - amount
      /\ UNCHANGED <<stream_count, ran>>

pause_stream(i) ==
  /\ stream[i] # None
  /\ stream[i].paused_at = None
  /\ now < stream[i].stop_ledger
  /\ stream' = [stream EXCEPT ![i].paused_at = now]
  /\ UNCHANGED <<stream_count, escrow, ran>>

\* Mutant of resume_stream: a pause lodged before the start counts from the pause.
resume_stream_plain_shift(i) ==
  LET shift == now - stream[i].paused_at
  IN  /\ stream[i] # None
      /\ stream[i].paused_at # None
      /\ stream' = [stream EXCEPT ![i].start_ledger = @ + shift,
                                  ![i].stop_ledger = @ + shift,
                                  ![i].paused_at = None]
      /\ UNCHANGED <<stream_count, escrow, ran>>

resume_stream(i) ==
  LET start == stream[i].start_ledger
      shift == Larger(now, start) - Larger(stream[i].paused_at, start)
  IN  /\ stream[i] # None
      /\ stream[i].paused_at # None
      /\ stream' = [stream EXCEPT ![i].start_ledger = @ + shift,
                                  ![i].stop_ledger = @ + shift,
                                  ![i].paused_at = None]
      /\ UNCHANGED <<stream_count, escrow, ran>>

\* Pays the merchant what streamed and returns the rest to the buyer.
cancel_stream(i) ==
  LET streamed == streamed_amount(stream[i])
      merchant_amount == streamed - stream[i].claimed
      buyer_amount == stream[i].deposit - streamed
  IN  /\ stream[i] # None
      /\ escrow >= merchant_amount + buyer_amount       \* the token's transfers
      /\ stream' = [stream EXCEPT ![i] = None]
      /\ escrow' = escrow - merchant_amount - buyer_amount
      /\ UNCHANGED <<stream_count, ran>>

StreamStep ==
  \/ \E t \in Terms : create_stream(t)
  \/ \E i \in StreamIds : \/ claim_stream(i) \/ pause_stream(i)
                          \/ resume_stream(i) \/ cancel_stream(i)

\* A ledger closes; the ghost counts it for the streams that ran through it.
StreamTick ==
  /\ NextLedger
  /\ ran' = [i \in StreamIds |->
       IF stream[i] # None /\ stream[i].paused_at = None /\ now >= ran[i].since
       THEN [ran[i] EXCEPT !.ledgers = @ + 1] ELSE ran[i]]
  /\ UNCHANGED <<stream, stream_count, escrow>>

StreamNext == (StreamStep /\ UNCHANGED now) \/ StreamTick

StreamSpec == ClockInit /\ StrInit /\ [][StreamNext]_<<streamVars, now>>

---------------------------------------------------------------------------
(* Properties                                                              *)

Open == {i \in StreamIds : stream[i] # None}

\* An open stream has been claimed below its deposit and never ahead of what has
\* streamed, and its stop stays after its start through every shift.
StrTypeOK ==
  /\ stream_count \in 0..MaxStreams
  /\ \A i \in StreamIds : i >= stream_count => stream[i] = None
  /\ \A i \in Open :
       /\ stream[i].claimed \in 0..(stream[i].deposit - 1)
       /\ stream[i].claimed <= streamed_amount(stream[i])
       /\ stream[i].start_ledger < stream[i].stop_ledger

\* "this contract's balance is exactly the unclaimed principal of its open
\* streams", whatever claims, pauses, cancellations and closings went before.
EscrowIsUnclaimedPrincipal ==
  escrow = SumFunction([i \in Open |-> stream[i].deposit - stream[i].claimed])

\* resume_stream: "the buyer is never charged for paused ledgers", and the
\* merchant loses none of the others: what has streamed is the rate times the
\* ledgers the stream ran since the start that was asked for, however often and
\* whenever it was paused, also before that start.
ChargedForLedgersRun ==
  \A i \in Open : streamed_amount(stream[i]) =
    Smaller(stream[i].deposit, stream[i].rate_per_ledger * ran[i].ledgers)

\* "Once the stop ledger is reached the claim pays out the full deposit": at the
\* shifted stop of a running stream nothing of the deposit is left unstreamed.
PaidOutAtStop ==
  \A i \in Open : (stream[i].paused_at = None /\ now >= stream[i].stop_ledger) =>
    streamed_amount(stream[i]) = stream[i].deposit

\* A stream's deposit is charged by the ledger, held until charged, and all
\* charged at its stop.
StreamsSound ==
  StrTypeOK /\ EscrowIsUnclaimedPrincipal /\ ChargedForLedgersRun /\ PaidOutAtStop
=============================================================================
