--------------------------- MODULE MCStateChannel ---------------------------
(***************************************************************************)
(* Instances of the state channel for TLC.  Each takes the groups of entry *)
(* points whose interplay it asks about.                                   *)
(***************************************************************************)
EXTENDS StateChannel

\* The group of entry points a behaviour exercises, chosen at the start.
VARIABLE focus

State(n, b) == [nonce |-> n, balance |-> b]
Hop(a, t, p) == [amount |-> a, timeout_ledger |-> t, parent |-> p]

\* States out of order, across a slide of the window, over the escrow, and
\* one whose fresh nonce carries a smaller balance.
DisputeSigned ==
  [c \in Ids |-> {State(1, 1), State(2, 0), State(3, 2), State(4, 3),
               State(5, 3), State(9, 4)}]
DisputeCertificates ==
  {[channel_id |-> 0, expires_at_ledger |-> 0], [channel_id |-> 1, expires_at_ledger |-> 2]}
DisputeInit == Init /\ focus = "dispute"
DisputeSpec ==
  DisputeInit /\
  [][ /\ \/ Tick \/ OpenStep
         \/ \E c \in Ids : LifeCycle(c) \/ Delegation(c) \/ BountyStep(c) \/ MutualStep(c)
      /\ UNCHANGED focus ]_<<vars, focus>>

\* The fair specification for channels that must end.
FairSpec == DisputeSpec /\ Fairness

\* Two channels whose escrows lie in one pool, so that an overpayment of one
\* does not trap: a route over both, or everything that can happen to the
\* first, as chosen at the start.
PooledSigned == [c \in Ids |-> {State(1, 1), State(2, 2), State(3, 2)}]
PooledHops == {Hop(1, 2, None), Hop(2, 2, None), Hop(1, 1, <<1, 1>>), Hop(1, 2, <<1, 1>>)}
PooledInit == Init /\ focus \in {"route", "escrow"}
PooledSpec ==
  PooledInit /\
  [][ /\ \/ Tick \/ OpenStep
         \/ focus = "route" /\ \E c \in Ids : LifeCycle(c) \/ HtlcStep(c)
         \/ focus = "escrow" /\ ChannelStep(1)
      /\ Exclusive
      /\ UNCHANGED focus ]_<<vars, focus>>

\* One channel with hops and conditional payments at once.
MixedInit == Init /\ focus = "mixed"
MixedSpec == MixedInit /\ [][Next /\ UNCHANGED focus]_<<vars, focus>>
=============================================================================
