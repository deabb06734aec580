-------------------------- MODULE ConcealedEscrow --------------------------
(***************************************************************************)
(* Two small ledgers of decisions taken once.  The privacy contract: an    *)
(* escrow of a concealed amount leaves Pending by the first proof that is  *)
(* examined.  The fallback disputes of the VDF policy contract: the oracle *)
(* named at the escalation rules once.  Proof bytes are reduced to whether *)
(* they pass the structural checks; a commitment is the value committed.   *)
(***************************************************************************)
EXTENDS LedgerClock, Sequences

CONSTANTS Commitments, ZeroCommitment,  \* ZeroCommitment \in Commitments: all zero
          MinAmounts,                   \* floors an escrow may be created with
          IcLengths,                    \* lengths of a verifying key's ic
          Proofs,                       \* sound, inputs, amount, opening
          DisputeOracles, DisputedAmounts,
          MaxEscrows, MaxDisputes       \* bounds

\* Amounts are numbers; an escrow not decided yet has no proof.
ASSUME ConcealedAssumption ==
  /\ MinAmounts \subseteq Int
  /\ Proofs \subseteq [sound : BOOLEAN, inputs : Nat, amount : Int, opening : Commitments]
  /\ None \notin Proofs

VARIABLES vk,           \* length of the installed key's ic, or None
          escrows,      \* Escrow(0..EscrowCount-1), in creation order
          verifiedBy,   \* the proof each escrow was decided on, or None
          fallback,     \* Dispute(1..Count)
          rulings       \* FallbackDisputeSettledEvents

concealedVars == <<vk, escrows, verifiedBy>>
fallbackVars == <<fallback, rulings>>

ConcealedInit ==
  /\ vk = None
  /\ escrows = <<>>
  /\ verifiedBy = <<>>
  /\ fallback = <<>>
  /\ rulings = <<>>

set_verifying_key(ic) ==
  /\ ic # 0
  /\ vk' = ic
  /\ UNCHANGED <<escrows, verifiedBy>>

create_escrow(commitment, min_amount) ==
  /\ Len(escrows) < MaxEscrows
  /\ commitment # ZeroCommitment
  /\ min_amount >= 0
  /\ escrows' = Append(escrows, [commitment |-> commitment, min_amount |-> min_amount,
                                 status |-> "Pending"])
  /\ verifiedBy' = Append(verifiedBy, None)
  /\ UNCHANGED vk

\* Structure only: the host has no pairing.
verify_groth16(p) == vk = p.inputs + 1 /\ p.sound

verify_concealed_amount(e, p) ==
  /\ e.commitment # ZeroCommitment
  /\ verify_groth16(p)
  /\ p.inputs > 0
  /\ p.inputs >= 3 => p.opening = e.commitment
  /\ p.amount >= e.min_amount

\* Mutant of verify_escrow: a decided escrow is decided again.
verify_again(id, p) ==
  /\ id \in DOMAIN escrows
  /\ escrows[id].status # "Verified"
  /\ vk # None
  /\ p.inputs > 0 => p.amount >= escrows[id].min_amount
  /\ escrows' = [escrows EXCEPT ![id].status =
       IF verify_concealed_amount(escrows[id], p) THEN "Verified" ELSE "Rejected"]
  /\ verifiedBy' = [verifiedBy EXCEPT ![id] = p]
  /\ UNCHANGED vk

\* A proven amount below the floor is an error and leaves the escrow pending.
verify_escrow(id, p) ==
  /\ id \in DOMAIN escrows
  /\ escrows[id].status = "Pending"
  /\ vk # None
  /\ p.inputs > 0 => p.amount >= escrows[id].min_amount
  /\ escrows' = [escrows EXCEPT ![id].status =
       IF verify_concealed_amount(escrows[id], p) THEN "Verified" ELSE "Rejected"]
  /\ verifiedBy' = [verifiedBy EXCEPT ![id] = p]
  /\ UNCHANGED vk

(***************************************************************************)
(* Fallback disputes.                                                      *)
(***************************************************************************)
request_dispute(oracle, amount) ==
  /\ Len(fallback) < MaxDisputes
  /\ amount > 0
  /\ fallback' = Append(fallback, [oracle |-> oracle, amount |-> amount,
                                   request_ledger |-> now, open |-> TRUE])
  /\ UNCHANGED rulings

settle_dispute(id, refund, caller) ==
  /\ id \in DOMAIN fallback
  /\ fallback[id].open
  /\ caller = fallback[id].oracle
  /\ fallback' = [fallback EXCEPT ![id].open = FALSE]
  /\ rulings' = Append(rulings, [dispute_id |-> id, refund |-> refund, oracle |-> caller])

ConcealedStep ==
  \/ \E ic \in IcLengths : set_verifying_key(ic)
  \/ \E c \in Commitments, m \in MinAmounts : create_escrow(c, m)
  \/ \E id \in 1..MaxEscrows, p \in Proofs : verify_escrow(id, p)
FallbackStep ==
  \/ \E o \in DisputeOracles, a \in DisputedAmounts : request_dispute(o, a)
  \/ \E id \in 1..MaxDisputes, r \in BOOLEAN, o \in DisputeOracles : settle_dispute(id, r, o)
ConcealedNext ==
  \/ ConcealedStep /\ UNCHANGED <<fallbackVars, now>>
  \/ FallbackStep /\ UNCHANGED <<concealedVars, now>>
  \/ NextLedger /\ UNCHANGED <<concealedVars, fallbackVars>>
ConcealedSpec ==
  ClockInit /\ ConcealedInit /\ [][ConcealedNext]_<<concealedVars, fallbackVars, now>>

-----------------------------------------------------------------------------
\* A Verified escrow was decided on a proof with inputs whose amount reaches the
\* escrow's floor and whose opening, where the inputs carry one, is the escrow's
\* commitment, although keys of other lengths are installed in between.
VerifiedMeetsFloor ==
  \A id \in DOMAIN escrows :
    escrows[id].status = "Verified" =>
      LET p == verifiedBy[id] IN
        /\ p # None
        /\ p.sound /\ p.inputs > 0 /\ p.amount >= escrows[id].min_amount
        /\ p.inputs >= 3 => p.opening = escrows[id].commitment

\* Every closed dispute has exactly one ruling, by the oracle named when it was
\* escalated, and an open one has none.
RuledOnce ==
  \A id \in DOMAIN fallback :
    LET mine == {i \in DOMAIN rulings : rulings[i].dispute_id = id} IN
      IF fallback[id].open THEN mine = {}
      ELSE \E i \in mine : mine = {i} /\ rulings[i].oracle = fallback[id].oracle

\* A decision on an escrow is final: neither a later proof nor a later key turns
\* Rejected into Verified or back, the terms it was created with stay, and a
\* Verified one was verified for them; nor is a dispute ruled on twice.
VerdictsFinal ==
  [][/\ VerifiedMeetsFloor' /\ RuledOnce'
     /\ \A id \in DOMAIN escrows :
          /\ escrows'[id].commitment = escrows[id].commitment
          /\ escrows'[id].min_amount = escrows[id].min_amount
          /\ escrows[id].status # "Pending" => escrows'[id] = escrows[id]
    ]_<<concealedVars, fallbackVars, now>>
=============================================================================
