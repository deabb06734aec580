---------------------------- MODULE RefundLedger ----------------------------
(***************************************************************************)
(* What the refund vault promises about its payments, with everything else *)
(* left out: a payment's refunds accumulate in a record up to the ceiling  *)
(* its first refund fixed; a record changes only while the vault is not    *)
(* paused; and a record that is deleted is deleted alone.                  *)
(***************************************************************************)
EXTENDS Integers

CONSTANTS Refs, None

VARIABLES records, paused

\* One or more refunds of a payment take its record from old to new.
Advances(old, new) ==
  /\ new # None
  /\ 0 < new.amount_refunded /\ new.amount_refunded <= new.payment_amount
  /\ old # None => /\ new.payment_amount = old.payment_amount
                   /\ new.amount_refunded > old.amount_refunded

Init == records = [r \in Refs |-> None] /\ paused = FALSE

\* A committed transaction refunds any number of payments.
Settle ==
  /\ ~paused
  /\ \A r \in Refs : records'[r] = records[r] \/ Advances(records[r], records'[r])
  /\ paused' = paused

Reclaim ==
  /\ ~paused
  /\ \E r \in Refs : records[r] # None /\ records' = [records EXCEPT ![r] = None]
  /\ paused' = paused

SetPaused == paused' \in BOOLEAN /\ UNCHANGED records

Next == Settle \/ Reclaim \/ SetPaused

Spec == Init /\ [][Next]_<<records, paused>>
=============================================================================
