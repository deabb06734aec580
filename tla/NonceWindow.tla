---------------------------- MODULE NonceWindow ----------------------------
(***************************************************************************)
(* The sliding window of consumed nonces of a state channel.  The bitmap   *)
(* is the set of offsets whose bit is set.                                 *)
(***************************************************************************)
EXTENDS Integers

CONSTANT WINDOW_SIZE

ASSUME WindowAssumption == WINDOW_SIZE \in Nat \ {0}

Window == [base : Nat, bitmap : SUBSET (0..(WINDOW_SIZE - 1))]

empty == [base |-> 0, bitmap |-> {}]

\* Mutant of is_consumed: a nonce the window slid past counts as fresh.
is_consumed_in_window(w, nonce) == nonce - w.base \in w.bitmap

is_consumed(w, nonce) == nonce < w.base \/ nonce - w.base \in w.bitmap

\* A nonce beyond the window slides it to the aligned bucket of the nonce.
consume(w, nonce) ==
  IF nonce >= w.base + WINDOW_SIZE
  THEN [base |-> nonce - (nonce % WINDOW_SIZE), bitmap |-> {nonce % WINDOW_SIZE}]
  ELSE [w EXCEPT !.bitmap = @ \cup {nonce - w.base}]
=============================================================================
