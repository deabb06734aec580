---------------------------- MODULE LedgerClock ----------------------------
(***************************************************************************)
(* The ledger the contracts below run on, external to them: one clock that *)
(* stands for the ledger sequence number and for the timestamp of a ledger *)
(* (the contracts compare each of them with stored values of its own kind  *)
(* only).  A call of an entry point is one step at the current ledger; a   *)
(* call that returns an error or traps is rolled back and is no step.      *)
(***************************************************************************)
EXTENDS Integers

CONSTANTS None, MaxLedger

VARIABLE now

ClockInit == now = 0

\* A ledger closes and the next one opens.
NextLedger == now < MaxLedger /\ now' = now + 1
=============================================================================
