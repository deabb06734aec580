---------------------------- MODULE MCVaultMath ----------------------------
(***************************************************************************)
(* The arithmetic of the vault and of governance against reference         *)
(* definitions, one input per state: two amounts, a rate and a ladder.     *)
(***************************************************************************)
EXTENDS VaultMath

CONSTANTS Amounts, Rates, U64Max, U128Max, MAX_LOCK_LEDGERS, QF_SCALE

Gov == INSTANCE GovernanceMath

VARIABLE input

MathLadders ==
  { <<[min_settled |-> 0, fee_bps |-> 300]>>,
    <<[min_settled |-> 0, fee_bps |-> 300], [min_settled |-> 1, fee_bps |-> 200]>>,
    <<[min_settled |-> 0, fee_bps |-> 300], [min_settled |-> 7, fee_bps |-> 200],
      [min_settled |-> 8, fee_bps |-> 0], [min_settled |-> 10000, fee_bps |-> 400]>> }

Inputs == [a : Amounts, b : Amounts, bps : Rates, ladder : MathLadders]

Init == input \in Inputs
Next == input' \in {[i EXCEPT !.b = input.a] : i \in Inputs}
Spec == Init /\ [][Next]_input

\* refund_fee: the overflow-free decomposition is the least fee covering the
\* rate, and with a valid rate it never exceeds the amount.
FeeIsCeiling == refund_fee(input.a, input.bps) = FeeReference(input.a, input.bps)

\* split_amount rounds the fee up, so refunding in two partials never costs
\* the recipient less than refunding at once.
PartialsNeverCheaper ==
  refund_fee(input.a, input.bps) + refund_fee(input.b, input.bps)
    >= refund_fee(input.a + input.b, input.bps)

\* on_settled: two settlements climb the ladder to where the total volume
\* belongs, whichever rungs each of them skips.
PromotionIsPathIndependent ==
  on_settled(input.ladder,
             on_settled(input.ladder, TierState(input.ladder, 0), input.a), input.b)
    = TierState(input.ladder, input.a + input.b)

\* isqrt and isqrt_u128: Newton's descent ends on the exact integer root, on
\* both sides of the u64 limit.
RootsExact ==
  /\ Gov!IsRoot(Gov!isqrt(input.a), input.a)
  /\ Gov!IsRoot(Gov!isqrt_u128(input.a * input.b), input.a * input.b)

\* current_quorum_bps: in a window of b ledgers the quorum never rises, never
\* falls below the floor and never exceeds the larger of start and floor.
QuorumOnlyFalls ==
  LET quorum(elapsed) == Gov!current_quorum_bps(input.bps, elapsed, input.b)
  IN /\ quorum(input.a) \in Gov!QUORUM_FLOOR_BPS .. Greatest(input.bps, Gov!QUORUM_FLOOR_BPS)
     /\ quorum(input.a + 1) <= quorum(input.a)

\* power_for: splitting the product into quotient and remainder loses nothing.
PowerIsProportional ==
  Gov!power_for(input.a, input.b)
    = Least((input.a * Least(input.b, MAX_LOCK_LEDGERS)) \div MAX_LOCK_LEDGERS, U64Max)

\* scaled_sqrt and match_from_scaled: one donor is matched by nothing, two by
\* at most 2 * sqrt(a * b), however the scaled roots were rounded.
MatchWithinFormula ==
  LET root(n) == Gov!scaled_sqrt(n)
      match == Gov!match_from_scaled(root(input.a) + root(input.b), input.a + input.b)
  IN Gov!Overflow \notin {root(input.a), root(input.b)} =>
       /\ Gov!match_from_scaled(root(input.a), input.a) = 0
       /\ match # Gov!Overflow => match * match <= 4 * input.a * input.b

\* The vault's three computations, refund_fee, split_amount and on_settled,
\* against their references.
VaultArithmetic == FeeIsCeiling /\ PartialsNeverCheaper /\ PromotionIsPathIndependent

\* Governance's computations, isqrt, current_quorum_bps, power_for and the
\* quadratic match, against theirs.
GovernanceArithmetic ==
  RootsExact /\ QuorumOnlyFalls /\ PowerIsProportional /\ MatchWithinFormula
=============================================================================
