----------------------------- MODULE VaultMath -----------------------------
(***************************************************************************)
(* The pure arithmetic of the refund vault: the refund fee, the checked    *)
(* ratio, and the merchant fee ladder.  Amounts are i128 in the code; the  *)
(* models keep them far below MaxAmount (i128::MAX), which only appears as *)
(* the threshold above the top rung of a ladder.                           *)
(***************************************************************************)
EXTENDS Integers, Sequences

CONSTANT MaxAmount          \* i128::MAX

BPS == 10000

Least(a, b) == IF a <= b THEN a ELSE b
Greatest(a, b) == IF a >= b THEN a ELSE b

\* Rust's i128 division rounds toward zero.
div_amounts(a, b) == IF a >= 0 THEN a \div b ELSE -((-a) \div b)

\* value * numerator / denominator.
mul_ratio(value, numerator, denominator) ==
  div_amounts(value * numerator, denominator)

\* ceil(amount * bps / 10_000), computed as the code does from the quotient
\* and the remainder of the amount.
refund_fee(amount, bps) ==
  (amount \div BPS) * bps + ((amount % BPS) * bps + 9999) \div BPS

\* The reference definition: the least fee that covers the rate.
FeeReference(amount, bps) ==
  CHOOSE f \in 0..amount : /\ f * BPS >= amount * bps
                           /\ (f - 1) * BPS < amount * bps

-----------------------------------------------------------------------------
(* The fee ladder: a sequence of rungs.                                    *)

MerchantTier == [min_settled : Int, fee_bps : Nat]

ValidLadder(ladder) ==
  /\ Len(ladder) \in 1..16
  /\ ladder[1].min_settled = 0
  /\ \A i \in DOMAIN ladder :
       /\ ladder[i].fee_bps <= BPS
       /\ i > 1 => ladder[i].min_settled > ladder[i - 1].min_settled

\* The last rung whose threshold the volume reaches, the first otherwise.
tier_for_volume(ladder, volume) ==
  CHOOSE i \in DOMAIN ladder :
    /\ i = 1 \/ ladder[i].min_settled <= volume
    /\ \A j \in (i + 1)..Len(ladder) : ladder[j].min_settled > volume

next_threshold(ladder, tier) ==
  IF tier < Len(ladder) THEN ladder[tier + 1].min_settled ELSE MaxAmount

\* The position on a ladder after a settled volume.
TierState(ladder, volume) ==
  LET t == tier_for_volume(ladder, volume)
  IN  [ settled_volume |-> volume,
        current_tier   |-> t,
        fee_bps        |-> ladder[t].fee_bps,
        next_threshold |-> next_threshold(ladder, t) ]

\* Mutant of on_settled: a claim climbs one rung at most.
on_settled_one_rung(ladder, state, amount) ==
  LET volume == Least(state.settled_volume + amount, MaxAmount)
      accrued == [state EXCEPT !.settled_volume = volume]
      next == state.current_tier + 1
  IN  IF volume < state.next_threshold
      THEN accrued
      ELSE [accrued EXCEPT !.current_tier = next,
                           !.fee_bps = ladder[next].fee_bps,
                           !.next_threshold = next_threshold(ladder, next)]

\* Accrue a settled amount and promote when the cached threshold is reached;
\* a rung below the current one is never taken.
on_settled(ladder, state, amount) ==
  LET volume == Least(state.settled_volume + amount, MaxAmount)
      accrued == [state EXCEPT !.settled_volume = volume]
      new_tier == tier_for_volume(ladder, volume)
      promoted == IF new_tier > state.current_tier
                  THEN [accrued EXCEPT !.current_tier = new_tier,
                                       !.fee_bps = ladder[new_tier].fee_bps]
                  ELSE accrued
  IN  IF volume < state.next_threshold
      THEN accrued
      ELSE [promoted EXCEPT
              !.next_threshold = next_threshold(ladder, promoted.current_tier)]
=============================================================================
