--------------------------- MODULE MCRefundVault ---------------------------
(***************************************************************************)
(* Instances of the refund vault for TLC.  Each takes the groups of entry  *)
(* points whose interplay it asks about; every behaviour of an instance is *)
(* a behaviour of RefundVault!Spec.                                        *)
(***************************************************************************)
EXTENDS RefundVault

CONSTANTS m1, m2, c1, c2, r1, r2, r3, s1, s2

\* The group of entry points a behaviour exercises, chosen at the start.
VARIABLE focus

Claim(r, to, amount, paid_at, payment) ==
  [ payment_ref |-> r, recipient |-> to, amount |-> amount,
    paid_at_ledger |-> paid_at, payment_amount |-> payment, vdf_proof |-> "none" ]

NoPolicy == [window |-> 0, deadline |-> 0, vdf_delay |-> 0]

PlainInit ==
  [ policy |-> NoPolicy, time_policy |-> FALSE, vdf_policy |-> FALSE,
    fee_bps |-> 0, fee_recipient |-> None ]

-----------------------------------------------------------------------------
(* Claims and batches behind the gates: windows and deadlines, proposals   *)
(* and policy contracts, oracle, cooldown and VDF, pausing and handover.   *)

Proof(c, p) == [c EXCEPT !.vdf_proof = p]

ClaimsInits ==
  { PlainInit,
    [PlainInit EXCEPT !.policy.window = 1, !.time_policy = TRUE, !.fee_bps = 2500],
    [PlainInit EXCEPT !.policy.deadline = 1, !.fee_recipient = Vault, !.fee_bps = 1],
    [PlainInit EXCEPT !.policy.vdf_delay = 1, !.vdf_policy = TRUE] }
ClaimsClaims ==
  { Claim(r1, c1, 1, 0, 2), Claim(r1, c1, 2, 0, 3), Claim(r2, Vault, 1, 0, 2),
    Claim(r3, c1, 1, 0, 1),
    Proof(Claim(r2, c1, 1, 1, 2), "valid"), Proof(Claim(r2, c1, 1, 1, 2), "invalid") }
ClaimsBatches ==
  { <<>>,
    <<Claim(r1, c1, 1, 0, 2), Claim(r1, c2, 2, 0, 3), Claim(r1, c2, 1, 0, 2)>>,
    <<Proof(Claim(r2, c1, 2, 1, 2), "valid"), Claim(r3, c1, 1, 0, 1), Claim(r1, c1, 1, 0, 2)>> }
ClaimsPolicies == {NoPolicy, [NoPolicy EXCEPT !.window = 1, !.vdf_delay = 2]}

ClaimsInit == Init /\ focus = "claims"
ClaimsSpec ==
  ClaimsInit /\
  [][ /\ \/ Tick \/ ClaimStep \/ FloatStep \/ AdminStep
         \/ PolicyStep \/ ContractStep \/ GateStep
      /\ UNCHANGED focus ]_<<vars, focus>>

-----------------------------------------------------------------------------
(* What moves money or sets its terms: yield strategies that misreport,    *)
(* fee ladders, coupons, dust, flash loans and token changes beside claims *)
(* and withdrawals that need a recall.  Administration runs beside single  *)
(* claims only.                                                            *)

MoneyInits == {[PlainInit EXCEPT !.fee_bps = 20000], [PlainInit EXCEPT !.fee_recipient = Vault]}
MoneyClaims == {Claim(r1, c1, 2, 0, 3)}
MoneyBatches == {<<Claim(r1, c1, 2, 0, 4), Claim(r2, c1, 1, 0, 1), Claim(r1, c1, 2, 0, 4)>>}
MoneyReplies ==
  { [principal |-> 1, yield |-> 0, paid |-> 1],
    [principal |-> 2, yield |-> 1, paid |-> 3],
    [principal |-> 2, yield |-> 0, paid |-> 1],
    [principal |-> 0, yield |-> 1, paid |-> 0] }
MoneyLoans == {[amount |-> 2, repaid |-> 3], [amount |-> 1, repaid |-> 1]}

Rung(volume, bps) == [min_settled |-> volume, fee_bps |-> bps]
MoneyLadders ==
  { <<Rung(0, 5000), Rung(1, 2500), Rung(2, 0)>>, <<Rung(0, 100), Rung(3, 50)>>,
    <<Rung(1, 100)>>, <<Rung(0, 1), Rung(0, 2)>>, <<>> }

MoneyInit == Init /\ focus \in {"yield", "fees", "admin"}
MoneySpec ==
  MoneyInit /\
  [][ /\ \/ ClaimStep \/ FloatStep \/ pause \/ unpause
         \/ focus = "yield" /\ (YieldStep \/ RatioStep)
         \/ focus = "fees" /\ (YieldStep \/ FeeStep \/ LadderStep)
         \/ focus = "admin" /\ ( \/ Tick \/ CouponStep \/ DustStep \/ FlashStep
                                 \/ AdminStep \/ TokenStep )
      /\ focus = "admin" => tx' = None
      /\ UNCHANGED focus ]_<<vars, focus>>

-----------------------------------------------------------------------------
(* Dust beside claims.                                                     *)

DustInits == {PlainInit}
DustInit == Init /\ focus = "dust"
DustSpec ==
  DustInit /\
  [][ /\ Tick \/ ClaimStep \/ FloatStep \/ DustStep
      /\ UNCHANGED focus ]_<<vars, focus>>
=============================================================================
