------------------------- MODULE RefundVaultProofs --------------------------
(***************************************************************************)
(* The refund vault, for every value of its constants: what its arithmetic *)
(* computes (induction over a ladder is by a least counterexample), what   *)
(* every entry point keeps of the books (GoodBooks), and from it the type  *)
(* invariant, the refund ceilings, the yield accounting, the fee ladder and *)
(* the refinement of RefundLedger.                                         *)
(***************************************************************************)
EXTENDS RefundVault, WellFoundedInduction, TLAPS

\* Every non-empty set of naturals has a least element.
LEMMA NatMin ==
  ASSUME NEW T, T \subseteq Nat, T # {}
  PROVE  \E x \in T : \A y \in T : x <= y
<1> DEFINE R == OpToRel(<, Nat)
<1>1. IsWellFoundedOn(R, Nat)
  BY ZenonT(60), NatLessThanWellFounded
<1>2. \A x, y \in Nat : y < x => <<y, x>> \in R
  BY Zenon DEF OpToRel
<1> HIDE DEF R
<1>3. PICK x \in T : \A y \in T : ~ (<<y, x>> \in R)
  BY ZenonT(60), <1>1, WFMin
<1>4. x \in Nat /\ \A y \in T : y \in Nat /\ ~ (y < x)
  BY ZenonT(60), <1>2, <1>3
<1>5. \A y \in T : x <= y
  BY <1>4
<1> QED
  BY <1>5, Zenon

-----------------------------------------------------------------------------
(* The fee.                                                                *)

\* refund_fee: the fee of a non-negative amount is a natural number.
LEMMA FeeNat ==
  ASSUME NEW a \in Nat, NEW bps \in Nat
  PROVE  refund_fee(a, bps) \in Nat
<1> DEFINE q == a \div BPS
           m == a % BPS
<1>1. q \in Nat /\ m \in Nat
  BY DEF BPS
<1>2. q * bps \in Nat /\ m * bps \in Nat
  BY <1>1
<1>3. \A x \in Nat : (x + 9999) \div BPS \in Nat
  BY DEF BPS
<1> HIDE DEF q, m
<1>4. q * bps + (m * bps + 9999) \div BPS \in Nat
  BY <1>2, <1>3
<1> QED
  BY <1>4 DEF refund_fee, q, m

\* refund_fee: the fee is the least one that covers the rate (rounded up),
\* although it is computed from quotient and remainder to avoid overflow; and
\* at a rate of at most 100% it never exceeds the amount.
THEOREM FeeRoundsUp ==
  ASSUME NEW a \in Nat, NEW bps \in 0..BPS
  PROVE  /\ refund_fee(a, bps) * BPS >= a * bps
         /\ (refund_fee(a, bps) - 1) * BPS < a * bps
         /\ refund_fee(a, bps) <= a
<1> DEFINE q == a \div BPS
           m == a % BPS
<1>1. q \in Nat /\ m \in Nat /\ a = q * BPS + m
  BY SMTT(30) DEF BPS
<1> HIDE DEF q, m
<1>2. PICK p, r \in Nat : /\ p = m * bps /\ r = q * bps
                          /\ p <= m * BPS /\ r <= q * BPS
  BY <1>1, SMTT(30) DEF BPS
<1>3. a * bps = r * BPS + p
  BY <1>1, <1>2, SMTT(30) DEF BPS
<1>4. \A x \in Nat : LET y == (x + 9999) \div BPS
                     IN  y \in Nat /\ y * BPS >= x /\ (y - 1) * BPS < x
  BY SMTT(30) DEF BPS
<1>5. PICK f \in Nat : /\ f = (p + 9999) \div BPS
                       /\ f * BPS >= p
                       /\ (f - 1) * BPS < p
  BY <1>4
<1>6. refund_fee(a, bps) = r + f
  BY <1>2, <1>5 DEF refund_fee, q, m
<1>7. (r + f) * BPS >= r * BPS + p /\ (r + f - 1) * BPS < r * BPS + p
  BY <1>5, SMTT(30) DEF BPS
<1>8. \A x \in Nat : (f - 1) * BPS < p /\ p <= x * BPS => f <= x
  BY SMTT(30) DEF BPS
<1>9. f <= m
  BY <1>1, <1>2, <1>5, <1>8
<1>10. r + f <= a
  <2>1. \A u, v, w, x \in Nat : u <= v * BPS /\ w <= x => u + w <= v * BPS + x
    BY SMTT(30) DEF BPS
  <2> QED
    BY ZenonT(60), <1>1, <1>2, <1>9, <2>1
<1> QED
  BY <1>3, <1>6, <1>7, <1>10

-----------------------------------------------------------------------------
(* The fee ladder.                                                         *)

\* A rung's threshold is an integer and its rate a natural number.
LEMMA RungTyped ==
  ASSUME NEW l \in Seq(MerchantTier)
  PROVE  \A x \in DOMAIN l : l[x].min_settled \in Int /\ l[x].fee_bps \in Nat
<1>1. \A x \in DOMAIN l : l[x] \in MerchantTier
  OBVIOUS
<1>2. \A e \in MerchantTier : e.min_settled \in Int /\ e.fee_bps \in Nat
  BY Zenon DEF MerchantTier
<1> QED
  BY <1>1, <1>2, Zenon

\* validate compares neighbours only; the thresholds are then strictly
\* increasing over the whole ladder.
LEMMA LadderMonotone ==
  ASSUME NEW l \in Seq(MerchantTier), ValidLadder(l),
         NEW i \in DOMAIN l, NEW j \in DOMAIN l, i < j
  PROVE  l[i].min_settled < l[j].min_settled
<1> DEFINE T == {k \in DOMAIN l : i < k /\ ~ (l[i].min_settled < l[k].min_settled)}
<1> SUFFICES ASSUME T # {}  PROVE FALSE
  BY Zenon
<1>1. T \subseteq Nat
  OBVIOUS
<1>2. PICK k \in T : \A y \in T : k <= y
  BY ZenonT(60), <1>1, NatMin
<1>3. k - 1 \in DOMAIN l /\ k \in DOMAIN l /\ k > 1
  BY <1>2
<1>4. l[k].min_settled > l[k - 1].min_settled
  BY <1>3, Zenon DEF ValidLadder
<1>5. \A x \in DOMAIN l : l[x].min_settled \in Int
  BY RungTyped, Zenon
<1>6. k - 1 \notin T
  BY <1>2, <1>3
<1> QED
  BY <1>2, <1>3, <1>4, <1>5, <1>6

\* The rung tier_for_volume looks for.
TierHolds(l, v, t) ==
  /\ t \in DOMAIN l
  /\ t = 1 \/ l[t].min_settled <= v
  /\ \A j \in (t + 1)..Len(l) : l[j].min_settled > v

\* tier_for_volume finds a rung on every ladder.
LEMMA TierFound ==
  ASSUME NEW l \in Seq(MerchantTier), ValidLadder(l), NEW v \in Int
  PROVE  TierHolds(l, v, tier_for_volume(l, v))
<1> DEFINE C == {i \in DOMAIN l : i = 1 \/ l[i].min_settled <= v}
           T == {Len(l) - i : i \in C}
<1>1. 1 \in C /\ T # {}
  BY DEF ValidLadder
<1>2. T \subseteq Nat
  OBVIOUS
<1>3. PICK k \in T : \A y \in T : k <= y
  BY ZenonT(60), <1>1, <1>2, NatMin
<1>4. PICK i \in C : k = Len(l) - i
  BY <1>3, Zenon
<1>5. \A x \in DOMAIN l : l[x].min_settled \in Int
  BY RungTyped, Zenon
<1>6. ASSUME NEW j \in (i + 1)..Len(l)  PROVE l[j].min_settled > v
  <2>1. j \in DOMAIN l /\ j # 1
    BY <1>4
  <2>2. SUFFICES ASSUME l[j].min_settled <= v  PROVE FALSE
    BY <1>5, <2>1
  <2>3. Len(l) - j \in T
    BY <2>1, <2>2, Zenon
  <2>4. Len(l) - i <= Len(l) - j
    BY <1>3, <1>4, <2>3, Zenon
  <2> QED
    BY <1>4, <2>1, <2>4
<1>7. \E t \in DOMAIN l : /\ t = 1 \/ l[t].min_settled <= v
                         /\ \A j \in (t + 1)..Len(l) : l[j].min_settled > v
  BY <1>4, <1>6, Zenon
<1> QED
  BY <1>7, Zenon DEF tier_for_volume, TierHolds

\* There is only one such rung.
LEMMA TierUnique ==
  ASSUME NEW l \in Seq(MerchantTier), NEW v \in Int,
         NEW s, NEW t, TierHolds(l, v, s), TierHolds(l, v, t)
  PROVE  s = t
<1>1. \A x \in DOMAIN l : l[x].min_settled \in Int
  BY RungTyped, Zenon
<1>2. s \in DOMAIN l /\ t \in DOMAIN l /\ DOMAIN l = 1..Len(l) /\ Len(l) \in Nat
  BY DEF TierHolds
<1>3. ~ (s < t)
  BY <1>1, <1>2 DEF TierHolds
<1>4. ~ (t < s)
  BY <1>1, <1>2 DEF TierHolds
<1> QED
  BY <1>2, <1>3, <1>4

\* The record a rung and a volume determine.
AtRung(l, v, t) ==
  [ settled_volume |-> v, current_tier |-> t, fee_bps |-> l[t].fee_bps,
    next_threshold |-> next_threshold(l, t) ]

\* TierState is the record of the one rung of its volume.
LEMMA TierStateAt ==
  ASSUME NEW l \in Seq(MerchantTier), NEW v \in Int, NEW t, TierHolds(l, v, t),
         ValidLadder(l)
  PROVE  TierState(l, v) = AtRung(l, v, t)
<1>1. tier_for_volume(l, v) = t
  BY TierFound, TierUnique, Zenon
<1> QED
  BY <1>1, Zenon DEF TierState, AtRung

\* on_settled promotes only when the cached threshold is reached, and may
\* skip rungs; the state it leaves is the one recomputed from the ladder and
\* the accumulated volume, which saturates.
THEOREM SettledExact ==
  ASSUME NEW l \in Seq(MerchantTier), ValidLadder(l), MaxAmount \in Nat,
         NEW v \in 0..MaxAmount, NEW a \in Nat
  PROVE  on_settled(l, TierState(l, v), a) = TierState(l, Least(v + a, MaxAmount))
<1> DEFINE w == Least(v + a, MaxAmount)
           t == tier_for_volume(l, v)
           u == tier_for_volume(l, w)
<1>1. w \in 0..MaxAmount /\ w >= v
  BY DEF Least
<1>2. TierHolds(l, v, t) /\ TierHolds(l, w, u)
  BY <1>1, TierFound
<1>3. TierState(l, v) = AtRung(l, v, t) /\ TierState(l, w) = AtRung(l, w, u)
  BY Zenon DEF TierState, AtRung
<1>4. t \in DOMAIN l /\ u \in DOMAIN l /\ DOMAIN l = 1..Len(l) /\ Len(l) \in Nat
  BY <1>2 DEF TierHolds
<1>5. u >= t
  BY SMTT(30), <1>1, <1>2, <1>4, RungTyped DEF TierHolds
<1>6. ASSUME w < next_threshold(l, t)  PROVE u = t
  <2>1. TierHolds(l, w, t)
    <3>1. t = 1 \/ l[t].min_settled <= w
      BY <1>1, <1>2, <1>4, RungTyped DEF TierHolds
    <3>2. ASSUME NEW j \in (t + 1)..Len(l)  PROVE l[j].min_settled > w
      <4>1. next_threshold(l, t) = l[t + 1].min_settled
        BY <1>4 DEF next_threshold
      <4>2. j \in DOMAIN l /\ t + 1 \in DOMAIN l /\ (t + 1 = j \/ t + 1 < j)
        BY <1>4
      <4>3. l[t + 1].min_settled \in Int /\ l[j].min_settled \in Int
        BY <4>2, RungTyped, Zenon
      <4>4. l[t + 1].min_settled <= l[j].min_settled
        BY <4>2, <4>3, LadderMonotone
      <4>5. w < l[t + 1].min_settled
        BY <1>6, <4>1, Zenon
      <4> HIDE DEF w
      <4> QED
        BY <1>1, <4>3, <4>4, <4>5
    <3> QED
      BY <1>4, <3>1, <3>2, Zenon DEF TierHolds
  <2> QED
    BY <1>1, <1>2, <2>1, TierUnique
<1> DEFINE s == AtRung(l, v, t)
           accrued == [s EXCEPT !.settled_volume = w]
           promoted == IF u > s.current_tier
                       THEN [accrued EXCEPT !.current_tier = u,
                                            !.fee_bps = l[u].fee_bps]
                       ELSE accrued
           final == [promoted EXCEPT
                       !.next_threshold = next_threshold(l, promoted.current_tier)]
<1>7. on_settled(l, s, a) = IF w < s.next_threshold THEN accrued ELSE final
  <2>1. s.settled_volume = v
    BY Zenon DEF AtRung
  <2> HIDE DEF s
  <2> QED
    BY <2>1 DEF on_settled
<1> HIDE DEF w, t, u
<1>8. s.next_threshold = next_threshold(l, t) /\ s.current_tier = t
  BY Zenon DEF AtRung
<1>9. accrued = AtRung(l, w, t)
  BY DEF AtRung
<1>10. final = AtRung(l, w, u)
  <2>1. CASE u > t
    <3>1. promoted = [AtRung(l, w, t) EXCEPT !.current_tier = u,
                                             !.fee_bps = l[u].fee_bps]
      BY ZenonT(60), <1>8, <1>9, <2>1
    <3> HIDE DEF promoted
    <3>2. promoted = [ settled_volume |-> w, current_tier |-> u,
                       fee_bps |-> l[u].fee_bps,
                       next_threshold |-> next_threshold(l, t) ]
      BY ZenonT(60), <3>1 DEF AtRung
    <3> QED
      BY <3>2 DEF AtRung
  <2>2. CASE u = t
    <3>1. promoted = AtRung(l, w, u)
      <4>1. ~ (u > s.current_tier)
        BY <1>4, <1>8, <2>2
      <4> HIDE DEF accrued, s
      <4> QED
        BY <1>9, <2>2, <4>1, Zenon
    <3> HIDE DEF promoted
    <3> QED
      BY <3>1 DEF AtRung
  <2> QED
    BY <1>4, <1>5, <2>1, <2>2
<1> HIDE DEF s, accrued, final
<1>11. on_settled(l, s, a) = AtRung(l, w, u)
  BY <1>6, <1>7, <1>8, <1>9, <1>10, Zenon
<1> QED
  BY <1>3, <1>11, Zenon DEF w, s

-----------------------------------------------------------------------------
(* The books.                                                              *)

\* apply_coupon: a discount of at most the whole leaves nothing negative.
LEMMA CouponNat ==
  ASSUME NEW a \in Nat, NEW d \in 0..BPS
  PROVE  apply_coupon(a, d) \in Nat
<1>1. a * d \in Nat /\ a * d <= a * BPS
  BY SMTT(60) DEF BPS
<1>2. \A x \in Nat : x <= a * BPS => x \div BPS \in 0..a
  BY SMTT(30) DEF BPS
<1>3. (a * d) \div BPS \in 0..a
  BY <1>1, <1>2, Zenon
<1> QED
  BY SMTT(30), <1>1, <1>3 DEF apply_coupon, mul_ratio, div_amounts

-----------------------------------------------------------------------------
(* Good books: what every transaction finds and leaves behind, given the   *)
(* active strategy s and the ladder l of the configuration.                *)

RecordsGood(b) ==
  \A r \in Refs : b.records[r] # None =>
    /\ 0 < b.records[r].amount_refunded
    /\ b.records[r].amount_refunded <= b.records[r].payment_amount

YieldGood(b, s) ==
  /\ b.deployed >= 0 /\ b.harvested >= 0
  /\ b.deployed >= b.owed
  /\ b.deployed > 0 => s # None

TierGood(b, l) ==
  b.tier # None => /\ ValidLadder(l)
                   /\ b.tier.settled_volume \in 0..MaxAmount
                   /\ b.tier = TierState(l, b.tier.settled_volume)

GoodBooks(b, s, l) ==
  /\ b \in Books
  /\ b.float >= 0
  /\ RecordsGood(b)
  /\ YieldGood(b, s)
  /\ TierGood(b, l)

\* The parts of the books that a recall leaves alone.
SameButYield(b, c) ==
  /\ c.records = b.records /\ c.tier = b.tier /\ c.last_claim = b.last_claim
  /\ c.user_nonce = b.user_nonce /\ c.coupons = b.coupons
  /\ c.float >= b.float

\* recall_principal: whatever the strategy answers, the books stay good and
\* only the float and the yield accounts move, tokens coming in.
LEMMA RecallGood ==
  ASSUME NEW b, NEW s, NEW l, GoodBooks(b, s, l), NEW p \in Int,
         NEW o \in recall_principal(b, p)
  PROVE  GoodBooks(o.books, s, l) /\ SameButYield(b, o.books)
<1>1. b \in Books /\ b.float \in Int /\ b.owed \in Int /\ b.deployed \in Int
        /\ b.harvested \in Int /\ b.nonce \in Nat
  BY Zenon DEF GoodBooks, Books
<1>2. CASE o = Err(b) \/ o = Trap(b)
  BY <1>1, <1>2 DEF Err, Trap, SameButYield
<1>3. ASSUME NEW y \in Replies, o = BookReply(b, p, y), p <= b.deployed
      PROVE  GoodBooks(o.books, s, l) /\ SameButYield(b, o.books)
  <2>1. y.paid \in Nat /\ y.principal \in Int /\ y.yield \in Int
    BY InputAssumption, Zenon DEF StrategyReply
  <2> DEFINE f == b.float + y.paid
             w == b.owed - y.paid
             d == b.deployed - y.principal
             h == b.harvested + y.yield
             n == b.nonce + 1
             moved == [b EXCEPT !.float = f, !.owed = w]
             booked == [moved EXCEPT !.deployed = d, !.harvested = h, !.nonce = n]
  <2>2. /\ f \in Int /\ w \in Int /\ d \in Int /\ h \in Int /\ n \in Nat
        /\ f >= b.float /\ w <= b.owed
    BY <1>1, <2>1
  <2>3. o = IF ReplyRejected(p, y) THEN Err(moved) ELSE Ok(booked)
    BY <1>3 DEF BookReply
  <2>4. ~ReplyRejected(p, y) => d >= 0 /\ d >= w /\ h >= b.harvested
                                 /\ b.deployed > 0
    BY <1>1, <1>3, <2>1 DEF ReplyRejected, GoodBooks, YieldGood
  <2> HIDE DEF f, w, d, h, n
  <2>5. /\ moved \in Books
        /\ moved.float = f /\ moved.owed = w
        /\ moved.deployed = b.deployed /\ moved.harvested = b.harvested
        /\ moved.records = b.records /\ moved.tier = b.tier
        /\ moved.last_claim = b.last_claim /\ moved.user_nonce = b.user_nonce
        /\ moved.coupons = b.coupons
    BY ZenonT(60), <1>1, <2>2 DEF Books
  <2> HIDE DEF moved
  <2>6. /\ booked \in Books
        /\ booked.float = f /\ booked.owed = w
        /\ booked.deployed = d /\ booked.harvested = h
        /\ booked.records = b.records /\ booked.tier = b.tier
        /\ booked.last_claim = b.last_claim /\ booked.user_nonce = b.user_nonce
        /\ booked.coupons = b.coupons
    BY ZenonT(60), <2>2, <2>5 DEF Books
  <2> HIDE DEF booked
  <2>7. CASE ReplyRejected(p, y)
    <3>1. o.books = moved
      BY <2>3, <2>7, Zenon DEF Err
    <3> QED
      BY <1>1, <2>2, <2>5, <3>1
         DEF GoodBooks, RecordsGood, YieldGood, TierGood, SameButYield
  <2>8. CASE ~ReplyRejected(p, y)
    <3>1. o.books = booked
      BY <2>3, <2>8, Zenon DEF Ok
    <3> QED
      BY <1>1, <2>2, <2>4, <2>6, <2>8, <3>1
         DEF GoodBooks, RecordsGood, YieldGood, TierGood, SameButYield
  <2> QED
    BY <2>7, <2>8, Zenon
<1> QED
  BY <1>1, <1>2, <1>3 DEF recall_principal

\* The outcome of a recall is a result and some books.
LEMMA RecallShape ==
  ASSUME NEW b, NEW p, NEW o \in recall_principal(b, p)
  PROVE  \E c : o \in {Ok(c), Err(c), Trap(c)}
BY ZenonT(60) DEF recall_principal, BookReply

\* ensure_liquidity: the same, the lock apart.
LEMMA LiquidityGood ==
  ASSUME NEW b, NEW s, NEW l, GoodBooks(b, s, l), NEW a \in Int,
         NEW o \in ensure_liquidity(b, a)
  PROVE  /\ GoodBooks(o.books, s, l) /\ SameButYield(b, o.books)
         /\ \E c : o \in {Ok(c), Err(c), Trap(c)}
<1>1. b \in Books /\ b.float \in Int /\ b.deployed \in Int
  BY Zenon DEF GoodBooks, Books
<1>2. CASE o = Ok(b)
  <2>1. o.books = b
    BY <1>2, Zenon DEF Ok
  <2> QED
    BY <1>1, <1>2, <2>1 DEF SameButYield
<1>3. ASSUME NEW x \in recall_principal(b, Least(a - b.float, b.deployed)),
             o = [x EXCEPT !.books.lock = (x.res = "ok") => @]
      PROVE  /\ GoodBooks(o.books, s, l) /\ SameButYield(b, o.books)
             /\ \E c : o \in {Ok(c), Err(c), Trap(c)}
  <2>1. Least(a - b.float, b.deployed) \in Int
    BY <1>1 DEF Least
  <2>2. GoodBooks(x.books, s, l) /\ SameButYield(b, x.books)
    BY <2>1, RecallGood, Zenon
  <2>3. PICK c : x \in {Ok(c), Err(c), Trap(c)}
    BY RecallShape, Zenon
  <2>4. x.books = c
    BY <2>3 DEF Ok, Err, Trap
  <2> DEFINE k == (x.res = "ok") => c.lock
             z == [c EXCEPT !.lock = k]
  <2>5. k \in BOOLEAN
    BY Zenon
  <2>6. o = [x EXCEPT !.books = z]
    BY <1>3, <2>3, <2>4, Zenon DEF Ok, Err, Trap
  <2> HIDE DEF k
  <2>7. o \in {Ok(z), Err(z), Trap(z)}
    BY <2>3, <2>6 DEF Ok, Err, Trap
  <2>8. o.books = z
    BY <2>7 DEF Ok, Err, Trap
  <2>9. /\ z \in Books
        /\ z.float = c.float /\ z.owed = c.owed
        /\ z.deployed = c.deployed /\ z.harvested = c.harvested
        /\ z.records = c.records /\ z.tier = c.tier
        /\ z.last_claim = c.last_claim /\ z.user_nonce = c.user_nonce
        /\ z.coupons = c.coupons
    BY <2>2, <2>4, <2>5, Zenon DEF GoodBooks, Books
  <2> HIDE DEF z
  <2> QED
    BY <2>2, <2>4, <2>7, <2>8, <2>9
       DEF GoodBooks, RecordsGood, YieldGood, TierGood, SameButYield
<1> QED
  BY <1>2, <1>3, Zenon DEF ensure_liquidity

-----------------------------------------------------------------------------
(* The claim path.                                                         *)

\* Every record of new is the one of old or a later one.
AllAdvance(old, new) ==
  \A r \in Refs : new[r] = old[r] \/ Ledger!Advances(old[r], new[r])

\* The state of a rung has the type of its storage entry.
LEMMA TierTyped ==
  ASSUME NEW l \in Seq(MerchantTier), ValidLadder(l), NEW v \in Int
  PROVE  /\ TierState(l, v) \in MerchantTierState
         /\ TierState(l, v).settled_volume = v
<1> DEFINE t == tier_for_volume(l, v)
           f == l[t].fee_bps
           n == next_threshold(l, t)
<1>1. t \in DOMAIN l /\ DOMAIN l = 1..Len(l) /\ Len(l) \in Nat
  BY TierFound DEF TierHolds
<1>2. t \in Nat /\ f \in Nat
  BY <1>1, RungTyped
<1>3. n \in Int
  BY <1>1, RungTyped, BoundAssumption DEF next_threshold
<1>4. TierState(l, v) = [settled_volume |-> v, current_tier |-> t,
                         fee_bps |-> f, next_threshold |-> n]
  BY Zenon DEF TierState
<1> HIDE DEF t, f, n
<1> QED
  BY <1>2, <1>3, <1>4 DEF MerchantTierState

\* Settled: a claim that passed every check leaves good books, and advances
\* the record of its payment.
LEMMA SettledGood ==
  ASSUME cfg \in Config, now \in Nat,
         NEW b, GoodBooks(b, cfg.strategy, cfg.ladder),
         NEW c \in RefundClaim, c.amount > 0, WithinCeiling(b, c),
         b.float >= c.amount
  PROVE  /\ GoodBooks(Settled(b, c), cfg.strategy, cfg.ladder)
         /\ AllAdvance(b.records, Settled(b, c).records)
<1> DEFINE r == c.payment_ref
           old == b.records[r]
           paid == PreviousRefunded(b, r) + c.amount
           top == RecordCeiling(b, c)
<1>1. /\ r \in Refs /\ c.amount \in Nat /\ c.payment_amount \in Int
      /\ c.paid_at_ledger \in Nat
  BY DEF RefundClaim
<1>2. /\ b \in Books /\ b.float \in Int /\ b.nonce \in Nat
      /\ b.records \in [Refs -> RefundRecord \cup {None}]
      /\ b.claimed \in [Refs -> Int] /\ b.ceiling \in [Refs -> Int \cup {None}]
      /\ b.tier \in MerchantTierState \cup {None}
  BY Zenon DEF GoodBooks, Books
<1>3. old # None => old.amount_refunded \in Int /\ old.payment_amount \in Int
                     /\ 0 < old.amount_refunded
  BY <1>1, <1>2, Zenon DEF RefundRecord, GoodBooks, RecordsGood
<1>4. paid \in Int /\ top \in Int /\ paid > 0 /\ paid <= top
  BY <1>1, <1>3 DEF PreviousRefunded, RecordCeiling, WithinCeiling
<1>5. old # None => top = old.payment_amount /\ paid > old.amount_refunded
  BY <1>1, <1>3 DEF PreviousRefunded, RecordCeiling
<1> DEFINE f == b.float - c.amount
           rec == [ amount_refunded |-> paid, payment_amount |-> top,
                    paid_at_ledger |-> c.paid_at_ledger, ledger |-> now ]
           lc == ClaimTime(b)
           n == b.nonce + 1
           t == IF b.tier = None THEN None ELSE on_settled(cfg.ladder, b.tier, c.amount)
           cl == b.claimed[r] + c.amount
           ce == IF b.ceiling[r] = None THEN top ELSE b.ceiling[r]
           z == [b EXCEPT !.float = f, !.records[r] = rec, !.last_claim = lc,
                          !.nonce = n, !.tier = t, !.claimed[r] = cl,
                          !.ceiling[r] = ce]
<1>6. Settled(b, c) = z
  BY Zenon DEF Settled
<1>7. /\ f \in Int /\ f >= 0 /\ lc \in Nat /\ n \in Nat /\ cl \in Int
      /\ ce \in Int \cup {None}
  BY <1>1, <1>2, <1>4 DEF ClaimTime
<1>8. /\ t \in MerchantTierState \cup {None}
      /\ t # None => /\ ValidLadder(cfg.ladder)
                     /\ t.settled_volume \in 0..MaxAmount
                     /\ t = TierState(cfg.ladder, t.settled_volume)
  <2>1. CASE b.tier = None
    BY <2>1, Zenon
  <2>2. CASE b.tier # None
    <3> DEFINE v == b.tier.settled_volume
               w == Least(v + c.amount, MaxAmount)
    <3>1. /\ ValidLadder(cfg.ladder) /\ v \in 0..MaxAmount
          /\ b.tier = TierState(cfg.ladder, v)
      BY <2>2, Zenon DEF GoodBooks, TierGood
    <3>2. cfg.ladder \in Seq(MerchantTier) /\ MaxAmount \in Nat
      BY BoundAssumption, Zenon DEF Config
    <3>3. w \in 0..MaxAmount
      BY <1>1, <3>1, <3>2 DEF Least
    <3> HIDE DEF v
    <3>4. t = TierState(cfg.ladder, w)
      BY ZenonT(60), <1>1, <2>2, <3>1, <3>2, SettledExact
    <3> HIDE DEF w
    <3> QED
      BY <3>1, <3>2, <3>3, <3>4, TierTyped
  <2> QED
    BY <2>1, <2>2, Zenon
<1>9. /\ rec \in RefundRecord /\ rec # None
      /\ rec.amount_refunded = paid /\ rec.payment_amount = top
  <2> HIDE DEF paid, top
  <2> QED
    BY <1>1, <1>4, NoneAssumption DEF RefundRecord
<1> HIDE DEF f, rec, lc, n, t, cl, ce, paid, top
<1>10. /\ z \in Books /\ z.float = f /\ z.tier = t
       /\ z.records = [b.records EXCEPT ![r] = rec]
       /\ z.deployed = b.deployed /\ z.harvested = b.harvested /\ z.owed = b.owed
  BY ZenonT(60), <1>1, <1>2, <1>7, <1>8, <1>9 DEF Books
<1> HIDE DEF z
<1>11. /\ z.records[r] = rec
       /\ \A x \in Refs : x # r => z.records[x] = b.records[x]
  BY <1>1, <1>2, <1>10, Zenon
<1>12. RecordsGood(z)
  BY <1>4, <1>9, <1>11, Zenon DEF RecordsGood, GoodBooks
<1>13. AllAdvance(b.records, z.records)
  BY <1>4, <1>5, <1>9, <1>11, Zenon DEF AllAdvance, Ledger!Advances
<1> QED
  BY <1>6, <1>7, <1>8, <1>10, <1>12, <1>13, Zenon DEF GoodBooks, YieldGood, TierGood

\* A recall inside a claim keeps the claim within its ceiling.
LEMMA CeilingKept ==
  ASSUME NEW b, NEW d, SameButYield(b, d), NEW c, WithinCeiling(b, c)
  PROVE  WithinCeiling(d, c)
BY Zenon DEF SameButYield, WithinCeiling, PreviousRefunded, RecordCeiling

\* Pay either settles the claim or leaves the books as they are.
LEMMA PayShape ==
  ASSUME NEW b, NEW fee_bps, NEW c, b.float \in Int, c.amount \in Int
  PROVE  \/ Pay(b, fee_bps, c) \in {Err(b), Trap(b)}
         \/ b.float >= c.amount /\ Pay(b, fee_bps, c) = Ok(Settled(b, c))
<1> DEFINE fee == refund_fee(c.amount, fee_bps)
<1> HIDE DEF fee
<1>1. Pay(b, fee_bps, c) =
        CASE b.float < c.amount -> Err(b)
          [] b.float >= c.amount /\ fee > 0 /\ active_fee_recipient = Vault -> Err(b)
          [] OTHER -> IF fee > c.amount THEN Trap(b) ELSE Ok(Settled(b, c))
  BY Zenon DEF Pay, fee
<1> QED
  BY <1>1

\* claim_single: whatever the outcome the books stay good and no record goes
\* back; a claim that fails has only recalled principal.
LEMMA ClaimGood ==
  ASSUME cfg \in Config, now \in Nat,
         NEW b, GoodBooks(b, cfg.strategy, cfg.ladder),
         NEW c \in RefundClaim, NEW fee_bps,
         NEW o \in claim_single(b, fee_bps, c)
  PROVE  /\ GoodBooks(o.books, cfg.strategy, cfg.ladder)
         /\ AllAdvance(b.records, o.books.records)
         /\ o.res # "ok" => SameButYield(b, o.books)
<1>1. ASSUME o = Err(b) \/ o = Trap(b)
      PROVE  o.books = b /\ SameButYield(b, o.books)
  BY <1>1 DEF Err, Trap, SameButYield, GoodBooks, Books
<1>2. ASSUME c.amount > 0, WithinCeiling(b, c),
             NEW l \in ensure_liquidity(b, c.amount),
             o = IF l.res = "ok" THEN Pay(l.books, fee_bps, c) ELSE l
      PROVE  /\ GoodBooks(o.books, cfg.strategy, cfg.ladder)
             /\ AllAdvance(b.records, o.books.records)
             /\ o.res # "ok" => SameButYield(b, o.books)
  <2>1. c.amount \in Int
    BY Zenon DEF RefundClaim
  <2>2. GoodBooks(l.books, cfg.strategy, cfg.ladder) /\ SameButYield(b, l.books)
    BY <1>2, <2>1, LiquidityGood, Zenon
  <2>3. AllAdvance(b.records, l.books.records)
    BY <2>2, Zenon DEF SameButYield, AllAdvance
  <2>4. CASE o = l
    BY <2>2, <2>3, <2>4, Zenon
  <2>5. CASE o \in {Err(l.books), Trap(l.books)}
    <3>1. o.books = l.books
      BY <2>5 DEF Err, Trap
    <3> QED
      BY <2>2, <2>3, <3>1, Zenon
  <2>6. CASE l.books.float >= c.amount /\ o = Ok(Settled(l.books, c))
    <3>1. WithinCeiling(l.books, c)
      BY <1>2, <2>2, CeilingKept, Zenon
    <3>2. /\ GoodBooks(Settled(l.books, c), cfg.strategy, cfg.ladder)
          /\ AllAdvance(l.books.records, Settled(l.books, c).records)
      BY <1>2, <2>2, <2>6, <3>1, SettledGood, Zenon
    <3>3. o.books = Settled(l.books, c) /\ o.res = "ok"
      BY <2>6, Zenon DEF Ok
    <3>4. l.books.records = b.records
      BY <2>2, Zenon DEF SameButYield
    <3> QED
      BY <3>2, <3>3, <3>4, Zenon
  <2>7. l.books.float \in Int
    BY <2>2, Zenon DEF GoodBooks, Books
  <2> QED
    BY <1>2, <2>1, <2>4, <2>5, <2>6, <2>7, PayShape, Zenon
<1>3. c.amount \in Int
  BY DEF RefundClaim
<1>4. \/ o = Err(b) \/ o = Trap(b)
      \/ /\ c.amount > 0 /\ WithinCeiling(b, c)
         /\ \E l \in ensure_liquidity(b, c.amount) :
              o = IF l.res = "ok" THEN Pay(l.books, fee_bps, c) ELSE l
  BY SMTT(30), <1>3 DEF claim_single
<1> QED
  BY <1>1, <1>2, <1>4, Zenon DEF AllAdvance

-----------------------------------------------------------------------------
(* The inductive invariant.                                                *)

\* A batch in flight may still be reverted to good books, runs while the
\* vault is not paused, and has only advanced records.
TxGood ==
  /\ tx \in Batch \cup {None}
  /\ tx # None => /\ GoodBooks(tx.saved, cfg.strategy, cfg.ladder)
                  /\ ~cfg.paused
                  /\ AllAdvance(tx.saved.records, books.records)

\* The pending policy is the latest proposal.
ProposalGood ==
  /\ proposed \in Proposal \cup {None}
  /\ cfg.pending_policy # None =>
       /\ proposed # None
       /\ proposed.policy = cfg.pending_policy.policy
       /\ proposed.ledger = cfg.pending_policy.proposed_at_ledger

VaultInv ==
  /\ now \in 0..MaxLedger
  /\ cfg \in Config
  /\ GoodBooks(books, cfg.strategy, cfg.ladder)
  /\ cfg.strategy # None => cfg.strategy \in cfg.approved
  /\ TxGood
  /\ ProposalGood

\* The constructor leaves the vault in the invariant.
LEMMA InitGood == Init => VaultInv
<1> SUFFICES ASSUME NEW init \in VaultInits, NEW m \in Merchants, NEW t \in Tokens,
                    now = 0,
                    cfg = [ admin |-> m, pending_admin |-> None, paused |-> FALSE,
                      policy |-> init.policy, pending_policy |-> None,
                      time_policy |-> init.time_policy, vdf_policy |-> init.vdf_policy,
                      oracle_policy |-> FALSE, cooldown |-> 0,
                      fee_bps |-> init.fee_bps, fee_recipient |-> init.fee_recipient,
                      ladder |-> <<>>, dust_threshold |-> 100, dust_treasury |-> None,
                      token |-> t, approved |-> {}, strategy |-> None,
                      reserve_ratio |-> 0, max_deploy_ratio |-> BPS ],
                    books = [ float |-> 0, records |-> [r \in Refs |-> None],
                      user_nonce |-> [a \in Merchants |-> 0], nonce |-> 0,
                      last_claim |-> 0, tier |-> None, deployed |-> 0,
                      harvested |-> 0, lock |-> FALSE, owed |-> 0,
                      coupons |-> [c \in CouponIds |-> None],
                      claimed |-> [r \in Refs |-> 0],
                      ceiling |-> [r \in Refs |-> None],
                      accepted |-> [a \in Merchants |-> {}] ],
                    tx = None, proposed = None
             PROVE  VaultInv
  BY DEF Init
<1>1. /\ init.policy \in Policy /\ init.time_policy \in BOOLEAN
      /\ init.vdf_policy \in BOOLEAN /\ init.fee_bps \in Nat
      /\ init.fee_recipient \in Addresses \cup {None}
  BY InputAssumption, Zenon DEF VaultInit
<1>2. BPS \in Nat /\ <<>> \in Seq(MerchantTier)
  BY SMTT(30) DEF BPS
<1>3. cfg \in Config
  <2> HIDE DEF Policy, Addresses
  <2> QED
    BY <1>1, <1>2 DEF Config
<1>4. books \in Books
  BY DEF Books
<1>5. GoodBooks(books, cfg.strategy, cfg.ladder)
  BY <1>4 DEF GoodBooks, RecordsGood, YieldGood, TierGood
<1> QED
  BY SMTT(30), <1>3, <1>5, BoundAssumption DEF VaultInv, TxGood, ProposalGood

\* An entry point that writes only the configuration keeps the invariant when
\* the books fit the new strategy and ladder.
LEMMA ConfigureKeeps ==
  ASSUME VaultInv, NEW c \in Config, Configure(c),
         GoodBooks(books, c.strategy, c.ladder),
         c.strategy # None => c.strategy \in c.approved,
         c.pending_policy \in {cfg.pending_policy, None}
  PROVE  VaultInv'
BY Zenon DEF VaultInv, Configure, Idle, TxGood, ProposalGood

\* An entry point that writes only the books keeps the invariant when it
\* leaves them good.
LEMMA BooksKeeps ==
  ASSUME VaultInv, Idle, OnlyBooksChange,
         GoodBooks(books', cfg.strategy, cfg.ladder)
  PROVE  VaultInv'
BY Zenon DEF VaultInv, OnlyBooksChange, Idle, TxGood, ProposalGood

\* In particular when it leaves the strategies, the ladder and the pending
\* policy as they are.
LEMMA SettingKeeps ==
  ASSUME VaultInv, NEW c \in Config, Configure(c),
         c.strategy = cfg.strategy, c.ladder = cfg.ladder,
         c.approved = cfg.approved, c.pending_policy = cfg.pending_policy
  PROVE  VaultInv'
BY ConfigureKeeps, Zenon DEF VaultInv

\* The administration and its settings.
LEMMA SettingStepsGood ==
  ASSUME VaultInv,
         AdminStep \/ TokenStep \/ FeeStep \/ GateStep \/ ContractStep \/ RatioStep
           \/ (\E t \in DustThresholds, a \in Others \cup {Vault} : set_dust_config(t, a))
  PROVE  VaultInv'
<1>1. cfg \in Config
  BY Zenon DEF VaultInv
<1>2. CASE pause \/ unpause
  BY ZenonT(60), <1>1, <1>2, SettingKeeps DEF pause, unpause, Config
<1>3. ASSUME NEW a \in Merchants, transfer_admin(a)  PROVE VaultInv'
  BY <1>1, <1>3, SettingKeeps, Zenon DEF transfer_admin, Config
<1>4. CASE accept_admin
  BY ZenonT(60), <1>1, <1>4, SettingKeeps DEF accept_admin, Config
<1>5. CASE cancel_admin_transfer
  BY <1>1, <1>5, SettingKeeps DEF cancel_admin_transfer, Config
<1>6. ASSUME NEW t \in Tokens, set_token(t)  PROVE VaultInv'
  BY <1>1, <1>6, SettingKeeps DEF set_token, Config
<1>7. ASSUME NEW x \in FeeRates, set_fee_bps(x)  PROVE VaultInv'
  BY SMTT(30), <1>1, <1>7, SettingKeeps, InputAssumption DEF set_fee_bps, Config
<1>8. ASSUME NEW a \in Others \cup {Vault}, set_fee_recipient(a)  PROVE VaultInv'
  BY <1>1, <1>8, SettingKeeps DEF set_fee_recipient, Config, Addresses
<1>9. ASSUME NEW x \in Cooldowns, set_claim_cooldown(x)  PROVE VaultInv'
  BY SMTT(30), <1>1, <1>9, SettingKeeps, InputAssumption DEF set_claim_cooldown, Config
<1>10. CASE set_oracle_policy \/ clear_oracle_policy
  <2>1. CASE set_oracle_policy
    BY ZenonT(60), <1>1, <2>1, SettingKeeps DEF set_oracle_policy, Config
  <2>2. CASE clear_oracle_policy
    BY ZenonT(60), <1>1, <2>2, SettingKeeps DEF clear_oracle_policy, Config
  <2> QED
    BY <1>10, <2>1, <2>2, Zenon
<1>11. ASSUME NEW x \in BOOLEAN,
              set_time_policy_contract(x) \/ set_vdf_policy_contract(x)
       PROVE  VaultInv'
  BY <1>1, <1>11, SettingKeeps
     DEF set_time_policy_contract, set_vdf_policy_contract, Config
<1>12. ASSUME NEW x \in Ratios, set_reserve_ratio(x) \/ set_max_deploy_ratio(x)
       PROVE  VaultInv'
  BY SMTT(60), <1>1, <1>12, SettingKeeps, InputAssumption
     DEF set_reserve_ratio, set_max_deploy_ratio, Config
<1>13. ASSUME NEW t \in DustThresholds, NEW a \in Others \cup {Vault},
              set_dust_config(t, a)
       PROVE  VaultInv'
  <2>1. t \in Int /\ a \in Addresses
    BY InputAssumption, Zenon DEF Addresses
  <2> DEFINE c == [cfg EXCEPT !.dust_threshold = t, !.dust_treasury = a]
  <2>2. /\ c \in Config /\ c.strategy = cfg.strategy /\ c.ladder = cfg.ladder
        /\ c.approved = cfg.approved /\ c.pending_policy = cfg.pending_policy
    BY ZenonT(60), <1>1, <2>1 DEF Config
  <2>3. Configure(c)
    BY ZenonT(60), <1>13 DEF set_dust_config
  <2> QED
    BY ZenonT(60), <2>2, <2>3, SettingKeeps
<1> QED
  BY <1>2, <1>3, <1>4, <1>5, <1>6, <1>7, <1>8, <1>9, <1>10, <1>11, <1>12, <1>13
     DEF AdminStep, TokenStep, FeeStep, GateStep, ContractStep, RatioStep

\* Policy proposals.
LEMMA PolicyStepGood == VaultInv /\ PolicyStep => VaultInv'
<1> SUFFICES ASSUME VaultInv, PolicyStep  PROVE VaultInv'
  BY Zenon
<1>1. cfg \in Config
  BY Zenon DEF VaultInv
<1>2. ASSUME NEW p \in Policies, propose_policy(p)  PROVE VaultInv'
  <2>1. p \in Policy /\ now \in Nat
    BY InputAssumption DEF VaultInv
  <2>2. [policy |-> p, proposed_at_ledger |-> now]
          \in [policy : Policy, proposed_at_ledger : Nat]
    BY <2>1, Zenon
  <2> DEFINE pp == [policy |-> p, proposed_at_ledger |-> now]
  <2>3. pp.policy = p /\ pp.proposed_at_ledger = now
    BY Zenon
  <2>4. cfg' = [cfg EXCEPT !.pending_policy = pp]
    BY <1>2, Zenon DEF propose_policy
  <2> HIDE DEF pp
  <2>5. /\ cfg' \in Config /\ cfg'.strategy = cfg.strategy
        /\ cfg'.ladder = cfg.ladder /\ cfg'.approved = cfg.approved
        /\ cfg'.pending_policy = pp
    BY <1>1, <2>2, <2>4, Zenon DEF Config, pp
  <2>6. proposed' = [policy |-> p, ledger |-> now] /\ UNCHANGED <<now, books, tx>>
        /\ tx = None
    BY <1>2, Zenon DEF propose_policy, Idle
  <2>7. ProposalGood'
    <3>1. proposed' \in Proposal /\ proposed' # None
      BY <2>1, <2>6, NoneAssumption DEF Proposal
    <3>2. cfg'.pending_policy.policy = p /\ cfg'.pending_policy.proposed_at_ledger = now
      BY <2>3, <2>5, Zenon
    <3>3. proposed'.policy = p /\ proposed'.ledger = now
      BY <2>6, Zenon
    <3> QED
      BY <3>1, <3>2, <3>3, Zenon DEF ProposalGood
  <2> QED
    BY <2>5, <2>6, <2>7, Zenon DEF VaultInv, TxGood
<1>3. CASE execute_policy
  <2> DEFINE p == cfg.pending_policy.policy
             c == [cfg EXCEPT !.policy = p, !.pending_policy = None]
  <2>1. p \in Policy
    BY <1>1, <1>3, Zenon DEF execute_policy, Config
  <2>2. Configure(c)
    BY <1>3, Zenon DEF execute_policy
  <2> HIDE DEF p
  <2>3. /\ c \in Config /\ c.strategy = cfg.strategy /\ c.ladder = cfg.ladder
        /\ c.approved = cfg.approved /\ c.pending_policy = None
    BY ZenonT(60), <1>1, <2>1 DEF Config
  <2> HIDE DEF c
  <2> QED
    BY <2>2, <2>3, ConfigureKeeps, Zenon DEF VaultInv
<1> QED
  BY <1>2, <1>3, Zenon DEF PolicyStep

-----------------------------------------------------------------------------
(* The float.                                                              *)

\* A new float and a new event nonce leave the books good.
LEMMA FloatGood ==
  ASSUME NEW b, NEW s, NEW l, GoodBooks(b, s, l), NEW f \in Nat, NEW n \in Nat
  PROVE  GoodBooks([b EXCEPT !.float = f, !.nonce = n], s, l)
<1> DEFINE z == [b EXCEPT !.float = f, !.nonce = n]
<1>0. b \in Books /\ f \in Int
  BY DEF GoodBooks
<1>1. /\ z \in Books /\ z.float = f /\ z.records = b.records /\ z.tier = b.tier
      /\ z.deployed = b.deployed /\ z.harvested = b.harvested /\ z.owed = b.owed
  BY ZenonT(60), <1>0 DEF Books
<1> HIDE DEF z
<1>2. GoodBooks(z, s, l)
  BY <1>0, <1>1 DEF GoodBooks, RecordsGood, YieldGood, TierGood
<1> QED
  BY <1>2, Zenon DEF z

\* Deposits and withdrawals.
LEMMA FloatStepGood == VaultInv /\ FloatStep => VaultInv'
<1> SUFFICES ASSUME VaultInv, FloatStep  PROVE VaultInv'
  OBVIOUS
<1>1. /\ GoodBooks(books, cfg.strategy, cfg.ladder) /\ books \in Books
      /\ books.float \in Nat /\ books.nonce \in Nat
  BY DEF VaultInv, GoodBooks, Books
<1>2. ASSUME NEW a \in Deposits, deposit(a)  PROVE VaultInv'
  <2>1. books.float + a \in Nat /\ books.nonce + 1 \in Nat
    BY <1>1, <1>2, InputAssumption DEF deposit
  <2>2. books' = [books EXCEPT !.float = books.float + a, !.nonce = books.nonce + 1]
    BY <1>2, Zenon DEF deposit
  <2>3. GoodBooks(books', cfg.strategy, cfg.ladder)
    BY ZenonT(60), <1>1, <2>1, <2>2, FloatGood
  <2> QED
    BY <1>2, <2>3, BooksKeeps, Zenon DEF deposit, Moving
<1>3. ASSUME NEW a \in Withdrawals, withdraw(a)  PROVE VaultInv'
  <2>1. a \in Int /\ a > 0
    BY <1>3, InputAssumption, Zenon DEF withdraw
  <2>2. PICK o \in ensure_liquidity(books, a) :
           /\ o.books.float >= a
           /\ books' = [o.books EXCEPT !.float = o.books.float - a,
                                       !.nonce = o.books.nonce + 1]
    BY ZenonT(60), <1>3 DEF withdraw
  <2>3. GoodBooks(o.books, cfg.strategy, cfg.ladder)
    BY <1>1, <2>1, LiquidityGood, Zenon
  <2>4. o.books.float \in Int /\ o.books.nonce \in Nat
    BY <2>3, Zenon DEF GoodBooks, Books
  <2>5. o.books.float - a \in Nat /\ o.books.nonce + 1 \in Nat
    BY <2>1, <2>2, <2>4
  <2>6. GoodBooks(books', cfg.strategy, cfg.ladder)
    BY ZenonT(60), <2>2, <2>3, <2>5, FloatGood
  <2> QED
    BY <1>3, <2>6, BooksKeeps, Zenon DEF withdraw, Moving
<1> QED
  BY <1>2, <1>3, Zenon DEF FloatStep

\* A new coupon or a redeemed one leaves the books good.
LEMMA CouponGood ==
  ASSUME NEW b, NEW s, NEW l, GoodBooks(b, s, l), NEW id \in CouponIds,
         NEW c \in CouponRecord
  PROVE  GoodBooks([b EXCEPT !.coupons[id] = c], s, l)
<1> DEFINE z == [b EXCEPT !.coupons[id] = c]
<1>1. /\ z \in Books /\ z.float = b.float /\ z.records = b.records /\ z.tier = b.tier
      /\ z.deployed = b.deployed /\ z.harvested = b.harvested /\ z.owed = b.owed
  BY Zenon DEF GoodBooks, Books
<1> HIDE DEF z
<1>2. GoodBooks(z, s, l)
  BY <1>1, Zenon DEF GoodBooks, RecordsGood, YieldGood, TierGood
<1> QED
  BY <1>2, Zenon DEF z

\* Minting a coupon and redeeming it with a deposit keep the invariant.
LEMMA CouponStepGood == VaultInv /\ CouponStep => VaultInv'
<1> SUFFICES ASSUME VaultInv, CouponStep  PROVE VaultInv'
  OBVIOUS
<1>1. /\ GoodBooks(books, cfg.strategy, cfg.ladder) /\ books \in Books
      /\ books.float \in Nat /\ books.nonce \in Nat
      /\ books.coupons \in [CouponIds -> CouponRecord \cup {None}]
  BY DEF VaultInv, GoodBooks, Books
<1>2. ASSUME NEW id \in CouponIds, NEW m \in Merchants, NEW d \in Discounts,
             mint_coupon(id, m, d)
      PROVE  VaultInv'
  <2> DEFINE c == [owner |-> m, discount_bps |-> d, redeemed |-> FALSE]
  <2>1. d \in 0..MAX_COUPON_DISCOUNT_BPS
    BY <1>2, InputAssumption, BoundAssumption DEF mint_coupon
  <2>2. c \in CouponRecord
    BY <2>1, Zenon DEF CouponRecord
  <2>3. GoodBooks(books', cfg.strategy, cfg.ladder)
    BY ZenonT(60), <1>1, <1>2, <2>2, CouponGood DEF mint_coupon
  <2> QED
    BY <1>2, <2>3, BooksKeeps, Zenon DEF mint_coupon
<1>3. ASSUME NEW a \in Deposits, NEW id \in CouponIds, deposit_with_coupon(a, id)
      PROVE  VaultInv'
  <2> DEFINE c == books.coupons[id]
             e == [c EXCEPT !.redeemed = TRUE]
             f == books.float + apply_coupon(a, c.discount_bps)
             n == books.nonce + 1
  <2>1. c \in CouponRecord /\ a \in Nat
    BY <1>1, <1>3, InputAssumption DEF deposit_with_coupon
  <2>2. c.discount_bps \in 0..BPS
    <3>1. c.discount_bps \in 0..MAX_COUPON_DISCOUNT_BPS
      BY <2>1, Zenon DEF CouponRecord
    <3>2. MAX_COUPON_DISCOUNT_BPS \in 0..BPS
      BY BoundAssumption
    <3>3. BPS \in Nat
      BY DEF BPS
    <3> QED
      BY <3>1, <3>2, <3>3
  <2>3. e \in CouponRecord
    BY ZenonT(60), <2>1 DEF CouponRecord
  <2>4. f \in Int /\ f >= 0 /\ n \in Nat
    <3>1. apply_coupon(a, c.discount_bps) \in Nat
      BY <2>1, <2>2, CouponNat, Zenon
    <3> QED
      BY SMTT(60), <1>1, <3>1
  <2>5. books' = [books EXCEPT !.float = f, !.coupons[id] = e, !.nonce = n]
    BY <1>3 DEF deposit_with_coupon
  <2> HIDE DEF f, n, e
  <2>6. /\ books' \in Books /\ books'.float = f /\ books'.records = books.records
        /\ books'.tier = books.tier /\ books'.deployed = books.deployed
        /\ books'.harvested = books.harvested /\ books'.owed = books.owed
    BY ZenonT(60), <1>1, <2>3, <2>4, <2>5 DEF Books
  <2>7. GoodBooks(books', cfg.strategy, cfg.ladder)
    BY ZenonT(60), <1>1, <2>4, <2>6 DEF GoodBooks, RecordsGood, YieldGood, TierGood
  <2> QED
    BY <1>3, <2>7, BooksKeeps, Zenon DEF deposit_with_coupon, Moving
<1> QED
  BY <1>2, <1>3, Zenon DEF CouponStep

\* sweep_dust pays the residual of a record from the float and deletes it.
LEMMA SweepGood == VaultInv /\ (\E r \in Refs : sweep_dust(r)) => VaultInv'
<1> SUFFICES ASSUME VaultInv, NEW r \in Refs, sweep_dust(r)  PROVE VaultInv'
  BY Zenon
<1> DEFINE rec == books.records[r]
           f == books.float - Residual(rec)
<1>1. /\ GoodBooks(books, cfg.strategy, cfg.ladder) /\ books \in Books
      /\ books.float \in Int /\ books.float >= 0
      /\ books.records \in [Refs -> RefundRecord \cup {None}]
  BY ZenonT(60) DEF VaultInv, GoodBooks, Books
<1>2. rec \in RefundRecord
  BY <1>1, Zenon DEF sweep_dust
<1>3. Residual(rec) \in Int /\ Residual(rec) >= 0
  BY <1>2 DEF sweep_dust, Residual, RefundRecord
<1>4. f \in Int /\ f >= 0
  BY <1>1, <1>3 DEF sweep_dust, SweepFunded
<1>5. books' = [books EXCEPT !.float = f, !.records[r] = None]
  BY Zenon DEF sweep_dust
<1> HIDE DEF f
<1>6. /\ books' \in Books /\ books'.float = f
      /\ books'.records = [books.records EXCEPT ![r] = None]
      /\ books'.tier = books.tier /\ books'.deployed = books.deployed
      /\ books'.harvested = books.harvested /\ books'.owed = books.owed
  BY ZenonT(60), <1>1, <1>4, <1>5 DEF Books
<1>7. RecordsGood(books')
  BY ZenonT(60), <1>1, <1>6 DEF GoodBooks, RecordsGood
<1>8. GoodBooks(books', cfg.strategy, cfg.ladder)
  BY ZenonT(60), <1>1, <1>4, <1>6, <1>7 DEF GoodBooks, YieldGood, TierGood
<1> QED
  BY <1>8, BooksKeeps, Zenon DEF sweep_dust

\* A flash loan comes back with its premium.
LEMMA FlashStepGood == VaultInv /\ FlashStep => VaultInv'
<1> SUFFICES ASSUME VaultInv, NEW x \in FlashLoans, flash_loan(x.amount, x.repaid)
             PROVE  VaultInv'
  BY Zenon DEF FlashStep
<1>1. x.amount \in Nat /\ x.repaid \in Int
  BY InputAssumption DEF flash_loan
<1> DEFINE fee == refund_fee(x.amount, FLASH_LOAN_FEE_BPS)
           kept == IF active_fee_recipient # Vault THEN 0 ELSE fee
           f == books.float - x.amount + x.repaid - fee + kept
<1>2. fee \in Nat /\ kept \in Nat
  BY ZenonT(60), <1>1, BoundAssumption, FeeNat
<1>3. /\ GoodBooks(books, cfg.strategy, cfg.ladder) /\ books \in Books
      /\ books.float \in Int /\ books.float >= 0
  BY ZenonT(60) DEF VaultInv, GoodBooks, Books
<1>4. x.amount <= books.float /\ x.repaid >= x.amount + fee
  BY Zenon DEF flash_loan, Repaid
<1>5. books' = [books EXCEPT !.float = f]
  BY Zenon DEF flash_loan
<1> HIDE DEF fee, kept
<1>6. f \in Int /\ f >= 0
  BY <1>1, <1>2, <1>3, <1>4
<1> HIDE DEF f
<1>7. /\ books' \in Books /\ books'.float = f /\ books'.records = books.records
      /\ books'.tier = books.tier /\ books'.deployed = books.deployed
      /\ books'.harvested = books.harvested /\ books'.owed = books.owed
  BY <1>3, <1>5, <1>6, Zenon DEF Books
<1>8. GoodBooks(books', cfg.strategy, cfg.ladder)
  BY ZenonT(60), <1>3, <1>6, <1>7 DEF GoodBooks, RecordsGood, YieldGood, TierGood
<1> QED
  BY <1>8, BooksKeeps, Zenon DEF flash_loan

\* Changing the ladder recomputes the merchant's rung.
LEMMA LadderStepGood == VaultInv /\ LadderStep => VaultInv'
<1> SUFFICES ASSUME VaultInv, LadderStep  PROVE VaultInv'
  OBVIOUS
<1>1. /\ GoodBooks(books, cfg.strategy, cfg.ladder) /\ books \in Books
      /\ cfg \in Config /\ books.tier \in MerchantTierState \cup {None}
  BY ZenonT(60) DEF VaultInv, GoodBooks, Books
<1>2. ASSUME NEW l \in Seq(MerchantTier), NEW t \in MerchantTierState \cup {None},
             t # None => /\ ValidLadder(l)
                         /\ t.settled_volume \in 0..MaxAmount
                         /\ t = TierState(l, t.settled_volume),
             Idle, cfg' = [cfg EXCEPT !.ladder = l],
             books' = [books EXCEPT !.tier = t], UNCHANGED <<now, tx, proposed>>
      PROVE  VaultInv'
  <2>1. /\ cfg' \in Config /\ cfg'.strategy = cfg.strategy /\ cfg'.ladder = l
        /\ cfg'.approved = cfg.approved /\ cfg'.pending_policy = cfg.pending_policy
    BY ZenonT(60), <1>1, <1>2 DEF Config
  <2>2. /\ books' \in Books /\ books'.float = books.float
        /\ books'.records = books.records /\ books'.tier = t
        /\ books'.deployed = books.deployed
        /\ books'.harvested = books.harvested /\ books'.owed = books.owed
    BY ZenonT(60), <1>1, <1>2 DEF Books
  <2>3. GoodBooks(books', cfg'.strategy, cfg'.ladder)
    BY <1>1, <1>2, <2>1, <2>2, Zenon DEF GoodBooks, RecordsGood, YieldGood, TierGood
  <2> QED
    BY <1>2, <2>1, <2>3, Zenon DEF VaultInv, TxGood, ProposalGood, Idle
<1>3. ASSUME NEW l \in Ladders, set_tier_ladder(l)  PROVE VaultInv'
  <2> DEFINE v == IF books.tier = None THEN 0 ELSE books.tier.settled_volume
             t == TierState(l, v)
  <2>1. v \in 0..MaxAmount
    BY SMTT(60), <1>1, BoundAssumption DEF GoodBooks, TierGood
  <2>2. l \in Seq(MerchantTier) /\ ValidLadder(l)
    BY <1>3, InputAssumption, Zenon DEF set_tier_ladder
  <2>3. books' = [books EXCEPT !.tier = t]
    BY <1>3 DEF set_tier_ladder
  <2> HIDE DEF v
  <2>4. t \in MerchantTierState /\ t.settled_volume = v
    BY <2>1, <2>2, TierTyped, BoundAssumption
  <2> QED
    BY SMTT(30), <1>2, <1>3, <2>1, <2>2, <2>3, <2>4 DEF set_tier_ladder
<1>4. CASE clear_tier_ladder
  <2>1. <<>> \in Seq(MerchantTier)
    OBVIOUS
  <2> QED
    BY ZenonT(60), <1>2, <1>4, <2>1 DEF clear_tier_ladder
<1> QED
  BY <1>3, <1>4 DEF LadderStep

-----------------------------------------------------------------------------
(* The yield strategy.                                                     *)

\* Approving, revoking and activating strategies: one that holds principal
\* stays active.
LEMMA StrategyStepGood ==
  ASSUME VaultInv, NEW s \in Strategies,
         approve_yield_strategy(s) \/ revoke_yield_strategy(s) \/ set_yield_strategy(s)
  PROVE  VaultInv'
<1>1. /\ GoodBooks(books, cfg.strategy, cfg.ladder) /\ books.deployed \in Int
      /\ cfg \in Config
      /\ cfg.strategy # None => cfg.strategy \in cfg.approved
      /\ cfg.approved \in SUBSET Strategies
  BY ZenonT(60) DEF VaultInv, GoodBooks, Books, Config
<1>2. ASSUME NEW a \in SUBSET Strategies, NEW x \in Strategies \cup {None},
             books.deployed > 0 => x # None, x # None => x \in a,
             Configure([cfg EXCEPT !.approved = a, !.strategy = x])
      PROVE  VaultInv'
  <2> DEFINE c == [cfg EXCEPT !.approved = a, !.strategy = x]
  <2>1. /\ c \in Config /\ c.approved = a /\ c.strategy = x
        /\ c.ladder = cfg.ladder /\ c.pending_policy = cfg.pending_policy
    BY ZenonT(60), <1>1 DEF Config
  <2>2. GoodBooks(books, x, cfg.ladder)
    BY ZenonT(60), <1>1, <1>2 DEF GoodBooks, YieldGood
  <2> QED
    BY ZenonT(60), <1>2, <2>1, <2>2, ConfigureKeeps
<1>3. CASE approve_yield_strategy(s)
  <2> DEFINE a == cfg.approved \cup {s}
             c == [cfg EXCEPT !.approved = a]
  <2>1. a \in SUBSET Strategies /\ Configure(c)
    BY <1>1, <1>3, Zenon DEF approve_yield_strategy
  <2>2. cfg.strategy # None => cfg.strategy \in a
    BY ZenonT(60), <1>1
  <2> HIDE DEF a
  <2>3. /\ c \in Config /\ c.approved = a /\ c.strategy = cfg.strategy
        /\ c.ladder = cfg.ladder /\ c.pending_policy = cfg.pending_policy
    BY ZenonT(60), <1>1, <2>1 DEF Config
  <2> HIDE DEF c
  <2> QED
    BY ZenonT(60), <1>1, <2>1, <2>2, <2>3, ConfigureKeeps
<1>4. CASE revoke_yield_strategy(s)
  <2> DEFINE x == IF cfg.strategy = s THEN None ELSE cfg.strategy
  <2>1. x \in Strategies \cup {None}
    BY <1>1, Zenon DEF Config
  <2>2. books.deployed > 0 => x # None
    BY <1>1, <1>4 DEF revoke_yield_strategy, GoodBooks, YieldGood
  <2>3. x # None => x \in cfg.approved \ {s}
    BY <1>1, Zenon
  <2>4. Configure([cfg EXCEPT !.approved = cfg.approved \ {s}, !.strategy = x])
    BY <1>4, Zenon DEF revoke_yield_strategy
  <2> QED
    BY ZenonT(60), <1>1, <1>2, <2>1, <2>2, <2>3, <2>4
<1>5. CASE set_yield_strategy(s)
  <2> DEFINE c == [cfg EXCEPT !.strategy = s]
  <2>1. s # None /\ s \in cfg.approved /\ Configure(c)
    BY <1>5, NoneAssumption, Zenon DEF set_yield_strategy
  <2>2. /\ c \in Config /\ c.approved = cfg.approved /\ c.strategy = s
        /\ c.ladder = cfg.ladder /\ c.pending_policy = cfg.pending_policy
    BY <1>1 DEF Config
  <2>3. GoodBooks(books, s, cfg.ladder)
    BY <1>1, <2>1, Zenon DEF GoodBooks, YieldGood
  <2> QED
    BY ZenonT(60), <2>1, <2>2, <2>3, ConfigureKeeps
<1> QED
  BY <1>3, <1>4, <1>5, Zenon

\* An explicit recall, by withdraw_from_yield or by the emergency exit.
LEMMA RecallStepGood ==
  ASSUME VaultInv, NEW p \in Int, RecallStep(p)
  PROVE  VaultInv'
<1>1. GoodBooks(books, cfg.strategy, cfg.ladder)
  BY Zenon DEF VaultInv
<1>2. PICK o \in recall_principal(books, p) : books' = o.books
  BY Zenon DEF RecallStep
<1>3. GoodBooks(books', cfg.strategy, cfg.ladder)
  BY <1>1, <1>2, RecallGood, Zenon
<1> QED
  BY <1>3, BooksKeeps, Zenon DEF RecallStep, Moving

\* Deploying, harvesting and distributing.
LEMMA YieldStepGood == VaultInv /\ YieldStep => VaultInv'
<1> SUFFICES ASSUME VaultInv, YieldStep  PROVE VaultInv'
  OBVIOUS
<1>1. /\ GoodBooks(books, cfg.strategy, cfg.ladder) /\ books \in Books
      /\ books.float \in Int /\ books.deployed \in Int /\ books.harvested \in Int
      /\ books.owed \in Int /\ books.nonce \in Nat
  BY ZenonT(60) DEF VaultInv, GoodBooks, Books
<1>2. ASSUME NEW f \in Int, NEW d \in Int, NEW h \in Int, NEW w \in Int,
             f >= 0, d >= 0, h >= 0, d >= w, d > 0 => cfg.strategy # None,
             books'.float = f, books'.deployed = d, books'.harvested = h,
             books'.owed = w, books' \in Books, books'.records = books.records,
             books'.tier = books.tier, Idle, OnlyBooksChange
      PROVE  VaultInv'
  <2>1. GoodBooks(books', cfg.strategy, cfg.ladder)
    BY ZenonT(60), <1>1, <1>2 DEF GoodBooks, RecordsGood, YieldGood, TierGood
  <2> QED
    BY ZenonT(60), <1>2, <2>1, BooksKeeps
<1>3. ASSUME NEW a \in Deployments, deploy_to_yield(a)  PROVE VaultInv'
  <2> DEFINE f == books.float - a
             d == books.deployed + a
             w == books.owed + a
             n == books.nonce + 1
  <2>1. a \in Int /\ a > 0 /\ books.float >= a /\ cfg.strategy # None
    BY <1>3, InputAssumption, Zenon DEF deploy_to_yield
  <2>2. /\ f \in Int /\ d \in Int /\ w \in Int /\ n \in Nat
        /\ f >= 0 /\ d >= 0 /\ d >= w /\ books.harvested >= 0
    BY <1>1, <2>1 DEF GoodBooks, YieldGood
  <2>3. books' = [books EXCEPT !.float = f, !.deployed = d, !.owed = w, !.nonce = n]
    BY <1>3, Zenon DEF deploy_to_yield
  <2> HIDE DEF f, d, w, n
  <2>4. /\ books' \in Books /\ books'.float = f /\ books'.deployed = d
        /\ books'.harvested = books.harvested /\ books'.owed = w
        /\ books'.records = books.records /\ books'.tier = books.tier
    BY ZenonT(60), <1>1, <2>2, <2>3 DEF Books
  <2> QED
    BY <1>1, <1>2, <1>3, <2>1, <2>2, <2>4 DEF deploy_to_yield, Moving
<1>4. ASSUME NEW y \in Replies, harvest_yield(y.yield, y.paid)  PROVE VaultInv'
  <2> DEFINE f == books.float + y.paid
             h == books.harvested + y.yield
             n == books.nonce + 1
  <2>1. y.yield \in Int /\ y.yield > 0 /\ y.paid \in Nat
    BY <1>4, InputAssumption, Zenon DEF harvest_yield, StrategyReply
  <2>2. /\ f \in Int /\ h \in Int /\ n \in Nat /\ f >= 0 /\ h >= 0
        /\ books.deployed >= 0 /\ books.deployed >= books.owed
        /\ books.deployed > 0 => cfg.strategy # None
    BY <1>1, <2>1 DEF GoodBooks, YieldGood
  <2>3. books' = [books EXCEPT !.float = f, !.harvested = h, !.nonce = n]
    BY <1>4, Zenon DEF harvest_yield
  <2> HIDE DEF f, h, n
  <2>4. /\ books' \in Books /\ books'.float = f /\ books'.deployed = books.deployed
        /\ books'.harvested = h /\ books'.owed = books.owed
        /\ books'.records = books.records /\ books'.tier = books.tier
    BY ZenonT(60), <1>1, <2>2, <2>3 DEF Books
  <2> QED
    BY <1>1, <1>2, <1>4, <2>2, <2>4, Zenon DEF harvest_yield, Moving
<1>5. CASE distribute_yield
  <2> DEFINE f == books.float - books.harvested
             h == 0
             n == books.nonce + 1
  <2>1. /\ f \in Int /\ n \in Nat /\ f >= 0 /\ h \in Int /\ h >= 0
        /\ books.deployed >= 0 /\ books.deployed >= books.owed
        /\ books.deployed > 0 => cfg.strategy # None
    BY <1>1, <1>5 DEF GoodBooks, YieldGood, distribute_yield
  <2>2. books' = [books EXCEPT !.float = f, !.harvested = h, !.nonce = n]
    BY <1>5, Zenon DEF distribute_yield
  <2> HIDE DEF f, h, n
  <2>3. /\ books' \in Books /\ books'.float = f /\ books'.deployed = books.deployed
        /\ books'.harvested = h /\ books'.owed = books.owed
        /\ books'.records = books.records /\ books'.tier = books.tier
    BY ZenonT(60), <1>1, <2>1, <2>2 DEF Books
  <2> QED
    BY <1>1, <1>2, <1>5, <2>1, <2>3, Zenon DEF distribute_yield, Moving
<1>6. CASE emergency_exit_yield
  BY <1>1, <1>6, RecallStepGood DEF emergency_exit_yield
<1>7. ASSUME NEW p \in Recalls, withdraw_from_yield(p)  PROVE VaultInv'
  BY <1>7, RecallStepGood, InputAssumption, Zenon DEF withdraw_from_yield
<1> QED
  BY <1>3, <1>4, <1>5, <1>6, <1>7, StrategyStepGood, Zenon DEF YieldStep

-----------------------------------------------------------------------------
(* Claims and batches.                                                     *)

\* Advancing twice is advancing.
LEMMA AdvanceTwice ==
  ASSUME NEW x \in [Refs -> RefundRecord \cup {None}],
         NEW y \in [Refs -> RefundRecord \cup {None}],
         NEW z \in [Refs -> RefundRecord \cup {None}],
         AllAdvance(x, y), AllAdvance(y, z)
  PROVE  AllAdvance(x, z)
<1> SUFFICES ASSUME NEW r \in Refs  PROVE z[r] = x[r] \/ Ledger!Advances(x[r], z[r])
  BY Zenon DEF AllAdvance
<1>1. \A e \in RefundRecord : e.amount_refunded \in Int /\ e.payment_amount \in Int
  BY Zenon DEF RefundRecord
<1>2. /\ y[r] = x[r] \/ Ledger!Advances(x[r], y[r])
      /\ z[r] = y[r] \/ Ledger!Advances(y[r], z[r])
  BY Zenon DEF AllAdvance
<1> QED
  BY SMTT(60), <1>1, <1>2 DEF Ledger!Advances

\* Bumping the caller's nonce touches nothing else.
LEMMA BumpGood ==
  ASSUME cfg \in Config, NEW b, NEW s, NEW l, GoodBooks(b, s, l), NEW v \in Nat
  PROVE  /\ GoodBooks(bump_user_nonce(b, v), s, l)
         /\ bump_user_nonce(b, v).records = b.records
<1> DEFINE n == b.user_nonce[cfg.admin] + 1
           e == b.accepted[cfg.admin] \cup {v}
           z == [b EXCEPT !.user_nonce[cfg.admin] = n, !.accepted[cfg.admin] = e]
<1>1. b \in Books /\ cfg.admin \in Merchants /\ n \in Nat /\ e \in SUBSET Nat
  BY SMTT(60) DEF GoodBooks, Books, Config
<1>2. bump_user_nonce(b, v) = z
  BY Zenon DEF bump_user_nonce
<1> HIDE DEF n, e
<1>3. /\ z \in Books /\ z.float = b.float /\ z.records = b.records /\ z.tier = b.tier
      /\ z.deployed = b.deployed /\ z.harvested = b.harvested /\ z.owed = b.owed
  BY ZenonT(60), <1>1 DEF Books
<1> HIDE DEF z
<1> QED
  BY ZenonT(60), <1>2, <1>3 DEF GoodBooks, RecordsGood, YieldGood, TierGood

\* One claim of a batch, and what it does to the batch in flight.
LEMMA BatchClaimGood == VaultInv /\ BatchClaim => VaultInv'
<1> SUFFICES ASSUME VaultInv, BatchClaim  PROVE VaultInv'
  OBVIOUS
<1>1. /\ cfg \in Config /\ now \in Nat
      /\ GoodBooks(books, cfg.strategy, cfg.ladder)
      /\ tx \in Batch /\ GoodBooks(tx.saved, cfg.strategy, cfg.ladder)
      /\ ~cfg.paused /\ AllAdvance(tx.saved.records, books.records)
      /\ UNCHANGED <<now, cfg, proposed>>
  BY DEF VaultInv, BatchClaim, TxGood
<1>2. tx.todo \in Seq(RefundClaim) /\ tx.todo # <<>> /\ tx.results \in Seq(BOOLEAN)
  BY <1>1, Zenon DEF Batch, BatchClaim
<1>3. Head(tx.todo) \in RefundClaim /\ Tail(tx.todo) \in Seq(RefundClaim)
  BY SMTT(60), <1>2
<1>4. PICK o \in claim_single(books, tx.fee_bps, Head(tx.todo)) :
        \/ /\ books' = o.books
           /\ tx' = [tx EXCEPT !.todo = Tail(@), !.results = Append(@, o.res = "ok")]
        \/ books' = tx.saved /\ tx' = None
  BY ZenonT(60) DEF BatchClaim
<1>5. /\ GoodBooks(o.books, cfg.strategy, cfg.ladder)
      /\ AllAdvance(books.records, o.books.records)
  BY ZenonT(60), <1>1, <1>3, ClaimGood
<1>6. CASE books' = tx.saved /\ tx' = None
  BY ZenonT(60), <1>1, <1>6 DEF VaultInv, TxGood, ProposalGood
<1>7. CASE /\ books' = o.books
           /\ tx' = [tx EXCEPT !.todo = Tail(@), !.results = Append(@, o.res = "ok")]
  <2> DEFINE k == (o.res = "ok")
             rs == Append(tx.results, k)
             td == Tail(tx.todo)
  <2>1. k \in BOOLEAN
    BY Zenon
  <2> HIDE DEF k
  <2>2. rs \in Seq(BOOLEAN) /\ td \in Seq(RefundClaim)
    BY <1>2, <1>3, <2>1
  <2>3. tx' = [tx EXCEPT !.todo = td, !.results = rs]
    BY <1>7, Zenon DEF k
  <2> HIDE DEF rs, td
  <2>4. tx' \in Batch /\ tx'.saved = tx.saved
    BY ZenonT(60), <1>1, <2>2, <2>3 DEF Batch
  <2>5. /\ tx.saved.records \in [Refs -> RefundRecord \cup {None}]
        /\ books.records \in [Refs -> RefundRecord \cup {None}]
        /\ o.books.records \in [Refs -> RefundRecord \cup {None}]
    BY ZenonT(60), <1>1, <1>5 DEF GoodBooks, Books
  <2>6. AllAdvance(tx.saved.records, o.books.records)
    BY ZenonT(60), <1>1, <1>5, <2>5, AdvanceTwice
  <2> QED
    BY ZenonT(60), <1>1, <1>5, <1>7, <2>4, <2>6 DEF VaultInv, TxGood, ProposalGood
<1> QED
  BY <1>4, <1>6, <1>7, Zenon

\* The rate an entry point reads is a natural number.
LEMMA RateNat ==
  ASSUME VaultInv
  PROVE  effective_fee_bps \in Nat
<1>1. cfg.fee_bps \in Nat /\ books.tier \in MerchantTierState \cup {None}
  BY ZenonT(60) DEF VaultInv, Config, GoodBooks, Books
<1> QED
  BY ZenonT(60), <1>1 DEF effective_fee_bps, MerchantTierState

\* The claim paths, refund and both batches, keep the invariant.
LEMMA ClaimStepGood == VaultInv /\ ClaimStep => VaultInv'
<1> SUFFICES ASSUME VaultInv, ClaimStep  PROVE VaultInv'
  OBVIOUS
<1>1. /\ cfg \in Config /\ now \in Nat
      /\ GoodBooks(books, cfg.strategy, cfg.ladder)
  BY DEF VaultInv
<1>2. \A v \in Nat : /\ GoodBooks(bump_user_nonce(books, v), cfg.strategy, cfg.ladder)
                     /\ bump_user_nonce(books, v).records = books.records
  BY <1>1, BumpGood, Zenon
<1>3. ASSUME NEW c \in Claims, NEW v \in Nat, refund(c, v)  PROVE VaultInv'
  <2>1. PICK o \in claim_single(bump_user_nonce(books, v), effective_fee_bps, c) :
           books' = o.books
    BY <1>3, Zenon DEF refund
  <2>2. c \in RefundClaim
    BY InputAssumption, Zenon
  <2>3. GoodBooks(books', cfg.strategy, cfg.ladder)
    BY ZenonT(60), <1>1, <1>2, <2>1, <2>2, ClaimGood
  <2> QED
    BY ZenonT(60), <1>3, <2>3, BooksKeeps DEF refund, Moving
<1>4. ASSUME NEW k \in {"claim_batch", "process_batch"}, NEW q \in Batches,
             NEW v \in Nat, BeginBatch(k, q, v)
      PROVE  VaultInv'
  <2> DEFINE fb == effective_fee_bps
             rs == <<>>
             bk == books
  <2>1. q \in Seq(RefundClaim) /\ fb \in Nat /\ bk \in Books /\ rs \in Seq(BOOLEAN)
    BY <1>1, InputAssumption, RateNat DEF GoodBooks
  <2>2. tx' = [ kind |-> k, todo |-> q, fee_bps |-> fb, saved |-> bk, results |-> rs ]
    BY <1>4, Zenon DEF BeginBatch
  <2> HIDE DEF fb, rs, bk
  <2>3. tx' \in Batch /\ tx'.saved = bk
    BY ZenonT(60), <2>1, <2>2 DEF Batch
  <2>4. AllAdvance(books.records, bump_user_nonce(books, v).records)
    BY ZenonT(60), <1>2 DEF AllAdvance
  <2>5. ~cfg.paused
    BY ZenonT(60), <1>4 DEF BeginBatch, NotPaused
  <2>6. books' = bump_user_nonce(books, v) /\ UNCHANGED <<now, cfg, proposed>>
    BY ZenonT(60), <1>4 DEF BeginBatch
  <2> QED
    BY ZenonT(60), <1>1, <1>2, <2>3, <2>4, <2>5, <2>6 DEF VaultInv, TxGood, ProposalGood, bk
<1>5. CASE EndBatch
  BY ZenonT(60), <1>5 DEF EndBatch, VaultInv, TxGood, ProposalGood
<1>6. \A v \in 0..MaxNonce : v \in Nat
  BY BoundAssumption
<1> QED
  BY <1>3, <1>4, <1>5, <1>6, BatchClaimGood, Zenon
     DEF ClaimStep, BatchStep, claim_batch, process_batch

-----------------------------------------------------------------------------
(* The theorems.                                                           *)

\* Every step of the vault keeps the invariant.
LEMMA NextGood == VaultInv /\ [Next]_vars => VaultInv'
<1> SUFFICES ASSUME VaultInv, [Next]_vars  PROVE VaultInv'
  BY Zenon
<1>1. CASE UNCHANGED vars
  BY ZenonT(60), <1>1 DEF vars, VaultInv, TxGood, ProposalGood
<1>2. CASE Tick
  BY SMTT(60), <1>2, BoundAssumption DEF Tick, VaultInv, TxGood, ProposalGood
<1>3. CASE DustStep
  BY <1>3, SweepGood, SettingStepsGood DEF DustStep
<1> QED
  BY <1>1, <1>2, <1>3, ClaimStepGood, FloatStepGood, CouponStepGood, FlashStepGood,
     YieldStepGood, PolicyStepGood, LadderStepGood, SettingStepsGood, Zenon
     DEF Next

\* The inductive invariant holds throughout.
LEMMA Invariance == Spec => []VaultInv
BY InitGood, NextGood, PTL DEF Spec

\* Storage keeps its types and the float never goes negative, for every
\* number of references, merchants, strategies and batches.
THEOREM TypeCorrect == Spec => []TypeOK
<1>1. VaultInv => TypeOK
  BY ZenonT(60) DEF VaultInv, TypeOK, GoodBooks, TxGood, ProposalGood
<1> QED
  BY <1>1, Invariance, PTL

\* claim_single and the batches never refund a payment beyond the ceiling of
\* its record.
THEOREM CeilingsHold == Spec => []RefundsWithinCeiling
<1>1. VaultInv => RefundsWithinCeiling
  BY ZenonT(60) DEF VaultInv, GoodBooks, RecordsGood, RefundsWithinCeiling
<1> QED
  BY <1>1, Invariance, PTL

\* The vault's yield books never claim less than its strategies owe, and
\* deployed principal always has an approved strategy behind it.
THEOREM YieldBooksHold == Spec => []StrategyAccounting
<1>1. VaultInv => StrategyAccounting
  BY ZenonT(60) DEF VaultInv, GoodBooks, YieldGood, StrategyAccounting
<1> QED
  BY <1>1, Invariance, PTL

\* The cached fee tier is always the one the ladder and the settled volume
\* determine.
THEOREM TierExact == Spec => []TierMirrorsLadder
<1>1. VaultInv => TierMirrorsLadder
  BY ZenonT(60) DEF VaultInv, GoodBooks, TierGood, TierMirrorsLadder
<1> QED
  BY <1>1, Invariance, PTL

-----------------------------------------------------------------------------
(* Frames.                                                                 *)

\* No refund record, policy or active strategy changes, and no batch runs.
QuietFrame ==
  /\ tx = None /\ tx' = None
  /\ books'.records = books.records /\ books'.deployed = books.deployed
  /\ cfg'.policy = cfg.policy /\ cfg'.strategy = cfg.strategy

\* The administration and its settings are quiet.
LEMMA SettingFrame ==
  ASSUME VaultInv,
         AdminStep \/ TokenStep \/ FeeStep \/ GateStep \/ ContractStep \/ RatioStep
           \/ (\E t \in DustThresholds, a \in Others \cup {Vault} : set_dust_config(t, a))
  PROVE  QuietFrame
<1>1. cfg \in Config
  BY DEF VaultInv
<1>2. \A c : Configure(c) /\ c.policy = cfg.policy /\ c.strategy = cfg.strategy
               => QuietFrame
  BY Zenon DEF Configure, QuietFrame, Idle
<1>3. CASE pause \/ unpause
  BY <1>1, <1>2, <1>3, Zenon DEF pause, unpause, Config
<1>4. ASSUME NEW a \in Merchants, transfer_admin(a)  PROVE QuietFrame
  BY <1>1, <1>2, <1>4, Zenon DEF transfer_admin, Config
<1>5. CASE accept_admin
  BY ZenonT(60), <1>1, <1>2, <1>5 DEF accept_admin, Config
<1>6. CASE cancel_admin_transfer
  BY <1>1, <1>2, <1>6, Zenon DEF cancel_admin_transfer, Config
<1>7. ASSUME NEW t \in Tokens, set_token(t)  PROVE QuietFrame
  BY <1>1, <1>2, <1>7, Zenon DEF set_token, Config
<1>8. ASSUME NEW x \in FeeRates, set_fee_bps(x)  PROVE QuietFrame
  BY <1>1, <1>2, <1>8 DEF set_fee_bps, Config
<1>9. ASSUME NEW a \in Others \cup {Vault}, set_fee_recipient(a)  PROVE QuietFrame
  BY <1>1, <1>2, <1>9, Zenon DEF set_fee_recipient, Config
<1>10. ASSUME NEW x \in Cooldowns, set_claim_cooldown(x)  PROVE QuietFrame
  BY <1>1, <1>2, <1>10, Zenon DEF set_claim_cooldown, Config
<1>11. CASE set_oracle_policy \/ clear_oracle_policy
  BY <1>1, <1>2, <1>11 DEF set_oracle_policy, clear_oracle_policy, Config
<1>12. ASSUME NEW x \in BOOLEAN,
              set_time_policy_contract(x) \/ set_vdf_policy_contract(x)
       PROVE  QuietFrame
  BY <1>1, <1>2, <1>12, Zenon DEF set_time_policy_contract, set_vdf_policy_contract, Config
<1>13. ASSUME NEW x \in Ratios, set_reserve_ratio(x) \/ set_max_deploy_ratio(x)
       PROVE  QuietFrame
  BY <1>1, <1>2, <1>13, Zenon DEF set_reserve_ratio, set_max_deploy_ratio, Config
<1>14. ASSUME NEW t \in DustThresholds, NEW a \in Others \cup {Vault},
              set_dust_config(t, a)
       PROVE  QuietFrame
  BY ZenonT(60), <1>1, <1>2, <1>14 DEF set_dust_config, Config
<1> QED
  BY <1>3, <1>4, <1>5, <1>6, <1>7, <1>8, <1>9, <1>10, <1>11, <1>12, <1>13, <1>14
     DEF AdminStep, TokenStep, FeeStep, GateStep, ContractStep, RatioStep

\* No refund record and no setting changes, and no batch runs.
MoneyFrame ==
  /\ tx = None /\ tx' = None
  /\ books'.records = books.records
  /\ cfg' = cfg

\* Deposits, withdrawals, coupons and flash loans move money only.
LEMMA MoneySteps ==
  ASSUME VaultInv, FloatStep \/ CouponStep \/ FlashStep
  PROVE  MoneyFrame
<1>1. books \in Books /\ GoodBooks(books, cfg.strategy, cfg.ladder)
  BY Zenon DEF VaultInv, GoodBooks
<1>2. \A f, n : [books EXCEPT !.float = f, !.nonce = n].records = books.records
  BY <1>1, Zenon DEF Books
<1>3. ASSUME NEW a, deposit(a)  PROVE MoneyFrame
  BY <1>2, <1>3, Zenon DEF deposit, MoneyFrame, Moving, Idle, OnlyBooksChange
<1>4. ASSUME NEW a \in Withdrawals, withdraw(a)  PROVE MoneyFrame
  <2>1. PICK o \in ensure_liquidity(books, a) :
           books' = [o.books EXCEPT !.float = @ - a, !.nonce = @ + 1]
    BY ZenonT(60), <1>4 DEF withdraw
  <2>2. o.books.records = books.records /\ o.books \in Books
    BY <1>1, InputAssumption, LiquidityGood DEF SameButYield, GoodBooks
  <2>3. \A f, n : [o.books EXCEPT !.float = f, !.nonce = n].records = o.books.records
    BY <2>2, Zenon DEF Books
  <2> QED
    BY ZenonT(60), <1>4, <2>1, <2>2, <2>3 DEF withdraw, MoneyFrame, Moving, Idle, OnlyBooksChange
<1>5. ASSUME NEW id \in CouponIds, NEW m, NEW d, mint_coupon(id, m, d)
      PROVE  MoneyFrame
  <2>1. \A c : [books EXCEPT !.coupons[id] = c].records = books.records
    BY <1>1, Zenon DEF Books
  <2> QED
    BY <1>5, <2>1, Zenon DEF mint_coupon, MoneyFrame, Idle, OnlyBooksChange
<1>6. ASSUME NEW id \in CouponIds, NEW a, deposit_with_coupon(a, id)
      PROVE  MoneyFrame
  <2>1. \A f, c, n : [books EXCEPT !.float = f, !.coupons[id].redeemed = c,
                                   !.nonce = n].records = books.records
    BY <1>1, Zenon DEF Books
  <2> QED
    BY <1>6, <2>1 DEF deposit_with_coupon, MoneyFrame, Moving, Idle, OnlyBooksChange
<1>7. ASSUME NEW a, NEW p, flash_loan(a, p)  PROVE MoneyFrame
  <2>1. \A f : [books EXCEPT !.float = f].records = books.records
    BY <1>1, Zenon DEF Books
  <2> QED
    BY <1>7, <2>1, Zenon DEF flash_loan, MoneyFrame, Idle, OnlyBooksChange
<1> QED
  BY <1>3, <1>4, <1>5, <1>6, <1>7, Zenon DEF FloatStep, CouponStep, FlashStep

\* What the strategy entry points leave alone: the records, the policy, and
\* the active strategy while it holds principal.
YieldFrame ==
  /\ tx = None /\ tx' = None
  /\ books'.records = books.records
  /\ cfg'.policy = cfg.policy
  /\ books.deployed > 0 => cfg'.strategy = cfg.strategy

\* A recall moves money only.
LEMMA RecallFrame ==
  ASSUME VaultInv, NEW p \in Int, RecallStep(p)
  PROVE  MoneyFrame
<1>1. PICK o \in recall_principal(books, p) : books' = o.books
  BY DEF RecallStep
<1>2. SameButYield(books, o.books)
  BY RecallGood, Zenon DEF VaultInv
<1> QED
  BY <1>1, <1>2, Zenon DEF RecallStep, MoneyFrame, SameButYield, Moving, Idle, OnlyBooksChange

\* No yield operation touches a record, the policy or the pause flag.
LEMMA YieldSteps ==
  ASSUME VaultInv, YieldStep
  PROVE  YieldFrame
<1>1. /\ books \in Books /\ books.deployed \in Int /\ cfg \in Config
      /\ books.deployed > 0 => cfg.strategy # None
  BY Zenon DEF VaultInv, GoodBooks, Books, YieldGood
<1>2. MoneyFrame => YieldFrame
  BY Zenon DEF MoneyFrame, YieldFrame
<1>3. ASSUME NEW s \in Strategies, approve_yield_strategy(s)  PROVE YieldFrame
  <2>1. \A a : LET c == [cfg EXCEPT !.approved = a]
               IN  c.policy = cfg.policy /\ c.strategy = cfg.strategy
    BY <1>1, Zenon DEF Config
  <2> QED
    BY <1>3, <2>1, Zenon DEF approve_yield_strategy, Configure, Idle, YieldFrame
<1>4. ASSUME NEW s \in Strategies, revoke_yield_strategy(s)  PROVE YieldFrame
  <2>1. \A a, x : LET c == [cfg EXCEPT !.approved = a, !.strategy = x]
                  IN  c.policy = cfg.policy /\ c.strategy = x
    BY <1>1, Zenon DEF Config
  <2>2. /\ cfg'.policy = cfg.policy
        /\ cfg'.strategy = IF cfg.strategy = s THEN None ELSE cfg.strategy
    BY <1>4, <2>1 DEF revoke_yield_strategy, Configure
  <2> QED
    BY <1>1, <1>4, <2>2 DEF revoke_yield_strategy, Configure, Idle, YieldFrame
<1>5. ASSUME NEW s \in Strategies, set_yield_strategy(s)  PROVE YieldFrame
  <2>1. LET c == [cfg EXCEPT !.strategy = s]
        IN  c.policy = cfg.policy /\ c.strategy = s
    BY <1>1, Zenon DEF Config
  <2>2. cfg'.policy = cfg.policy /\ cfg'.strategy = s
    BY <1>5, <2>1, Zenon DEF set_yield_strategy, Configure
  <2> QED
    BY <1>1, <1>5, <2>2 DEF set_yield_strategy, Configure, Idle, YieldFrame
<1>6. ASSUME NEW a \in Deployments, deploy_to_yield(a)  PROVE YieldFrame
  <2>1. \A f, d, w, n : [books EXCEPT !.float = f, !.deployed = d, !.owed = w,
                                      !.nonce = n].records = books.records
    BY <1>1, Zenon DEF Books
  <2> QED
    BY <1>6, <2>1 DEF deploy_to_yield, YieldFrame, Moving, Idle, OnlyBooksChange
<1>7. \A f, h, n : [books EXCEPT !.float = f, !.harvested = h, !.nonce = n].records
                     = books.records
  BY <1>1, Zenon DEF Books
<1>8. ASSUME NEW y \in Replies, harvest_yield(y.yield, y.paid)  PROVE YieldFrame
  BY <1>7, <1>8 DEF harvest_yield, YieldFrame, Moving, Idle, OnlyBooksChange
<1>9. CASE distribute_yield
  BY <1>7, <1>9 DEF distribute_yield, YieldFrame, Moving, Idle, OnlyBooksChange
<1>10. CASE emergency_exit_yield
  BY <1>1, <1>2, <1>10, RecallFrame, Zenon DEF emergency_exit_yield
<1>11. ASSUME NEW p \in Recalls, withdraw_from_yield(p)  PROVE YieldFrame
  BY <1>2, <1>11, RecallFrame, InputAssumption, Zenon DEF withdraw_from_yield
<1> QED
  BY <1>3, <1>4, <1>5, <1>6, <1>8, <1>9, <1>10, <1>11, Zenon DEF YieldStep

\* A change of the ladder, and a proposal, are quiet; executing a proposal
\* changes the policy only.
LEMMA LadderAndPolicySteps ==
  ASSUME VaultInv
  PROVE  /\ LadderStep => QuietFrame
         /\ \A p : propose_policy(p) => QuietFrame
         /\ execute_policy => /\ tx = None /\ tx' = None
                              /\ books' = books /\ cfg'.strategy = cfg.strategy
                              /\ cfg'.policy = cfg.pending_policy.policy
<1>1. books \in Books /\ cfg \in Config
  BY Zenon DEF VaultInv, GoodBooks
<1>2. /\ \A t : LET b == [books EXCEPT !.tier = t]
                IN  b.records = books.records /\ b.deployed = books.deployed
      /\ \A l : LET c == [cfg EXCEPT !.ladder = l]
                IN  c.policy = cfg.policy /\ c.strategy = cfg.strategy
      /\ \A q : LET c == [cfg EXCEPT !.pending_policy = q]
                IN  c.policy = cfg.policy /\ c.strategy = cfg.strategy
      /\ \A p, q : LET c == [cfg EXCEPT !.policy = p, !.pending_policy = q]
                   IN  c.policy = p /\ c.strategy = cfg.strategy
  BY <1>1, Zenon DEF Books, Config
<1>3. LadderStep => QuietFrame
  <2>1. ASSUME NEW l, set_tier_ladder(l)  PROVE QuietFrame
    <3>1. \E t : books' = [books EXCEPT !.tier = t]
      BY <2>1, Zenon DEF set_tier_ladder
    <3> QED
      BY <1>2, <2>1, <3>1, Zenon DEF set_tier_ladder, Idle, QuietFrame
  <2>2. CASE clear_tier_ladder
    BY <1>2, <2>2, Zenon DEF clear_tier_ladder, Idle, QuietFrame
  <2> QED
    BY <2>1, <2>2, Zenon DEF LadderStep
<1>4. \A p : propose_policy(p) => QuietFrame
  BY <1>2 DEF propose_policy, Idle, QuietFrame
<1>5. execute_policy => /\ tx = None /\ tx' = None
                        /\ books' = books /\ cfg'.strategy = cfg.strategy
                        /\ cfg'.policy = cfg.pending_policy.policy
  BY <1>2 DEF execute_policy, Configure, Idle
<1> QED
  BY <1>3, <1>4, <1>5, Zenon

\* Claims, batches, sweeps and the clock leave the configuration alone.
LEMMA ClaimsLeaveConfig == Tick \/ ClaimStep \/ (\E r \in Refs : sweep_dust(r)) => cfg' = cfg
BY ZenonT(60) DEF Tick, ClaimStep, BatchStep, refund, claim_batch, process_batch, BeginBatch,
       BatchClaim, EndBatch, sweep_dust, OnlyBooksChange

-----------------------------------------------------------------------------
(* Action properties.                                                      *)

\* execute_policy is the only way to a new policy, and it takes the latest
\* proposal after a full timelock.
THEOREM TimelockIsHonoured == Spec => TimelockHonoured
<1> DEFINE A == cfg'.policy # cfg.policy =>
                  /\ proposed # None
                  /\ cfg'.policy = proposed.policy
                  /\ now >= proposed.ledger + POLICY_TIMELOCK
<1>1. VaultInv /\ [Next]_vars => [A]_vars
  <2> SUFFICES ASSUME VaultInv, Next, cfg'.policy # cfg.policy  PROVE A
    BY Zenon
  <2>1. execute_policy
    BY SettingFrame, MoneySteps, YieldSteps, LadderAndPolicySteps, ClaimsLeaveConfig
       DEF Next, DustStep, PolicyStep, QuietFrame, MoneyFrame, YieldFrame
  <2> QED
    BY <2>1, LadderAndPolicySteps, Zenon DEF execute_policy, VaultInv, ProposalGood
<1> QED
  BY <1>1, Invariance, PTL DEF Spec, TimelockHonoured

\* A strategy that holds principal, before and after a step, stays the
\* active one.
THEOREM StrategyIsPinned == Spec => StrategyPinned
<1> DEFINE A == books.deployed > 0 /\ books'.deployed > 0 => cfg'.strategy = cfg.strategy
<1>1. VaultInv /\ [Next]_vars => [A]_vars
  <2> SUFFICES ASSUME VaultInv, Next  PROVE A
    BY Zenon
  <2> QED
    BY SettingFrame, MoneySteps, YieldSteps, LadderAndPolicySteps, ClaimsLeaveConfig, Zenon
       DEF Next, DustStep, PolicyStep, QuietFrame, MoneyFrame, YieldFrame
<1> QED
  BY <1>1, Invariance, PTL DEF Spec, StrategyPinned

\* process_batch: an item reported as failed has only recalled principal,
\* although an error inside the batch rolls nothing back.
THEOREM FailedItemsPayNothing == Spec => FailedItemPaysNothing
<1> DEFINE P == tx # None /\ tx' # None /\ tx'.todo # tx.todo
                  /\ ~tx'.results[Len(tx'.results)]
           Q == /\ books'.records = books.records
                /\ books'.tier = books.tier
                /\ books'.last_claim = books.last_claim
                /\ books'.float >= books.float
<1>1. VaultInv /\ [Next]_vars => [P => Q]_vars
  <2> SUFFICES ASSUME VaultInv, Next, P  PROVE Q
    BY Zenon
  <2>1. BatchClaim
    BY ZenonT(60), SettingFrame, MoneySteps, YieldSteps, LadderAndPolicySteps
       DEF Next, DustStep, PolicyStep, ClaimStep, BatchStep, QuietFrame, MoneyFrame,
           YieldFrame, Tick, refund, claim_batch, process_batch, BeginBatch, EndBatch,
           sweep_dust, Moving, Idle
  <2>2. tx \in Batch /\ cfg \in Config /\ now \in Nat
        /\ GoodBooks(books, cfg.strategy, cfg.ladder)
    <3>1. now \in 0..MaxLedger /\ cfg \in Config /\ tx \in Batch \cup {None}
          /\ GoodBooks(books, cfg.strategy, cfg.ladder)
      BY Zenon DEF VaultInv, TxGood
    <3>2. tx \in Batch
      BY <3>1, Zenon
    <3>3. now \in Nat
      BY <3>1
    <3> QED
      BY <3>1, <3>2, <3>3, Zenon
  <2>3. tx.todo \in Seq(RefundClaim) /\ tx.todo # <<>> /\ tx.results \in Seq(BOOLEAN)
    BY <2>1, <2>2, Zenon DEF Batch, BatchClaim
  <2>4. Head(tx.todo) \in RefundClaim
    BY <2>3
  <2>5. PICK o \in claim_single(books, tx.fee_bps, Head(tx.todo)) :
          /\ books' = o.books
          /\ tx' = [tx EXCEPT !.todo = Tail(@), !.results = Append(@, o.res = "ok")]
    BY ZenonT(60), <2>1 DEF BatchClaim
  <2>6. tx'.results = Append(tx.results, o.res = "ok")
    BY <2>2, <2>5, Zenon DEF Batch
  <2>7. tx'.results[Len(tx'.results)] = (o.res = "ok")
    BY <2>3, <2>6
  <2>8. SameButYield(books, o.books)
    BY ZenonT(60), <2>2, <2>4, <2>7, ClaimGood
  <2> QED
    BY <2>5, <2>8, Zenon DEF SameButYield
<1> QED
  BY <1>1, Invariance, PTL DEF Spec, FailedItemPaysNothing

-----------------------------------------------------------------------------
(* The refinement.                                                         *)

\* A step that changes no committed record is a step of the ledger: it may
\* pause or unpause.
LEMMA QuietImplements ==
  ASSUME VaultInv', CommittedRecords' = CommittedRecords
  PROVE  Ledger!Next
<1>1. cfg'.paused \in BOOLEAN
  BY Zenon DEF VaultInv, Config
<1> QED
  BY <1>1, Zenon DEF Ledger!Next, Ledger!SetPaused

\* A step that advances committed records while the vault is not paused is a
\* settlement.
LEMMA SettleImplements ==
  ASSUME AllAdvance(CommittedRecords, CommittedRecords'), ~cfg.paused, cfg' = cfg
  PROVE  Ledger!Next
BY Zenon DEF Ledger!Next, Ledger!Settle, AllAdvance

\* Claims and batches settle: a batch when it ends.
LEMMA ClaimsImplement ==
  ASSUME VaultInv, VaultInv', ClaimStep
  PROVE  Ledger!Next
<1>1. /\ cfg \in Config /\ now \in Nat
      /\ GoodBooks(books, cfg.strategy, cfg.ladder)
  BY DEF VaultInv
<1>2. \A v \in Nat : /\ GoodBooks(bump_user_nonce(books, v), cfg.strategy, cfg.ladder)
                     /\ bump_user_nonce(books, v).records = books.records
  BY <1>1, BumpGood, Zenon
<1>3. ASSUME NEW c \in Claims, NEW v \in Nat, refund(c, v)  PROVE Ledger!Next
  <2>1. PICK o \in claim_single(bump_user_nonce(books, v), effective_fee_bps, c) :
           books' = o.books
    BY <1>3, Zenon DEF refund
  <2>2. c \in RefundClaim
    BY InputAssumption, Zenon
  <2>3. AllAdvance(books.records, books'.records)
    BY <1>1, <1>2, <2>1, <2>2, ClaimGood
  <2>4. tx = None /\ tx' = None /\ cfg' = cfg /\ ~cfg.paused
    BY <1>3, Zenon DEF refund, Moving, Idle, OnlyBooksChange, NotPaused
  <2> QED
    BY <2>3, <2>4, SettleImplements, Zenon DEF CommittedRecords
<1>4. ASSUME NEW k \in {"claim_batch", "process_batch"}, NEW q \in Batches,
             NEW v \in Nat, BeginBatch(k, q, v)
      PROVE  Ledger!Next
  <2>1. tx = None /\ tx'.saved = books /\ books'.records = books.records
    BY <1>2, <1>4, Zenon DEF BeginBatch, Moving, Idle
  <2> QED
    BY <2>1, QuietImplements, Zenon DEF CommittedRecords
<1>5. CASE EndBatch
  <2>1. /\ tx # None /\ tx' = None /\ books' = books /\ cfg' = cfg /\ ~cfg.paused
        /\ AllAdvance(tx.saved.records, books.records)
    BY <1>5, Zenon DEF EndBatch, VaultInv, TxGood
  <2> QED
    BY <2>1, SettleImplements, Zenon DEF CommittedRecords
<1>6. CASE BatchClaim
  <2>1. tx # None /\ tx \in Batch
    BY <1>6, Zenon DEF BatchClaim, VaultInv, TxGood
  <2>2. /\ tx.todo \in Seq(RefundClaim) /\ tx.todo # <<>>
        /\ tx.results \in Seq(BOOLEAN)
    BY <1>6, <2>1, Zenon DEF Batch, BatchClaim
  <2>3. /\ Tail(tx.todo) \in Seq(RefundClaim)
        /\ \A k \in BOOLEAN : Append(tx.results, k) \in Seq(BOOLEAN)
    BY <2>2
  <2>4. \/ tx' = None /\ books' = tx.saved
        \/ \E k \in BOOLEAN : tx' = [tx EXCEPT !.todo = Tail(tx.todo),
                                              !.results = Append(tx.results, k)]
    BY ZenonT(60), <1>6 DEF BatchClaim
  <2>5. \A t \in Seq(RefundClaim), x \in Seq(BOOLEAN) :
          LET z == [tx EXCEPT !.todo = t, !.results = x]
          IN  z.saved = tx.saved /\ z \in Batch
    BY ZenonT(60), <2>1 DEF Batch
  <2>6. \/ tx' = None /\ books' = tx.saved
        \/ tx'.saved = tx.saved /\ tx' # None
    <3>1. CASE tx' = None /\ books' = tx.saved
      BY <3>1, Zenon
    <3>2. ASSUME NEW k \in BOOLEAN,
                 tx' = [tx EXCEPT !.todo = Tail(tx.todo),
                                  !.results = Append(tx.results, k)]
          PROVE  tx'.saved = tx.saved /\ tx' \in Batch
      BY ZenonT(60), <2>3, <2>5, <3>2
    <3>3. None \notin Batch
      BY NoneAssumption, Zenon
    <3> QED
      BY ZenonT(60), <2>4, <3>1, <3>2, <3>3
  <2> QED
    BY <2>1, <2>6, QuietImplements DEF CommittedRecords
<1>7. \A v \in 0..MaxNonce : v \in Nat
  BY BoundAssumption
<1> QED
  BY <1>3, <1>4, <1>5, <1>6, <1>7, Zenon
     DEF ClaimStep, BatchStep, claim_batch, process_batch

\* A sweep reclaims one record.
LEMMA SweepImplements ==
  ASSUME VaultInv, NEW r \in Refs, sweep_dust(r)
  PROVE  Ledger!Next
<1>1. books \in Books
  BY DEF VaultInv, GoodBooks
<1>2. \A f : [books EXCEPT !.float = f, !.records[r] = None].records
               = [books.records EXCEPT ![r] = None]
  BY <1>1, Zenon DEF Books
<1>3. /\ tx = None /\ tx' = None /\ cfg' = cfg /\ ~cfg.paused
      /\ books.records[r] # None
      /\ books'.records = [books.records EXCEPT ![r] = None]
  BY <1>2, Zenon DEF sweep_dust, Idle, OnlyBooksChange, NotPaused
<1> QED
  BY <1>3, Zenon DEF Ledger!Next, Ledger!Reclaim, CommittedRecords

\* The vault implements the refund ledger: however claims, batches, sweeps
\* and the administration interleave, committed records only advance towards
\* their ceilings or are reclaimed one by one, and never while paused.
THEOREM Refinement == Spec => ImplementsLedger
<1>1. Init => Ledger!Init
  BY SMTT(30) DEF Init, Ledger!Init, CommittedRecords
<1>2. VaultInv /\ VaultInv' /\ [Next]_vars
        => [Ledger!Next]_<<CommittedRecords, cfg.paused>>
  <2> SUFFICES ASSUME VaultInv, VaultInv', [Next]_vars,
                      ~UNCHANGED <<CommittedRecords, cfg.paused>>
               PROVE  Ledger!Next
    BY Zenon
  <2>1. CASE UNCHANGED vars
    BY <2>1, Zenon DEF vars, CommittedRecords
  <2>2. CASE Tick
    BY <2>2, Zenon DEF Tick, CommittedRecords
  <2>3. QuietFrame \/ MoneyFrame \/ YieldFrame => Ledger!Next
    BY QuietImplements DEF QuietFrame, MoneyFrame, YieldFrame, CommittedRecords
  <2>4. CASE execute_policy
    BY <2>4, LadderAndPolicySteps, QuietImplements, Zenon DEF CommittedRecords
  <2>5. CASE DustStep
    BY <2>3, <2>5, SweepImplements, SettingFrame, Zenon DEF DustStep
  <2> QED
    BY <2>1, <2>2, <2>3, <2>4, <2>5, ClaimsImplement, SettingFrame, MoneySteps,
       YieldSteps, LadderAndPolicySteps
       DEF Next, PolicyStep
<1> QED
  BY <1>1, <1>2, Invariance, PTL DEF Spec, ImplementsLedger, Ledger!Spec
=============================================================================
