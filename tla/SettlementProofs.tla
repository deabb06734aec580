-------------------------- MODULE SettlementProofs --------------------------
(***************************************************************************)
(* Debts, grants and escrows, for every value of their constants: a debt   *)
(* follows the borrow index, nothing is settled beyond what was granted,   *)
(* tokens in custody leave as their escrow says, and verdicts on concealed *)
(* escrows and disputes are final.                                         *)
(***************************************************************************)
EXTENDS Insurance, UptoAuthorization, VaultCustody, ConcealedEscrow, TLAPS

-----------------------------------------------------------------------------
(* Interest.                                                               *)

\* Rounding down.
LEMMA Floors ==
  ASSUME NEW a \in Int, NEW c \in Nat \ {0}
  PROVE  /\ a \div c \in Int /\ c * (a \div c) <= a /\ a < c * (a \div c) + c
         /\ a >= 0 => a \div c >= 0
<1> DEFINE q == a \div c
<1>1. q \in Int /\ a = c * q + (a % c) /\ a % c \in 0..(c - 1)
  OBVIOUS
<1> HIDE DEF q
<1>2. c * q <= a /\ a < c * q + c /\ c * q \in Int
  BY <1>1
<1>3. a >= 0 => q >= 0
  BY <1>1, <1>2
<1> QED
  BY <1>1, <1>2, <1>3, Zenon DEF q

\* Products of naturals.
LEMMA Products ==
  ASSUME NEW a \in Nat, NEW b \in Nat
  PROVE  a * b \in Nat
OBVIOUS

\* A common factor of an inequality.
LEMMA Scaled ==
  ASSUME NEW a \in Int, NEW b \in Int, NEW c \in Nat
  PROVE  /\ a <= b => a * c <= b * c
         /\ c > 0 /\ a * c <= b * c => a <= b
<1>1. a <= b => a * c <= b * c
  OBVIOUS
<1>2. c > 0 /\ a > b => a * c > b * c
  OBVIOUS
<1>3. a * c \in Int /\ b * c \in Int
  OBVIOUS
<1> QED
  BY <1>1, <1>2, <1>3

\* The smaller of two fractions has the smaller whole part.
LEMMA FloorsOrdered ==
  ASSUME NEW a \in Nat, NEW c \in Nat \ {0}, NEW b \in Nat, NEW d \in Nat \ {0}, a * d <= b * c
  PROVE  a \div c <= b \div d
<1> DEFINE p == a \div c
           q == b \div d
<1>1. p \in Int /\ q \in Int /\ p >= 0 /\ q >= 0 /\ c * p <= a /\ b < d * q + d
  BY Floors
<1> HIDE DEF p, q
<1>2. SUFFICES ASSUME p >= q + 1  PROVE FALSE
  BY <1>1 DEF p, q
<1>3. (c * p) * d <= a * d /\ b * c < (d * q + d) * c
  <2>1. c * p \in Int /\ d * q + d \in Int
    BY <1>1
  <2>2. (c * p) * d <= a * d
    BY <1>1, <2>1, Scaled
  <2>3. b + 1 <= d * q + d
    BY <1>1, <2>1
  <2>4. (b + 1) * c <= (d * q + d) * c
    BY <2>1, <2>3, Scaled
  <2>5. (b + 1) * c = b * c + c /\ b * c \in Int /\ (d * q + d) * c \in Int
    BY <2>1
  <2> QED
    BY <2>2, <2>4, <2>5
<1>4. (c * p) * d = p * (c * d) /\ (d * q + d) * c = (q + 1) * (c * d) /\ c * d \in Nat
  BY <1>1
<1>5. (q + 1) * (c * d) <= p * (c * d)
  BY <1>1, <1>2, <1>4, Scaled
<1>6. p * (c * d) \in Int /\ (q + 1) * (c * d) \in Int /\ a * d \in Int /\ b * c \in Int
  BY <1>1, <1>4
<1> QED
  BY <1>3, <1>4, <1>5, <1>6

\* utilization_ratio: a share of BPS_ONE, and no more of the supply than the debt.
LEMMA UtilizationBounds ==
  ASSUME NEW b \in Int, NEW s \in Int
  PROVE  /\ utilization_ratio(b, s) \in 0..BPS_ONE
         /\ b >= 0 /\ s > 0 => s * utilization_ratio(b, s) <= b * BPS_ONE
<1> DEFINE q == (b * BPS_ONE) \div s
           u == utilization_ratio(b, s)
<1>0. BPS_ONE \in Nat \ {0}
  BY PoolAssumption, Zenon
<1>1. CASE b <= 0
  BY <1>0, <1>1 DEF utilization_ratio
<1>2. CASE b > 0 /\ s <= 0
  BY <1>0, <1>2 DEF utilization_ratio
<1>3. CASE b > 0 /\ s > 0
  <2>1. b * BPS_ONE \in Nat /\ s \in Nat \ {0}
    BY <1>0, <1>3
  <2>2. q \in Int /\ s * q <= b * BPS_ONE /\ q >= 0
    BY <2>1, Floors
  <2>3. u = Clamp(0, BPS_ONE, q)
    BY <1>3 DEF utilization_ratio
  <2> HIDE DEF q, u
  <2>4. u \in 0..BPS_ONE /\ u <= q
    BY <1>0, <2>2, <2>3 DEF Clamp
  <2>5. u * s <= q * s
    BY <2>1, <2>2, <2>4, Scaled
  <2>6. s * u <= b * BPS_ONE
    BY <2>1, <2>2, <2>4, <2>5
  <2> QED
    BY <2>4, <2>6, Zenon DEF u
<1> QED
  BY <1>1, <1>2, <1>3

\* The least rate of a second.
LeastRate == (BASE_RATE_BPS * INDEX_ONE) \div (BPS_ONE * SECONDS_PER_YEAR)

\* borrow_rate and supply_rate: the suppliers' rate is at most the share of the
\* borrowers' that the utilization and the reserve factor leave.
LEMMA RateBounds ==
  ASSUME NEW util \in 0..BPS_ONE
  PROVE  LET r == borrow_rate(util)
             s == supply_rate(r, util)
         IN  /\ r \in Nat /\ r >= LeastRate /\ LeastRate \in Nat /\ s \in Nat
             /\ s * (BPS_ONE * BPS_ONE) <= (r * util) * (BPS_ONE - RESERVE_FACTOR_BPS)
<1> DEFINE D == BPS_ONE * SECONDS_PER_YEAR
           k == (SLOPE_BPS * util) \div BPS_ONE
           r == borrow_rate(util)
           F == BPS_ONE - RESERVE_FACTOR_BPS
           s == supply_rate(r, util)
<1>1. /\ D \in Nat \ {0} /\ BPS_ONE * BPS_ONE \in Nat \ {0} /\ F \in Nat /\ SLOPE_BPS * util \in Nat
      /\ INDEX_ONE \in Nat /\ BASE_RATE_BPS \in Nat /\ util \in Nat /\ BPS_ONE \in Nat \ {0}
  BY PoolAssumption
<1>2. k \in Nat
  BY <1>1, Floors
<1> HIDE DEF k
<1>3. /\ (BASE_RATE_BPS + k) * INDEX_ONE \in Nat /\ BASE_RATE_BPS * INDEX_ONE \in Nat
      /\ BASE_RATE_BPS * INDEX_ONE <= (BASE_RATE_BPS + k) * INDEX_ONE
  BY <1>1, <1>2
<1>4. r = ((BASE_RATE_BPS + k) * INDEX_ONE) \div D
  BY Zenon DEF borrow_rate, k
<1>5. r \in Nat /\ LeastRate \in Nat /\ LeastRate <= r
  <2> DEFINE a == BASE_RATE_BPS * INDEX_ONE
             b == (BASE_RATE_BPS + k) * INDEX_ONE
  <2>1. a \in Nat /\ b \in Nat /\ a <= b
    BY <1>3, Zenon
  <2> HIDE DEF a, b, D
  <2>2. a * D <= b * D
    BY <1>1, <2>1, Scaled
  <2>a. a \div D \in Int /\ a \div D >= 0 /\ b \div D \in Int /\ b \div D >= 0
    BY <1>1, <2>1, Floors
  <2>b. a \div D <= b \div D
    BY <1>1, <2>1, <2>2, FloorsOrdered, Zenon
  <2>3. a \div D <= b \div D /\ a \div D \in Nat /\ b \div D \in Nat
    BY <2>a, <2>b
  <2> QED
    BY <1>4, <2>3, Zenon DEF LeastRate, a, b, D
<1> HIDE DEF r
<1>6. (r * util) * F \in Nat
  <2>1. r * util \in Nat
    BY <1>1, <1>5
  <2> QED
    BY <1>1, <2>1, Products, Zenon
<1>7. s = ((r * util) * F) \div (BPS_ONE * BPS_ONE)
  BY Zenon DEF supply_rate
<1> DEFINE n == (r * util) * F
           d == BPS_ONE * BPS_ONE
<1>8. n \in Nat /\ d \in Nat \ {0}
  BY <1>1, <1>6, Zenon
<1> HIDE DEF n, d
<1>9. n \div d \in Nat /\ d * (n \div d) <= n
  BY <1>8, Floors
<1>10. s = n \div d
  BY <1>7, Zenon DEF n, d
<1>11. s \in Nat /\ s * d <= n
  BY <1>8, <1>9, <1>10
<1> QED
  BY <1>5, <1>11, Zenon DEF n, d, r

-----------------------------------------------------------------------------
\* accrue_interest and accrue_supply: what an index grows by.
LEMMA CompoundedGrows ==
  ASSUME NEW i \in Nat, NEW r \in Nat, NEW dt \in Nat
  PROVE  /\ (i * (r * dt)) \div INDEX_ONE \in Nat
         /\ Compounded(i, r, dt) = i + (i * (r * dt)) \div INDEX_ONE
<1> DEFINE x == i * (r * dt)
           q == x \div INDEX_ONE
<1>0. INDEX_ONE \in Nat \ {0}
  BY PoolAssumption, Zenon
<1>1. r * dt \in Nat
  OBVIOUS
<1>2. x \in Nat
  BY <1>1, Products, Zenon
<1>3. q \in Int /\ q >= 0 /\ INDEX_ONE * q <= x /\ x < INDEX_ONE * q + INDEX_ONE
  <2> HIDE DEF x
  <2> QED
    BY <1>0, <1>2, Floors
<1>4. CASE dt = 0
  <2>1. x = 0 /\ Compounded(i, r, dt) = i
    BY <1>4 DEF Compounded
  <2>2. 0 \div INDEX_ONE = 0
    BY <1>0
  <2> QED
    BY <2>1, <2>2
<1>5. CASE dt > 0
  <2>1. i * (INDEX_ONE + r * dt) = i * INDEX_ONE + x
    BY <1>0, <1>1
  <2> HIDE DEF x, q
  <2>2. (i * INDEX_ONE + x) \div INDEX_ONE = i + q
    <3> DEFINE y == i * INDEX_ONE + x
               z == y \div INDEX_ONE
    <3>1. y \in Nat
      BY <1>0, <1>2
    <3>2. z \in Int /\ INDEX_ONE * z <= y /\ y < INDEX_ONE * z + INDEX_ONE
      <4> HIDE DEF y
      <4> QED
        BY <1>0, <3>1, Floors
    <3>3. y = i * INDEX_ONE + x
      BY Zenon
    <3> HIDE DEF y, z
    <3>4. INDEX_ONE * (i + q) <= y /\ y < INDEX_ONE * (i + q) + INDEX_ONE
      <4>1. INDEX_ONE * (i + q) = i * INDEX_ONE + INDEX_ONE * q
        BY <1>0, <1>3
      <4>2. i * INDEX_ONE \in Int /\ INDEX_ONE * q \in Int
        BY <1>0, <1>3
      <4> QED
        BY <1>0, <1>2, <1>3, <3>3, <4>1, <4>2
    <3>5. z = i + q
      <4>1. z < i + q + 1
        <5>1. INDEX_ONE * z < INDEX_ONE * (i + q + 1)
          BY <1>0, <1>3, <3>1, <3>2, <3>4
        <5> QED
          BY <1>0, <1>3, <3>2, <5>1
      <4>2. i + q < z + 1
        <5>1. INDEX_ONE * (i + q) < INDEX_ONE * (z + 1)
          BY <1>0, <1>3, <3>1, <3>2, <3>4
        <5> QED
          BY <1>0, <1>3, <3>2, <5>1
      <4> QED
        BY <1>3, <3>2, <4>1, <4>2
    <3> QED
      BY <3>5, Zenon DEF y, z
  <2>3. Compounded(i, r, dt) = (i * (INDEX_ONE + r * dt)) \div INDEX_ONE
    BY <1>5 DEF Compounded
  <2> QED
    BY <1>3, <2>1, <2>2, <2>3 DEF q, x
<1> QED
  BY <1>3, <1>4, <1>5

\* accrue_internal for any pool and ledger.
AccruedAt(p, t) ==
  LET dt == t - p.last_accrual
      util == utilization_ratio(p.borrowed, p.supplied)
      new_b == Compounded(p.borrow_index, borrow_rate(util), dt)
      new_s == Compounded(p.supply_index, supply_rate(borrow_rate(util), util), dt)
  IN  IF dt > 0 /\ (p.supplied > 0 \/ p.borrowed > 0)
      THEN [supplied |-> mul_div(p.supplied, new_s, p.supply_index),
            borrowed |-> mul_div(p.borrowed, new_b, p.borrow_index),
            supply_index |-> new_s, borrow_index |-> new_b, last_accrual |-> t]
      ELSE [p EXCEPT !.last_accrual = t]

\* Accrual as a function of the pool and the ledger.
LEMMA AccrueIsAt == accrue_internal = AccruedAt(pool, now)
BY Zenon DEF accrue_internal, AccruedAt

\* The pool's stored record.
PoolRecord == [supplied : Int, borrowed : Int, supply_index : Nat, borrow_index : Nat, last_accrual : Nat]

\* A pool whose indexes have not fallen below their start.
PoolGood(p) == p \in PoolRecord /\ p.supply_index >= INDEX_ONE /\ p.borrow_index >= INDEX_ONE

\* mul_div by a quotient of at least one: an integer, and the growth of a natural
\* amount rounded down.
LEMMA MulDivGrows ==
  ASSUME NEW a \in Int, NEW c \in Nat \ {0}, NEW x \in Nat
  PROVE  /\ mul_div(a, c + x, c) \in Int
         /\ a >= 0 => mul_div(a, c + x, c) = a + (a * x) \div c
         /\ a < 0 => mul_div(a, c + x, c) <= a
<1>1. CASE a >= 0
  <2> DEFINE y == a * x
             q == y \div c
             w == a * (c + x)
             z == w \div c
  <2>1. y \in Nat /\ w \in Nat /\ w = a * c + y /\ a * c \in Nat
    BY <1>1
  <2>2. mul_div(a, c + x, c) = z
    BY <1>1, Zenon DEF mul_div
  <2> HIDE DEF y, w
  <2>3. /\ q \in Int /\ c * q <= y /\ y < c * q + c
        /\ z \in Int /\ c * z <= w /\ w < c * z + c
    BY <2>1, Floors
  <2> HIDE DEF q, z
  <2>4. c * (a + q) = a * c + c * q /\ c * q \in Int /\ c * z \in Int
    BY <1>1, <2>3
  <2>5. c * z < c * (a + q + 1) /\ c * (a + q) < c * (z + 1)
    BY <1>1, <2>1, <2>3, <2>4
  <2>6. z < a + q + 1 /\ a + q < z + 1
    BY <1>1, <2>3, <2>5
  <2>7. z = a + q
    BY <1>1, <2>3, <2>6
  <2> QED
    BY <1>1, <2>2, <2>3, <2>7 DEF q, y
<1>2. CASE a < 0
  <2> DEFINE b == -a
             w == b * (c + x)
             z == w \div c
  <2>1. b \in Nat /\ w \in Nat /\ w >= b * c /\ b * c \in Nat
    BY <1>2
  <2>2. mul_div(a, c + x, c) = -z
    BY <1>2 DEF mul_div
  <2> HIDE DEF w
  <2>3. z \in Int /\ c * z <= w /\ w < c * z + c
    BY <2>1, Floors
  <2> HIDE DEF z, b
  <2>4. c * b < c * (z + 1)
    BY <2>1, <2>3
  <2>5. b < z + 1
    BY <2>1, <2>3, <2>4
  <2>6. -z <= a /\ -z \in Int
    BY <2>1, <2>3, <2>5 DEF b
  <2> QED
    BY <1>2, <2>2, <2>6
<1> QED
  BY <1>1, <1>2

\* What accrue_internal makes of a pool: the indexes grow, no later accrual has a
\* lower one, and at the ledger of the last accrual nothing changes.
LEMMA AccruedGood ==
  ASSUME NEW p, PoolGood(p), NEW t \in Nat, t >= p.last_accrual
  PROVE  LET q == AccruedAt(p, t)
         IN  /\ PoolGood(q) /\ q.last_accrual = t
             /\ q.supply_index >= p.supply_index /\ q.borrow_index >= p.borrow_index
             /\ t = p.last_accrual => q.borrow_index = p.borrow_index
             /\ AccruedAt(p, t + 1).borrow_index >= q.borrow_index
             /\ AccruedAt(p, t + 1).borrow_index \in Nat
<1> DEFINE dt == t - p.last_accrual
           util == utilization_ratio(p.borrowed, p.supplied)
           r == borrow_rate(util)
           s == supply_rate(r, util)
           nb(d) == (p.borrow_index * (r * d)) \div INDEX_ONE
           ns(d) == (p.supply_index * (s * d)) \div INDEX_ONE
           live == p.supplied > 0 \/ p.borrowed > 0
<1>1. /\ p.supplied \in Int /\ p.borrowed \in Int /\ p.supply_index \in Nat \ {0} /\ p.borrow_index \in Nat \ {0}
      /\ p.last_accrual \in Nat /\ INDEX_ONE \in Nat \ {0} /\ p \in PoolRecord
      /\ p.supply_index >= INDEX_ONE /\ p.borrow_index >= INDEX_ONE
  BY PoolAssumption DEF PoolGood, PoolRecord
<1>2. util \in 0..BPS_ONE
  BY <1>1, UtilizationBounds, Zenon
<1> HIDE DEF util
<1>3. r \in Nat /\ s \in Nat
  BY <1>2, RateBounds, Zenon
<1>4. dt \in Nat /\ dt + 1 \in Nat /\ (t + 1) - p.last_accrual = dt + 1
  BY <1>1
<1> HIDE DEF r, s
<1>5. /\ nb(dt) \in Nat /\ Compounded(p.borrow_index, r, dt) = p.borrow_index + nb(dt)
      /\ ns(dt) \in Nat /\ Compounded(p.supply_index, s, dt) = p.supply_index + ns(dt)
      /\ nb(dt + 1) \in Nat /\ Compounded(p.borrow_index, r, dt + 1) = p.borrow_index + nb(dt + 1)
      /\ ns(dt + 1) \in Nat /\ Compounded(p.supply_index, s, dt + 1) = p.supply_index + ns(dt + 1)
  <2>1. ASSUME NEW d \in Nat
        PROVE  /\ nb(d) \in Nat /\ Compounded(p.borrow_index, r, d) = p.borrow_index + nb(d)
               /\ ns(d) \in Nat /\ Compounded(p.supply_index, s, d) = p.supply_index + ns(d)
    <3>1. p.borrow_index \in Nat /\ p.supply_index \in Nat
      BY <1>1, Zenon
    <3> QED
      BY ZenonT(60), <1>3, <3>1, CompoundedGrows
  <2> HIDE DEF dt, nb, ns
  <2> QED
    BY <1>4, <2>1, Zenon
<1>6. nb(dt) <= nb(dt + 1)
  <2> DEFINE a == p.borrow_index * (r * dt)
             b == p.borrow_index * (r * (dt + 1))
  <2>1. r * dt \in Nat /\ r * (dt + 1) \in Nat /\ r * dt <= r * (dt + 1)
    BY <1>3, <1>4
  <2>2. a \in Nat /\ b \in Nat /\ a <= b
    <3> HIDE DEF dt
    <3> QED
      BY <1>1, <2>1
  <2> HIDE DEF a, b
  <2>3. a * INDEX_ONE <= b * INDEX_ONE
    BY <1>1, <2>2, Scaled
  <2>4. a \div INDEX_ONE <= b \div INDEX_ONE
    BY <1>1, <2>2, <2>3, FloorsOrdered, Zenon
  <2> QED
    BY <2>4, Zenon DEF a, b
<1> DEFINE x == ns(dt)
           y == nb(dt)
           y1 == nb(dt + 1)
           x1 == ns(dt + 1)
<1> DEFINE At(d, u, v, l) == IF d > 0 /\ live
              THEN [supplied |-> mul_div(p.supplied, p.supply_index + u, p.supply_index),
                    borrowed |-> mul_div(p.borrowed, p.borrow_index + v, p.borrow_index),
                    supply_index |-> p.supply_index + u, borrow_index |-> p.borrow_index + v, last_accrual |-> l]
              ELSE [p EXCEPT !.last_accrual = l]
<1>7. AccruedAt(p, t) = At(dt, x, y, t)
  BY <1>5, Zenon DEF AccruedAt, util, r, s
<1>8. AccruedAt(p, t + 1) = At(dt + 1, x1, y1, t + 1)
  BY <1>4, <1>5, Zenon DEF AccruedAt, util, r, s
<1>9. x \in Nat /\ y \in Nat /\ y1 \in Nat /\ x1 \in Nat /\ y <= y1
  BY <1>5, <1>6, Zenon
<1> HIDE DEF x, y, x1, y1, dt, nb, ns, live
<1>10. mul_div(p.supplied, p.supply_index + x, p.supply_index) \in Int /\ mul_div(p.borrowed, p.borrow_index + y, p.borrow_index) \in Int
  BY <1>1, <1>9, MulDivGrows, Zenon
<1>11. CASE dt > 0 /\ live
  <2>1. AccruedAt(p, t) = [supplied |-> mul_div(p.supplied, p.supply_index + x, p.supply_index),
                    borrowed |-> mul_div(p.borrowed, p.borrow_index + y, p.borrow_index),
                    supply_index |-> p.supply_index + x, borrow_index |-> p.borrow_index + y, last_accrual |-> t]
    BY <1>7, <1>11, Zenon
  <2>2. AccruedAt(p, t + 1).borrow_index = p.borrow_index + y1 /\ dt + 1 > 0
    BY <1>4, <1>8, <1>11
  <2>3. dt = t - p.last_accrual
    BY Zenon DEF dt
  <2> QED
    BY <1>1, <1>9, <1>10, <1>11, <2>1, <2>2, <2>3 DEF PoolGood, PoolRecord
<1>12. CASE ~ (dt > 0 /\ live)
  <2>1. AccruedAt(p, t) = [p EXCEPT !.last_accrual = t]
    BY <1>7, <1>12, Zenon
  <2>2. /\ AccruedAt(p, t).borrow_index = p.borrow_index /\ AccruedAt(p, t).supply_index = p.supply_index
        /\ AccruedAt(p, t).last_accrual = t /\ AccruedAt(p, t) \in PoolRecord
    BY <1>1, <2>1, Zenon DEF PoolRecord
  <2>3. AccruedAt(p, t + 1).borrow_index \in {p.borrow_index + y1, p.borrow_index}
    <3>1. CASE dt + 1 > 0 /\ live
      BY <1>8, <3>1
    <3>2. CASE ~ (dt + 1 > 0 /\ live)
      BY <1>1, <1>8, <3>2, Zenon DEF PoolRecord
    <3> QED
      BY <3>1, <3>2, Zenon
  <2> QED
    BY <1>1, <1>9, <2>2, <2>3 DEF PoolGood
<1> QED
  BY <1>11, <1>12, Zenon

\* accrue_internal credits the suppliers with no more than it charges the borrowers.
LEMMA YieldBound ==
  ASSUME NEW p, PoolGood(p), NEW t \in Nat, t >= p.last_accrual, p.borrowed >= 0
  PROVE  AccruedAt(p, t).supplied - p.supplied <= AccruedAt(p, t).borrowed - p.borrowed
<1> DEFINE dt == t - p.last_accrual
           util == utilization_ratio(p.borrowed, p.supplied)
           r == borrow_rate(util)
           s == supply_rate(r, util)
           S == p.supplied
           B == p.borrowed
           si == p.supply_index
           bi == p.borrow_index
           x == (si * (s * dt)) \div INDEX_ONE
           y == (bi * (r * dt)) \div INDEX_ONE
           F == BPS_ONE - RESERVE_FACTOR_BPS
           live == S > 0 \/ B > 0
<1>1. /\ S \in Int /\ B \in Nat /\ si \in Nat \ {0} /\ bi \in Nat \ {0}
      /\ p.last_accrual \in Nat /\ INDEX_ONE \in Nat \ {0} /\ p \in PoolRecord /\ bi >= INDEX_ONE
      /\ BPS_ONE \in Nat \ {0} /\ RESERVE_FACTOR_BPS \in Nat /\ F \in Nat
  BY PoolAssumption DEF PoolGood, PoolRecord
<1>2. util \in 0..BPS_ONE /\ (S > 0 => S * util <= B * BPS_ONE)
  <2>1. B \in Int /\ S \in Int /\ B >= 0
    BY <1>1
  <2> QED
    BY ZenonT(60), <2>1, UtilizationBounds
<1> HIDE DEF util
<1>3. /\ r \in Nat /\ s \in Nat /\ r >= LeastRate /\ LeastRate \in Nat
      /\ s * (BPS_ONE * BPS_ONE) <= (r * util) * F
  BY <1>2, RateBounds, Zenon
<1>4. RESERVE_FACTOR_BPS * r >= BPS_ONE
  <2>1. RESERVE_FACTOR_BPS * LeastRate >= BPS_ONE
    BY PoolAssumption, Zenon DEF LeastRate
  <2>2. LeastRate * RESERVE_FACTOR_BPS <= r * RESERVE_FACTOR_BPS
    BY <1>1, <1>3, Scaled
  <2> QED
    BY <1>1, <1>3, <2>1, <2>2
<1>5. dt \in Nat
  BY <1>1
<1> HIDE DEF r, s
<1>6. CASE ~ (dt > 0 /\ live)
  <2>1. AccruedAt(p, t) = [p EXCEPT !.last_accrual = t]
    BY <1>6, Zenon DEF AccruedAt
  <2> QED
    BY <1>1, <2>1 DEF PoolRecord
<1>7. CASE dt > 0 /\ live
  <2>1. /\ x \in Nat /\ Compounded(si, s, dt) = si + x
        /\ y \in Nat /\ Compounded(bi, r, dt) = bi + y
    <3>1. si \in Nat /\ bi \in Nat
      BY <1>1, Zenon
    <3> QED
      BY ZenonT(60), <1>3, <1>5, <3>1, CompoundedGrows
  <2>2. AccruedAt(p, t).supplied = mul_div(S, si + x, si) /\ AccruedAt(p, t).borrowed = mul_div(B, bi + y, bi)
    BY <1>7, <2>1, Zenon DEF AccruedAt, util, r, s
  <2>3. r * dt \in Nat /\ s * dt \in Nat
    BY <1>3, <1>5
  <2>4. INDEX_ONE * x <= si * (s * dt) /\ bi * (r * dt) < INDEX_ONE * y + INDEX_ONE
    <3> DEFINE a == si * (s * dt)
               b == bi * (r * dt)
    <3>1. a \in Nat /\ b \in Nat
      <4> HIDE DEF dt
      <4> QED
        BY <1>1, <2>3, Products, Zenon
    <3> HIDE DEF a, b
    <3>2. INDEX_ONE * (a \div INDEX_ONE) <= a /\ b < INDEX_ONE * (b \div INDEX_ONE) + INDEX_ONE
      BY <1>1, <3>1, Floors
    <3> QED
      BY <3>2, Zenon DEF a, b
  <2> HIDE DEF x, y, S, B, si, bi, dt, F
  <2>5. /\ AccruedAt(p, t).borrowed = B + (B * y) \div bi /\ (B * y) \div bi \in Nat
    <3>1. B * y \in Nat
      BY <1>1, <2>1
    <3> DEFINE n == B * y
    <3> HIDE DEF n
    <3>2. n \div bi \in Int /\ n \div bi >= 0
      BY <1>1, <3>1, Floors DEF n
    <3>3. mul_div(B, bi + y, bi) = B + n \div bi
      <4>1. B \in Int /\ B >= 0
        BY <1>1
      <4> QED
        BY ZenonT(60), <1>1, <2>1, <4>1, MulDivGrows DEF n
    <3> QED
      BY <2>2, <3>2, <3>3 DEF n
  <2>6. CASE S < 0
    <3>1. AccruedAt(p, t).supplied <= S /\ AccruedAt(p, t).supplied \in Int
      BY <1>1, <2>1, <2>2, <2>6, MulDivGrows, Zenon
    <3> QED
      BY <1>1, <2>5, <3>1 DEF S, B
  <2>7. CASE S >= 0
    <3>1. AccruedAt(p, t).supplied = S + (S * x) \div si
      BY <1>1, <2>1, <2>2, <2>7, MulDivGrows, Zenon
    <3>2. S \in Nat /\ S * util <= B * BPS_ONE
      BY <1>1, <1>2, <2>7
    <3> DEFINE c == BPS_ONE * INDEX_ONE
               rd == r * dt
               K == ((F * rd) * B) * si
    <3>3. rd \in Nat /\ c \in Nat \ {0} /\ K \in Nat
      <4>1. rd \in Nat /\ c \in Nat \ {0}
        BY <1>1, <2>3
      <4>2. F * rd \in Nat
        BY <1>1, <4>1, Products, Zenon
      <4>3. (F * rd) * B \in Nat
        BY <1>1, <4>2, Products, Zenon
      <4>4. K \in Nat
        BY <1>1, <4>3, Products, Zenon
      <4> QED
        BY <4>1, <4>4, Zenon
    <3>4. (S * x) * c <= K
      <4>1. (x * INDEX_ONE) * S <= (si * (s * dt)) * S
        BY <1>1, <2>1, <2>3, <2>4, <3>2, Scaled
      <4> DEFINE P2 == BPS_ONE * BPS_ONE
                 m == (dt * S) * si
      <4>2. m \in Nat /\ P2 \in Nat \ {0} /\ s * P2 \in Nat /\ util \in Nat
        <5>1. dt * S \in Nat
          BY <1>5, <3>2
        <5>2. m \in Nat
          BY <1>1, <5>1, Products, Zenon
        <5> QED
          BY <1>1, <1>2, <1>3, <5>2
      <4>3. (s * P2) * m <= ((r * util) * F) * m
        <5>1. (r * util) * F \in Nat
          BY <1>1, <1>2, <1>3
        <5> HIDE DEF m
        <5> QED
          BY <1>3, <4>2, <5>1, Scaled
      <4>4. ((r * util) * F) * m = (S * util) * ((F * rd) * si)
        BY <1>1, <1>3, <1>5, <3>2, <4>2
      <4>5. (S * util) * ((F * rd) * si) <= (B * BPS_ONE) * ((F * rd) * si)
        <5>1. (F * rd) * si \in Nat
          <6>1. F * rd \in Nat
            BY <1>1, <3>3, Products, Zenon
          <6> QED
            BY <1>1, <6>1, Products, Zenon
        <5>2. S * util \in Int /\ B * BPS_ONE \in Int
          BY <1>1, <3>2, <4>2
        <5> QED
          BY <3>2, <5>1, <5>2, Scaled, Zenon
      <4>6. (B * BPS_ONE) * ((F * rd) * si) = K * BPS_ONE
        BY <1>1, <3>3
      <4>7. (s * P2) * m = (((si * (s * dt)) * S) * BPS_ONE) * BPS_ONE
        BY <1>1, <1>3, <1>5, <3>2
      <4>8. ((si * (s * dt)) * S) * BPS_ONE <= K
        <5> DEFINE a == ((si * (s * dt)) * S) * BPS_ONE
        <5>1. a \in Nat
          <6>1. si * (s * dt) \in Nat
            BY <1>1, <2>3, Products, Zenon
          <6>2. (si * (s * dt)) * S \in Nat
            BY <3>2, <6>1, Products, Zenon
          <6> QED
            BY <1>1, <6>2, Products, Zenon
        <5>2. (s * P2) * m = a * BPS_ONE
          BY <4>7, Zenon
        <5> HIDE DEF a, K, P2, m
        <5>3. a * BPS_ONE <= K * BPS_ONE
          <6>1. a * BPS_ONE \in Int /\ K * BPS_ONE \in Int /\ ((r * util) * F) * m \in Int
            <7>1. (r * util) * F \in Int
              BY <1>1, <1>2, <1>3
            <7> QED
              BY <1>1, <3>3, <4>2, <5>1, <7>1
          <6> QED
            BY <4>3, <4>4, <4>5, <4>6, <5>2, <6>1
        <5>4. a <= K
          BY <1>1, <3>3, <5>1, <5>3, Scaled
        <5> QED
          BY <5>4, Zenon DEF a
      <4>9. ((x * INDEX_ONE) * S) * BPS_ONE <= ((si * (s * dt)) * S) * BPS_ONE
        <5> DEFINE a == (x * INDEX_ONE) * S
                   b == (si * (s * dt)) * S
        <5>1. a \in Int /\ b \in Int
          <6>1. si * (s * dt) \in Nat /\ x * INDEX_ONE \in Nat
            BY <1>1, <2>1, <2>3, Products, Zenon
          <6> QED
            BY <3>2, <6>1, Products
        <5>2. a <= b
          BY <4>1, Zenon
        <5> HIDE DEF a, b
        <5>3. a * BPS_ONE <= b * BPS_ONE
          BY <1>1, <5>1, <5>2, Scaled, Zenon
        <5> QED
          BY <5>3, Zenon DEF a, b
      <4>10. ((x * INDEX_ONE) * S) * BPS_ONE = (S * x) * c
        BY <1>1, <2>1, <3>2
      <4>11. (S * x) * c \in Int /\ ((si * (s * dt)) * S) * BPS_ONE \in Int
        <5>1. si * (s * dt) \in Nat /\ S * x \in Nat
          BY <1>1, <2>1, <2>3, <3>2, Products, Zenon
        <5>2. (si * (s * dt)) * S \in Nat
          BY <3>2, <5>1, Products, Zenon
        <5> QED
          BY <1>1, <3>3, <5>1, <5>2, Products
      <4> HIDE DEF K, c
      <4> QED
        BY <3>3, <4>8, <4>9, <4>10, <4>11
    <3>5. F * (bi * rd) <= y * c
      <4> DEFINE b == bi * rd
      <4>1. b \in Nat /\ b < INDEX_ONE * y + INDEX_ONE
        BY <1>1, <2>4, <3>3
      <4>2. BPS_ONE * INDEX_ONE <= RESERVE_FACTOR_BPS * b
        <5>1. rd >= r
          BY <1>3, <1>5, <1>7
        <5>2. RESERVE_FACTOR_BPS * rd >= BPS_ONE /\ RESERVE_FACTOR_BPS * rd \in Nat
          <6> HIDE DEF rd
          <6>1. r * RESERVE_FACTOR_BPS <= rd * RESERVE_FACTOR_BPS
            BY <1>1, <1>3, <3>3, <5>1, Scaled
          <6> QED
            BY <1>1, <1>3, <1>4, <3>3, <6>1
        <5> DEFINE e == RESERVE_FACTOR_BPS * rd
        <5> HIDE DEF e
        <5>3. BPS_ONE * INDEX_ONE <= e * INDEX_ONE /\ INDEX_ONE * e <= bi * e
          BY <1>1, <5>2, Scaled DEF e
        <5>4. bi * e = RESERVE_FACTOR_BPS * b
          BY <1>1, <3>3 DEF e
        <5>5. e \in Nat /\ e * INDEX_ONE = INDEX_ONE * e /\ BPS_ONE * INDEX_ONE \in Int /\ e * INDEX_ONE \in Int /\ bi * e \in Int
          BY <1>1, <5>2 DEF e
        <5> QED
          BY <5>3, <5>4, <5>5
      <4> HIDE DEF b
      <4>3. b * BPS_ONE <= (INDEX_ONE * y + INDEX_ONE) * BPS_ONE
        BY <1>1, <2>1, <4>1, Scaled
      <4>4. /\ (INDEX_ONE * y + INDEX_ONE) * BPS_ONE = y * c + BPS_ONE * INDEX_ONE
            /\ F * b = b * BPS_ONE - RESERVE_FACTOR_BPS * b
        BY <1>1, <2>1, <4>1 DEF F
      <4>5. /\ y * c \in Int /\ b * BPS_ONE \in Int /\ RESERVE_FACTOR_BPS * b \in Int
            /\ BPS_ONE * INDEX_ONE \in Int /\ F * b \in Int
        BY <1>1, <2>1, <3>3, <4>1
      <4>6. F * b <= y * c
        <5> HIDE DEF c
        <5> QED
          BY <4>2, <4>3, <4>4, <4>5
      <4> QED
        BY <4>6, Zenon DEF b
    <3>6. ((S * x) * c) * bi <= K * bi
      <4>1. (S * x) * c \in Int
        BY <1>1, <2>1, <3>2, <3>3
      <4> HIDE DEF K, c
      <4> QED
        BY <1>1, <3>3, <3>4, <4>1, Scaled
    <3>7. K * bi = (F * (bi * rd)) * (B * si)
      BY <1>1, <3>3
    <3>8. (F * (bi * rd)) * (B * si) <= (y * c) * (B * si)
      <4>1. B * si \in Nat /\ F * (bi * rd) \in Int /\ y * c \in Int
        BY <1>1, <2>1, <3>3
      <4> HIDE DEF c, rd
      <4> QED
        BY <3>5, <4>1, Scaled, Zenon
    <3>9. ((S * x) * bi) * c <= ((B * y) * si) * c
      <4>1. ((S * x) * c) * bi = ((S * x) * bi) * c /\ (y * c) * (B * si) = ((B * y) * si) * c
        BY <1>1, <2>1, <3>2, <3>3
      <4>2. K * bi \in Int /\ ((S * x) * bi) * c \in Int /\ ((B * y) * si) * c \in Int
        <5>1. (S * x) * bi \in Nat /\ (B * y) * si \in Nat
          <6>1. S * x \in Nat /\ B * y \in Nat
            BY <1>1, <2>1, <3>2
          <6> QED
            BY <1>1, <6>1, Products, Zenon
        <5> HIDE DEF K
        <5> QED
          BY <1>1, <3>3, <5>1
      <4> HIDE DEF K, c, rd
      <4> QED
        BY <3>6, <3>7, <3>8, <4>1, <4>2
    <3>10. (S * x) * bi <= (B * y) * si
      <4>1. (S * x) * bi \in Int /\ (B * y) * si \in Int
        BY <1>1, <2>1, <3>2
      <4> HIDE DEF c
      <4> QED
        BY <3>3, <3>9, <4>1, Scaled
    <3>11. S * x \in Nat /\ B * y \in Nat
      BY <1>1, <2>1, <3>2
    <3>12. (S * x) \div si <= (B * y) \div bi
      BY <1>1, <3>10, <3>11, FloorsOrdered, Zenon
    <3>13. (S * x) \div si \in Int
      BY <1>1, <3>11, Floors
    <3> QED
      BY <1>1, <2>5, <3>1, <3>12, <3>13 DEF S, B
  <2> QED
    BY <1>1, <2>6, <2>7
<1> QED
  BY <1>6, <1>7, Zenon

-----------------------------------------------------------------------------
(* Debts.                                                                  *)

\* A position no checkpoint of which is ahead of the indexes of p.
InfoGood(i, p) ==
  /\ i \in UserInfo
  /\ i.supply_checkpoint \in INDEX_ONE..p.supply_index
  /\ i.borrow_checkpoint \in INDEX_ONE..p.borrow_index

\* The inductive invariant.
PoolInv ==
  /\ now \in Nat /\ cash \in Nat
  /\ PoolGood(pool) /\ pool.last_accrual <= now
  /\ user_info \in [PoolUsers -> UserInfo \union {None}]
  /\ \A u \in PoolUsers : user_info[u] # None => InfoGood(user_info[u], pool)

\* What a position owes at a borrow index.
DebtAt(i, index) ==
  IF i = None THEN 0 ELSE i.borrowed + (i.borrowed * (index - i.borrow_checkpoint)) \div INDEX_ONE

\* A user's debt as a function of the borrow index.
LEMMA DebtIsAt ==
  ASSUME NEW u \in PoolUsers
  PROVE  DebtOf(u) = DebtAt(user_info[u], AccruedAt(pool, now).borrow_index)
BY AccrueIsAt, Zenon DEF DebtOf, DebtAt

\* A debt is a natural number, does not fall with the index, and is what was
\* borrowed at its checkpoint.
LEMMA DebtGrows ==
  ASSUME NEW i \in UserInfo, NEW a \in Nat, NEW b \in Nat, i.borrow_checkpoint <= a, a <= b
  PROVE  /\ DebtAt(i, a) \in Nat /\ DebtAt(i, b) \in Nat /\ DebtAt(i, a) <= DebtAt(i, b)
         /\ a = i.borrow_checkpoint => DebtAt(i, a) = i.borrowed
         /\ DebtAt(i, a) = i.borrowed + (i.borrowed * (a - i.borrow_checkpoint)) \div INDEX_ONE
<1> DEFINE n == i.borrowed
           x == n * (a - i.borrow_checkpoint)
           y == n * (b - i.borrow_checkpoint)
<1>1. n \in Nat /\ i.borrow_checkpoint \in Nat /\ i # None /\ INDEX_ONE \in Nat \ {0}
  BY PoolAssumption, Zenon DEF UserInfo
<1>2. a - i.borrow_checkpoint \in Nat /\ b - i.borrow_checkpoint \in Nat /\ a - i.borrow_checkpoint <= b - i.borrow_checkpoint
  BY <1>1
<1>3. x \in Nat /\ y \in Nat /\ x <= y /\ (a = i.borrow_checkpoint => x = 0)
  BY <1>1, <1>2
<1>4. DebtAt(i, a) = n + x \div INDEX_ONE /\ DebtAt(i, b) = n + y \div INDEX_ONE
  BY <1>1, Zenon DEF DebtAt
<1> HIDE DEF x, y, n
<1>5. x * INDEX_ONE <= y * INDEX_ONE
  BY <1>1, <1>3, Scaled
<1>6. x \div INDEX_ONE <= y \div INDEX_ONE
  BY <1>1, <1>3, <1>5, FloorsOrdered, Zenon
<1>7. x \div INDEX_ONE \in Int /\ x \div INDEX_ONE >= 0 /\ y \div INDEX_ONE \in Int /\ y \div INDEX_ONE >= 0 /\ 0 \div INDEX_ONE = 0
  BY <1>1, <1>3, Floors
<1>8. a = i.borrow_checkpoint => DebtAt(i, a) = n
  BY <1>1, <1>3, <1>4, <1>7
<1>9. DebtAt(i, a) = n + (n * (a - i.borrow_checkpoint)) \div INDEX_ONE
  BY <1>4, Zenon DEF x
<1> QED
  BY <1>1, <1>4, <1>6, <1>7, <1>8, <1>9 DEF n

\* settle_user: the position of a user at the pool of this call, owing what the
\* user owed.
LEMMA SettledGood ==
  ASSUME PoolInv, NEW u \in PoolUsers
  PROVE  LET q == AccruedAt(pool, now)
             i == settle_user(u, q)
         IN  /\ PoolGood(q) /\ q.last_accrual = now
             /\ InfoGood(i, q) /\ i.borrow_checkpoint = q.borrow_index
             /\ i.borrowed = DebtOf(u) /\ DebtOf(u) \in Nat
<1> DEFINE q == AccruedAt(pool, now)
           j == load_user(u, q)
           i == settle_user(u, q)
<1>1. /\ PoolGood(q) /\ q.last_accrual = now
      /\ q.supply_index >= pool.supply_index /\ q.borrow_index >= pool.borrow_index
  BY AccruedGood, Zenon DEF PoolInv
<1>2. /\ q.supply_index \in Nat /\ q.borrow_index \in Nat /\ pool.supply_index \in Nat /\ pool.borrow_index \in Nat
      /\ q.supply_index >= INDEX_ONE /\ q.borrow_index >= INDEX_ONE /\ INDEX_ONE \in Nat \ {0}
  BY <1>1, PoolAssumption, Zenon DEF PoolGood, PoolRecord, PoolInv
<1> HIDE DEF q
<1>3. InfoGood(j, q)
  <2>1. CASE user_info[u] # None
    <3>1. InfoGood(user_info[u], pool) /\ j = user_info[u]
      BY <2>1, Zenon DEF PoolInv, load_user
    <3> QED
      BY <1>1, <1>2, <3>1 DEF InfoGood
  <2>2. CASE user_info[u] = None
    <3>1. j = [supplied |-> 0, borrowed |-> 0, supply_checkpoint |-> q.supply_index,
               borrow_checkpoint |-> q.borrow_index]
      BY <2>2, Zenon DEF load_user
    <3> HIDE DEF j
    <3>2. /\ j \in UserInfo /\ j.supply_checkpoint = q.supply_index /\ j.borrow_checkpoint = q.borrow_index
      BY <1>2, <3>1, Zenon DEF UserInfo
    <3> QED
      BY <1>2, <3>2 DEF InfoGood
  <2> QED
    BY <2>1, <2>2, Zenon
<1>4. DebtOf(u) = DebtAt(j, q.borrow_index)
  <2>1. DebtOf(u) = DebtAt(user_info[u], q.borrow_index)
    BY DebtIsAt, Zenon DEF q
  <2>2. CASE user_info[u] # None
    BY <2>1, <2>2, Zenon DEF load_user
  <2>3. CASE user_info[u] = None
    <3>1. j = [supplied |-> 0, borrowed |-> 0, supply_checkpoint |-> q.supply_index,
               borrow_checkpoint |-> q.borrow_index]
      BY <2>3 DEF load_user
    <3>2. j \in UserInfo /\ j.borrow_checkpoint = q.borrow_index /\ j.borrowed = 0 /\ q.borrow_index <= q.borrow_index
      BY <1>2, <3>1 DEF UserInfo
    <3> HIDE DEF j
    <3>3. DebtAt(j, q.borrow_index) = 0
      BY <1>2, <3>2, DebtGrows, Zenon
    <3> QED
      BY <2>1, <2>3, <3>3, Zenon DEF DebtAt
  <2> QED
    BY <2>2, <2>3, Zenon
<1> HIDE DEF j
<1>5. /\ j \in UserInfo /\ j.supplied \in Nat /\ j.borrow_checkpoint <= q.borrow_index /\ q.borrow_index <= q.borrow_index
      /\ j.supply_checkpoint \in Nat /\ j.supply_checkpoint <= q.supply_index
  BY <1>2, <1>3 DEF InfoGood, UserInfo
<1>6. /\ DebtAt(j, q.borrow_index) \in Nat
      /\ DebtAt(j, q.borrow_index) = j.borrowed + (j.borrowed * (q.borrow_index - j.borrow_checkpoint)) \div INDEX_ONE
  BY <1>2, <1>5, DebtGrows, Zenon
<1> DEFINE w == j.supplied * (q.supply_index - j.supply_checkpoint)
<1>7. w \in Nat
  BY <1>2, <1>5
<1>8. w \div INDEX_ONE \in Nat
  <2> HIDE DEF w
  <2>1. w \div INDEX_ONE \in Int /\ w \div INDEX_ONE >= 0
    BY <1>2, <1>7, Floors
  <2> QED
    BY <2>1
<1>9. i = [supplied |-> j.supplied + w \div INDEX_ONE, borrowed |-> DebtAt(j, q.borrow_index),
           supply_checkpoint |-> q.supply_index, borrow_checkpoint |-> q.borrow_index]
  BY <1>6, Zenon DEF settle_user, settle_view, j
<1> HIDE DEF i, w
<1>10. j.supplied + w \div INDEX_ONE \in Nat
  BY <1>5, <1>8
<1>11. /\ i \in UserInfo /\ i.borrowed = DebtAt(j, q.borrow_index)
       /\ i.supply_checkpoint = q.supply_index /\ i.borrow_checkpoint = q.borrow_index
  BY <1>2, <1>6, <1>9, <1>10, Zenon DEF UserInfo
<1>12. InfoGood(i, q)
  BY <1>2, <1>11 DEF InfoGood
<1> QED
  BY <1>1, <1>4, <1>6, <1>11, <1>12, Zenon DEF q, i

\* A call that leaves the indexes accrued and stores one position i.
LEMMA CallKeeps ==
  ASSUME PoolInv, now' = now, NEW u \in PoolUsers, NEW i,
         pool' \in PoolRecord, cash' \in Nat,
         pool'.supply_index = AccruedAt(pool, now).supply_index,
         pool'.borrow_index = AccruedAt(pool, now).borrow_index, pool'.last_accrual = now,
         user_info' = [user_info EXCEPT ![u] = i], InfoGood(i, AccruedAt(pool, now)),
         i.borrow_checkpoint = AccruedAt(pool, now).borrow_index
  PROVE  /\ PoolInv' /\ DebtOf(u)' = i.borrowed
         /\ \A v \in PoolUsers \ {u} : DebtOf(v)' = DebtOf(v)
<1> DEFINE q == AccruedAt(pool, now)
<1>1. /\ PoolGood(q) /\ q.supply_index >= pool.supply_index /\ q.borrow_index >= pool.borrow_index
  BY AccruedGood, Zenon DEF PoolInv
<1>2. /\ q.supply_index \in Nat /\ q.borrow_index \in Nat /\ pool.supply_index \in Nat /\ pool.borrow_index \in Nat
      /\ q.supply_index >= INDEX_ONE /\ q.borrow_index >= INDEX_ONE /\ INDEX_ONE \in Nat \ {0}
  BY <1>1, PoolAssumption, Zenon DEF PoolGood, PoolRecord, PoolInv
<1> HIDE DEF q
<1>3. PoolGood(pool') /\ now \in Nat /\ now >= pool'.last_accrual /\ now = pool'.last_accrual
  BY <1>2 DEF PoolGood, PoolInv, q
<1>4. AccruedAt(pool', now).borrow_index = q.borrow_index
  <2>1. AccruedAt(pool', now).borrow_index = pool'.borrow_index
    BY <1>3, AccruedGood, Zenon
  <2> QED
    BY <2>1, Zenon DEF q
<1>5. i \in UserInfo /\ i # None
  BY PoolAssumption, Zenon DEF InfoGood
<1>6. user_info \in [PoolUsers -> UserInfo \union {None}]
  BY Zenon DEF PoolInv
<1>7. /\ user_info' \in [PoolUsers -> UserInfo \union {None}]
      /\ user_info'[u] = i /\ \A v \in PoolUsers \ {u} : user_info'[v] = user_info[v]
  BY <1>5, <1>6, Zenon
<1>8. ASSUME NEW v \in PoolUsers, user_info'[v] # None  PROVE InfoGood(user_info'[v], pool')
  <2>1. CASE v = u
    BY <1>7, <2>1, Zenon DEF InfoGood, q
  <2>2. CASE v # u
    <3>1. InfoGood(user_info[v], pool) /\ user_info'[v] = user_info[v]
      BY <1>7, <1>8, <2>2, Zenon DEF PoolInv
    <3>2. pool'.supply_index = q.supply_index /\ pool'.borrow_index = q.borrow_index
      BY Zenon DEF q
    <3> QED
      BY <1>1, <1>2, <3>1, <3>2 DEF InfoGood
  <2> QED
    BY <2>1, <2>2, Zenon
<1>9. PoolInv'
  BY <1>3, <1>7, <1>8, Zenon DEF PoolInv
<1>10. \A v \in PoolUsers : DebtOf(v)' = DebtAt(user_info'[v], AccruedAt(pool', now').borrow_index)
  BY AccrueIsAt, Zenon DEF DebtOf, DebtAt, accrue_internal, AccruedAt
<1>11. \A v \in PoolUsers : DebtOf(v)' = DebtAt(user_info'[v], q.borrow_index)
  BY <1>4, <1>10, Zenon
<1>12. DebtAt(i, q.borrow_index) = i.borrowed
  <2>1. i.borrow_checkpoint = q.borrow_index /\ i.borrow_checkpoint <= q.borrow_index /\ q.borrow_index <= q.borrow_index
    BY <1>2 DEF q
  <2> QED
    BY <1>2, <1>5, <2>1, DebtGrows, Zenon
<1>13. \A v \in PoolUsers \ {u} : DebtOf(v)' = DebtOf(v)
  <2>1. \A v \in PoolUsers : DebtOf(v) = DebtAt(user_info[v], q.borrow_index)
    BY DebtIsAt, Zenon DEF q
  <2> QED
    BY <1>7, <1>11, <2>1, Zenon
<1> QED
  BY <1>7, <1>9, <1>11, <1>12, <1>13, Zenon

\* A pool with one total changed.
LEMMA AmountChanged ==
  \A p \in PoolRecord, n \in Int :
       /\ [p EXCEPT !.supplied = n] \in PoolRecord /\ [p EXCEPT !.borrowed = n] \in PoolRecord
       /\ [p EXCEPT !.supplied = n].supply_index = p.supply_index
       /\ [p EXCEPT !.supplied = n].borrow_index = p.borrow_index
       /\ [p EXCEPT !.supplied = n].last_accrual = p.last_accrual
       /\ [p EXCEPT !.borrowed = n].supply_index = p.supply_index
       /\ [p EXCEPT !.borrowed = n].borrow_index = p.borrow_index
       /\ [p EXCEPT !.borrowed = n].last_accrual = p.last_accrual
BY Zenon DEF PoolRecord

\* No step forgives a debt.
LEMMA PoolStepKeeps ==
  ASSUME PoolInv, PoolNext
  PROVE  PoolInv' /\ DebtFallsByRepayment
<1> DEFINE q == AccruedAt(pool, now)
<1>0. accrue_internal = q
  BY AccrueIsAt, Zenon
<1>1. PoolGood(q) /\ q.last_accrual = now /\ q \in PoolRecord /\ q.supplied \in Int /\ q.borrowed \in Int
        /\ q.supply_index >= pool.supply_index /\ q.borrow_index >= pool.borrow_index
  BY AccruedGood, Zenon DEF PoolInv, PoolGood, PoolRecord
<1>2. cash \in Nat /\ now \in Nat /\ user_info \in [PoolUsers -> UserInfo \union {None}]
  BY Zenon DEF PoolInv
<1> HIDE DEF q
<1>3. \A u \in PoolUsers : /\ InfoGood(settle_user(u, q), q) /\ settle_user(u, q) \in UserInfo
                           /\ settle_user(u, q).borrow_checkpoint = q.borrow_index
                           /\ settle_user(u, q).borrowed = DebtOf(u) /\ DebtOf(u) \in Nat
                           /\ settle_user(u, q).supplied \in Nat
  <2>1. \A u \in PoolUsers : /\ InfoGood(settle_user(u, q), q) /\ settle_user(u, q) \in UserInfo
                             /\ settle_user(u, q).borrow_checkpoint = q.borrow_index
                             /\ settle_user(u, q).borrowed = DebtOf(u) /\ DebtOf(u) \in Nat
    BY SettledGood, Zenon DEF q, InfoGood
  <2> QED
    BY <2>1, Zenon DEF UserInfo
<1>4. ASSUME NEW u \in PoolUsers, NEW i, now' = now,
             pool' \in PoolRecord, cash' \in Nat,
             pool'.supply_index = q.supply_index, pool'.borrow_index = q.borrow_index, pool'.last_accrual = now,
             user_info' = [user_info EXCEPT ![u] = i], InfoGood(i, q), i.borrow_checkpoint = q.borrow_index,
             i.borrowed < DebtOf(u) => DebtOf(u) - i.borrowed = cash' - cash
      PROVE  PoolInv' /\ DebtFallsByRepayment
  <2>1. /\ PoolInv' /\ DebtOf(u)' = i.borrowed
        /\ \A v \in PoolUsers \ {u} : DebtOf(v)' = DebtOf(v)
    BY <1>4, CallKeeps, Zenon DEF q
  <2>2. \A v \in PoolUsers \ {u} : ~ (DebtOf(v) < DebtOf(v))
    BY <1>3
  <2> QED
    BY <1>4, <2>1, <2>2, Zenon DEF DebtFallsByRepayment
<1>5. ASSUME NEW u \in PoolUsers, NEW n \in PoolAmounts, pool_deposit(u, n), now' = now
      PROVE  PoolInv' /\ DebtFallsByRepayment
  <2> DEFINE i == settle_user(u, q)
             k == q.supplied + n
             m == i.supplied + n
  <2>1. /\ n \in Int /\ n > 0 /\ pool' = [q EXCEPT !.supplied = k] /\ cash' = cash + n
        /\ user_info' = [user_info EXCEPT ![u] = [i EXCEPT !.supplied = m]]
    BY <1>0, <1>5, PoolAssumption, Zenon DEF pool_deposit
  <2>2. k \in Int /\ m \in Nat /\ cash' \in Nat
    BY <1>1, <1>2, <1>3, <2>1
  <2> HIDE DEF k, m, i
  <2>3. /\ i \in UserInfo /\ InfoGood(i, q) /\ i.borrow_checkpoint = q.borrow_index
        /\ i.borrowed = DebtOf(u) /\ ~ (DebtOf(u) < DebtOf(u))
    BY <1>3 DEF i
  <2>4. /\ pool' \in PoolRecord /\ pool'.supply_index = q.supply_index /\ pool'.borrow_index = q.borrow_index
        /\ pool'.last_accrual = now
    BY <1>1, <2>1, <2>2, AmountChanged, Zenon
  <2>5. /\ InfoGood([i EXCEPT !.supplied = m], q) /\ [i EXCEPT !.supplied = m].borrow_checkpoint = q.borrow_index
        /\ [i EXCEPT !.supplied = m].borrowed = DebtOf(u)
    BY <2>2, <2>3, Zenon DEF InfoGood, UserInfo
  <2> QED
    BY <1>4, <1>5, <2>1, <2>2, <2>3, <2>4, <2>5, Zenon
<1>6. ASSUME NEW u \in PoolUsers, NEW n \in PoolAmounts, pool_withdraw(u, n), now' = now
      PROVE  PoolInv' /\ DebtFallsByRepayment
  <2> DEFINE i == settle_user(u, q)
             k == q.supplied - n
             m == i.supplied - n
  <2>1. /\ n \in Int /\ n > 0 /\ pool' = [q EXCEPT !.supplied = k] /\ cash' = cash - n /\ cash >= n /\ n <= i.supplied
        /\ user_info' = [user_info EXCEPT ![u] = [i EXCEPT !.supplied = m]]
    BY <1>0, <1>6, PoolAssumption, Zenon DEF pool_withdraw
  <2>2. k \in Int /\ m \in Nat /\ cash' \in Nat
    BY <1>1, <1>2, <1>3, <2>1
  <2> HIDE DEF k, m, i
  <2>3. /\ i \in UserInfo /\ InfoGood(i, q) /\ i.borrow_checkpoint = q.borrow_index
        /\ i.borrowed = DebtOf(u) /\ ~ (DebtOf(u) < DebtOf(u))
    BY <1>3 DEF i
  <2>4. /\ pool' \in PoolRecord /\ pool'.supply_index = q.supply_index /\ pool'.borrow_index = q.borrow_index
        /\ pool'.last_accrual = now
    BY <1>1, <2>1, <2>2, AmountChanged, Zenon
  <2>5. /\ InfoGood([i EXCEPT !.supplied = m], q) /\ [i EXCEPT !.supplied = m].borrow_checkpoint = q.borrow_index
        /\ [i EXCEPT !.supplied = m].borrowed = DebtOf(u)
    BY <2>2, <2>3 DEF InfoGood, UserInfo
  <2> QED
    BY <1>4, <1>6, <2>1, <2>2, <2>3, <2>4, <2>5, Zenon
<1>7. ASSUME NEW u \in PoolUsers, NEW n \in PoolAmounts, pool_borrow(u, n), now' = now
      PROVE  PoolInv' /\ DebtFallsByRepayment
  <2> DEFINE i == settle_user(u, q)
             k == q.borrowed + n
             m == i.borrowed + n
  <2>1. /\ n \in Int /\ n > 0 /\ pool' = [q EXCEPT !.borrowed = k] /\ cash' = cash - n /\ cash >= n
        /\ user_info' = [user_info EXCEPT ![u] = [i EXCEPT !.borrowed = m]]
    BY <1>0, <1>7, PoolAssumption, Zenon DEF pool_borrow
  <2>2. k \in Int /\ m \in Nat /\ cash' \in Nat /\ ~ (m < DebtOf(u))
    BY <1>1, <1>2, <1>3, <2>1
  <2> HIDE DEF k, m, i
  <2>3. /\ i \in UserInfo /\ InfoGood(i, q) /\ i.borrow_checkpoint = q.borrow_index
    BY <1>3, Zenon DEF i
  <2>4. /\ pool' \in PoolRecord /\ pool'.supply_index = q.supply_index /\ pool'.borrow_index = q.borrow_index
        /\ pool'.last_accrual = now
    BY <1>1, <2>1, <2>2, AmountChanged, Zenon
  <2>5. /\ InfoGood([i EXCEPT !.borrowed = m], q) /\ [i EXCEPT !.borrowed = m].borrow_checkpoint = q.borrow_index
        /\ [i EXCEPT !.borrowed = m].borrowed = m
    BY <2>2, <2>3, Zenon DEF InfoGood, UserInfo
  <2> QED
    BY <1>4, <1>7, <2>1, <2>2, <2>3, <2>4, <2>5, Zenon
<1>8. ASSUME NEW u \in PoolUsers, NEW n \in PoolAmounts, pool_repay(u, n), now' = now
      PROVE  PoolInv' /\ DebtFallsByRepayment
  <2> DEFINE i == settle_user(u, q)
             a == IF n <= i.borrowed THEN n ELSE i.borrowed
             k == q.borrowed - a
             m == i.borrowed - a
  <2>1. /\ n \in Int /\ n > 0 /\ pool' = [q EXCEPT !.borrowed = k] /\ cash' = cash + a
        /\ user_info' = [user_info EXCEPT ![u] = [i EXCEPT !.borrowed = m]]
    BY <1>0, <1>8, PoolAssumption, Zenon DEF pool_repay
  <2>2. a \in Nat /\ a <= i.borrowed /\ i.borrowed \in Nat /\ i.borrowed = DebtOf(u)
    BY <1>3, <2>1
  <2> HIDE DEF a
  <2>a. k \in Int /\ m \in Nat /\ cash' \in Nat /\ DebtOf(u) - m = cash' - cash
    BY <1>1, <1>2, <2>1, <2>2
  <2> HIDE DEF k, m, i
  <2>3. /\ i \in UserInfo /\ InfoGood(i, q) /\ i.borrow_checkpoint = q.borrow_index
    BY <1>3 DEF i
  <2>4. /\ pool' \in PoolRecord /\ pool'.supply_index = q.supply_index /\ pool'.borrow_index = q.borrow_index
        /\ pool'.last_accrual = now
    BY <1>1, <2>1, <2>a, AmountChanged, Zenon
  <2>5. /\ InfoGood([i EXCEPT !.borrowed = m], q) /\ [i EXCEPT !.borrowed = m].borrow_checkpoint = q.borrow_index
        /\ [i EXCEPT !.borrowed = m].borrowed = m
    BY <2>a, <2>3, Zenon DEF InfoGood, UserInfo
  <2> QED
    BY <1>4, <1>8, <2>1, <2>a, <2>3, <2>4, <2>5, Zenon
<1>a. \A u \in PoolUsers : DebtOf(u)' = DebtAt(user_info'[u], AccruedAt(pool', now').borrow_index)
  BY AccrueIsAt, Zenon DEF DebtOf, DebtAt, accrue_internal, AccruedAt
<1>b. /\ q.supply_index \in Nat /\ q.borrow_index \in Nat /\ pool.supply_index \in Nat /\ pool.borrow_index \in Nat
      /\ INDEX_ONE \in Nat
  BY <1>1, PoolAssumption, Zenon DEF PoolInv, PoolGood, PoolRecord
<1>9. CASE accrue /\ now' = now
  <2>1. pool' = q /\ user_info' = user_info /\ cash' = cash /\ now' = now
    BY <1>0, <1>9, Zenon DEF accrue
  <2>2. AccruedAt(q, now).borrow_index = q.borrow_index
    <3>1. now >= q.last_accrual
      BY <1>1, <1>2
    <3> QED
      BY <1>1, <1>2, <3>1, AccruedGood, Zenon
  <2>3. \A u \in PoolUsers : DebtOf(u)' = DebtOf(u)
    BY <1>a, <2>1, <2>2, DebtIsAt, Zenon DEF q
  <2>4. \A u \in PoolUsers : ~ (DebtOf(u) < DebtOf(u))
    BY <1>3
  <2>5. \A u \in PoolUsers : user_info[u] # None => InfoGood(user_info[u], q)
    BY <1>1, <1>b DEF PoolInv, InfoGood
  <2>6. now >= q.last_accrual
    BY <1>1, <1>2
  <2>7. PoolInv'
    BY <1>1, <1>2, <2>1, <2>5, <2>6, Zenon DEF PoolInv
  <2> QED
    BY <2>3, <2>4, <2>7, Zenon DEF DebtFallsByRepayment
<1>10. CASE NextLedger /\ UNCHANGED poolVars
  <2>1. pool' = pool /\ user_info' = user_info /\ cash' = cash /\ now' = now + 1
    BY <1>10, Zenon DEF NextLedger, poolVars
  <2>2. AccruedAt(pool, now + 1).borrow_index >= q.borrow_index /\ AccruedAt(pool, now + 1).borrow_index \in Nat
    BY AccruedGood, Zenon DEF PoolInv, q
  <2>3. ASSUME NEW u \in PoolUsers  PROVE ~ (DebtOf(u)' < DebtOf(u))
    <3> DEFINE i == user_info[u]
               b == AccruedAt(pool, now + 1).borrow_index
    <3>1. DebtOf(u)' = DebtAt(i, b) /\ DebtOf(u) = DebtAt(i, q.borrow_index) /\ DebtOf(u) \in Nat
      BY <1>3, <1>a, <2>1, DebtIsAt, Zenon DEF q
    <3>2. CASE i = None
      BY <3>1, <3>2 DEF DebtAt
    <3>3. CASE i # None
      <4>1. InfoGood(i, pool)
        BY <3>3, Zenon DEF PoolInv
      <4>2. i \in UserInfo /\ i.borrow_checkpoint <= q.borrow_index
        BY <1>1, <1>b, <4>1 DEF InfoGood
      <4> HIDE DEF i, b
      <4>3. q.borrow_index <= b /\ b \in Nat
        BY <1>b, <2>2, Zenon DEF b
      <4>4. DebtAt(i, q.borrow_index) <= DebtAt(i, b) /\ DebtAt(i, b) \in Nat
        BY <1>b, <4>2, <4>3, DebtGrows, Zenon
      <4> QED
        BY <3>1, <4>4
    <3> QED
      BY <3>2, <3>3, Zenon
  <2>4. pool.last_accrual \in Nat /\ now + 1 \in Nat /\ pool.last_accrual <= now
    BY <1>2 DEF PoolInv, PoolGood, PoolRecord
  <2>5. pool.last_accrual <= now + 1
    BY <1>2, <2>4
  <2>6. PoolInv'
    BY <2>1, <2>4, <2>5, Zenon DEF PoolInv
  <2> QED
    BY <2>3, <2>6, Zenon DEF DebtFallsByRepayment
<1> QED
  BY <1>5, <1>6, <1>7, <1>8, <1>9, <1>10, Zenon DEF PoolNext, PoolStep

\* insurance: every accrual raises the total supply by no more than the total debt,
\* and a user's debt falls only by the tokens repaid, over every interleaving of the
\* users' calls and of time.
THEOREM InterestAlwaysFollowsDebt == PoolSpec => InterestFollowsDebt
<1>1. ClockInit /\ PoolInit => PoolInv
  BY PoolAssumption DEF ClockInit, PoolInit, PoolInv, PoolGood, PoolRecord
<1>2. PoolInv /\ UNCHANGED <<poolVars, now>> => PoolInv'
  BY Zenon DEF PoolInv, poolVars, PoolGood
<1>3. PoolInv => PoolTypeOK /\ YieldWithinInterest
  <2>1. SUFFICES ASSUME PoolInv  PROVE PoolTypeOK /\ YieldWithinInterest
    BY Zenon
  <2>2. PoolTypeOK
    BY <2>1 DEF PoolTypeOK, PoolInv, PoolGood, PoolRecord, InfoGood, UserInfo
  <2>3. now >= pool.last_accrual
    BY <2>1, Zenon DEF PoolInv, PoolGood, PoolRecord
  <2>4. YieldWithinInterest
    BY <2>1, <2>3, AccrueIsAt, YieldBound, Zenon DEF YieldWithinInterest, PoolInv
  <2> QED
    BY <2>2, <2>4, Zenon
<1>4. PoolInv /\ [PoolNext]_<<poolVars, now>> => PoolInv' /\ [DebtFallsByRepayment]_<<poolVars, now>>
  BY <1>2, PoolStepKeeps, Zenon
<1> QED
  BY <1>1, <1>3, <1>4, PTL DEF PoolSpec, InterestFollowsDebt

-----------------------------------------------------------------------------
(* Grants up to a maximum.                                                 *)

\* Quotients and remainders of natural numbers.
LEMMA Quotients ==
  ASSUME NEW x \in Nat, NEW k \in Nat \ {0}
  PROVE  x \div k \in Nat /\ x % k \in Nat
<1> DEFINE q == x \div k
<1>1. q \in Int /\ x = k * q + (x % k) /\ x % k \in 0..(k - 1)
  OBVIOUS
<1> HIDE DEF q
<1>2. q >= 0
  BY <1>1
<1> QED
  BY <1>1, <1>2 DEF q

\* max_settleable: the cap and a tolerance, or no amount at all.
LEMMA SettleableBounds ==
  ASSUME NEW cap \in Int, NEW bps \in Nat, max_settleable(cap, bps) # None
  PROVE  /\ bps <= BPS_DENOMINATOR /\ cap >= 0
         /\ max_settleable(cap, bps) \in cap..MAX_I128
<1>1. cap \in Nat /\ bps <= BPS_DENOMINATOR
  <2>1. ~ (cap < 0) /\ ~ (bps > BPS_DENOMINATOR)
    BY Zenon DEF max_settleable, MAX_SLIPPAGE_BPS
  <2> QED
    BY <2>1, UptoAssumption
<1> DEFINE x == cap \div BPS_DENOMINATOR
           y == cap % BPS_DENOMINATOR
           z == (y * bps) \div BPS_DENOMINATOR
<1>2. x \in Nat /\ y \in Nat
  BY <1>1, Quotients, UptoAssumption, Zenon
<1> HIDE DEF x, y
<1>3. y * bps \in Nat /\ x * bps \in Nat
  BY <1>2
<1>4. z \in Nat
  BY <1>3, Quotients, UptoAssumption, Zenon
<1>5. max_settleable(cap, bps) = cap + (x * bps + z) /\ ~ (cap + (x * bps + z) > MAX_I128)
  BY Zenon DEF max_settleable, x, y, z
<1> DEFINE t == x * bps + z
<1>6. t \in Nat
  BY <1>3, <1>4
<1> HIDE DEF t
<1>7. max_settleable(cap, bps) = cap + t /\ cap + t <= MAX_I128
  BY <1>1, <1>5, <1>6, UptoAssumption DEF t
<1> QED
  BY <1>1, <1>6, <1>7, UptoAssumption

-----------------------------------------------------------------------------
\* What authorize stores is a record of its type whose grant exists, and no
\* payment is made under it before it is consumed.
RecordGood(p, r, paid) ==
  LET m == max_settleable(r.cap, r.max_slippage_bps)
  IN  /\ r.cap > 0 /\ m # None /\ r.max_slippage_bps <= BPS_DENOMINATOR
      /\ ~r.consumed => paid = 0
      /\ paid <= m

\* The inductive invariant.
UptoInv ==
  /\ auth \in [Payments -> AuthorizationRecord \union {None}]
  /\ signer \in [Buyers -> Keys \union {None}]
  /\ allowance \in [Buyers -> [amount : 0..MAX_I128, live_until : Nat]]
  /\ wallet \in [Buyers -> 0..InitialBalance]
  /\ settled \in [Payments -> Int]
  /\ now \in Nat
  /\ \A p \in Payments : auth[p] # None => RecordGood(p, auth[p], settled[p])
  /\ AllowanceIsGranted

\* A stored record is of its type.
LEMMA StoredRecord ==
  ASSUME UptoInv, NEW p \in Payments, auth[p] # None
  PROVE  /\ auth[p] \in AuthorizationRecord
         /\ auth[p].from \in Buyers /\ auth[p].to \in Sellers
         /\ auth[p].cap \in Nat /\ auth[p].expiry \in Nat /\ auth[p].max_slippage_bps \in Nat
         /\ auth[p].cap > 0
         /\ max_settleable(auth[p].cap, auth[p].max_slippage_bps) \in auth[p].cap..MAX_I128
<1>1. auth[p] \in AuthorizationRecord /\ RecordGood(p, auth[p], settled[p])
  BY Zenon DEF UptoInv
<1>2. auth[p].cap \in Nat /\ auth[p].max_slippage_bps \in Nat
  BY <1>1, Zenon DEF AuthorizationRecord
<1> QED
  BY <1>1, <1>2, SettleableBounds DEF AuthorizationRecord, RecordGood

\* An authorization, by its buyer or by a voucher, grants what it stores.
LEMMA AuthorizeKeeps ==
  ASSUME UptoInv, now' = now,
         NEW p \in Payments, NEW b \in Buyers, NEW to \in Sellers, NEW cap \in Int,
         NEW e \in Nat, NEW bps \in Nat,
         authorize_with_slippage(p, b, to, cap, e, bps)
  PROVE  UptoInv'
<1> DEFINE m == max_settleable(cap, bps)
           r == [from |-> b, to |-> to, cap |-> cap, expiry |-> e, consumed |-> FALSE,
                 max_slippage_bps |-> bps, created_ledger |-> now]
           g == [amount |-> m, live_until |-> e]
<1>1. /\ auth' = [auth EXCEPT ![p] = r] /\ allowance' = [allowance EXCEPT ![b] = g]
      /\ settled' = [settled EXCEPT ![p] = 0] /\ signer' = signer /\ wallet' = wallet
      /\ cap > 0 /\ m # None
      /\ auth[p] # None => auth[p].expiry <= now \/ auth[p].consumed
  BY ZenonT(30) DEF authorize_with_slippage
<1>2. m \in cap..MAX_I128 /\ bps <= BPS_DENOMINATOR /\ m \in 0..MAX_I128 /\ cap \in Nat
  BY SMTT(30), <1>1, SettleableBounds
<1>3. r \in AuthorizationRecord /\ g \in [amount : 0..MAX_I128, live_until : Nat] /\ now \in Nat
  BY <1>1, <1>2, Zenon DEF AuthorizationRecord, UptoInv
<1>4. /\ r # None /\ r.cap = cap /\ r.max_slippage_bps = bps /\ ~r.consumed /\ r.from = b /\ r.expiry = e
      /\ g.amount = m /\ g.live_until = e
  BY <1>3, UptoAssumption, ZenonT(30)
<1> HIDE DEF r, g
<1>5. RecordGood(p, r, 0)
  BY <1>1, <1>2, <1>4, SMTT(30) DEF RecordGood
<1> HIDE DEF m
<1>6. /\ auth \in [Payments -> AuthorizationRecord \union {None}]
      /\ allowance \in [Buyers -> [amount : 0..MAX_I128, live_until : Nat]]
      /\ settled \in [Payments -> Int]
  BY Zenon DEF UptoInv
<1>7. /\ auth' \in [Payments -> AuthorizationRecord \union {None}]
      /\ allowance' \in [Buyers -> [amount : 0..MAX_I128, live_until : Nat]]
      /\ settled' \in [Payments -> Int]
      /\ auth'[p] = r /\ \A q \in Payments \ {p} : auth'[q] = auth[q] /\ settled'[q] = settled[q]
      /\ allowance'[b] = g /\ \A x \in Buyers \ {b} : allowance'[x] = allowance[x]
      /\ settled'[p] = 0
  BY <1>1, <1>3, <1>6
<1>8. ASSUME NEW q \in Payments, auth'[q] # None  PROVE RecordGood(q, auth'[q], settled'[q])
  BY <1>5, <1>7, <1>8, Zenon DEF UptoInv
<1>9. ASSUME NEW x \in Buyers, allowance'[x].amount > 0, allowance'[x].live_until > now
      PROVE  \E q \in Payments :
               /\ auth'[q] # None /\ ~auth'[q].consumed /\ auth'[q].from = x
               /\ auth'[q].expiry = allowance'[x].live_until
               /\ max_settleable(auth'[q].cap, auth'[q].max_slippage_bps) = allowance'[x].amount
  <2>1. CASE x = b
    BY <2>1, <1>4, <1>7, Zenon DEF m
  <2>2. CASE x # b
    <3>1. allowance'[x] = allowance[x] /\ allowance[x].live_until \in Nat /\ now \in Nat
      BY <1>6, <1>7, <2>2, <1>3, Zenon
    <3>2. PICK q \in Payments :
             /\ auth[q] # None /\ ~auth[q].consumed /\ auth[q].from = x
             /\ auth[q].expiry = allowance[x].live_until
             /\ max_settleable(auth[q].cap, auth[q].max_slippage_bps) = allowance[x].amount
      BY <1>9, <3>1, SMTT(60) DEF UptoInv, AllowanceIsGranted, Spendable
    <3>3. q # p
      BY <1>1, <1>9, <3>1, <3>2, SMTT(60)
    <3> QED
      BY <1>7, <3>1, <3>2, <3>3, Zenon
  <2> QED
    BY <2>1, <2>2, Zenon
<1>10. AllowanceIsGranted'
  BY <1>9, SMTT(30) DEF AllowanceIsGranted, Spendable
<1> QED
  BY <1>1, <1>7, <1>8, <1>10, Zenon DEF UptoInv

\* A step that takes the buyer's allowance away and marks or deletes the record p
\* leaves every other open grant standing.
LEMMA RevokeKeeps ==
  ASSUME UptoInv, now' = now, NEW p \in Payments, auth[p] # None,
         NEW until \in Nat, NEW r \in AuthorizationRecord \union {None},
         auth' = [auth EXCEPT ![p] = r],
         allowance' = [allowance EXCEPT ![auth[p].from] = [amount |-> 0, live_until |-> until]],
         signer' = signer, wallet' \in [Buyers -> 0..InitialBalance], settled' \in [Payments -> Int],
         \A q \in Payments \ {p} : settled'[q] = settled[q],
         r # None => RecordGood(p, r, settled'[p])
  PROVE  UptoInv'
<1> DEFINE b == auth[p].from
           g == [amount |-> 0, live_until |-> until]
<1>1. b \in Buyers /\ g \in [amount : 0..MAX_I128, live_until : Nat] /\ g.amount = 0 /\ now \in Nat
  BY StoredRecord, UptoAssumption, SMTT(30) DEF UptoInv
<1> HIDE DEF g
<1>2. /\ auth \in [Payments -> AuthorizationRecord \union {None}]
      /\ allowance \in [Buyers -> [amount : 0..MAX_I128, live_until : Nat]]
  BY Zenon DEF UptoInv
<1>3. /\ auth' \in [Payments -> AuthorizationRecord \union {None}]
      /\ allowance' \in [Buyers -> [amount : 0..MAX_I128, live_until : Nat]]
      /\ auth'[p] = r /\ \A q \in Payments \ {p} : auth'[q] = auth[q]
      /\ allowance'[b] = g /\ \A x \in Buyers \ {b} : allowance'[x] = allowance[x]
  BY <1>1, <1>2, Zenon DEF g
<1>4. ASSUME NEW q \in Payments, auth'[q] # None  PROVE RecordGood(q, auth'[q], settled'[q])
  BY <1>3, <1>4, Zenon DEF UptoInv
<1>5. ASSUME NEW x \in Buyers, allowance'[x].amount > 0, allowance'[x].live_until > now
      PROVE  \E q \in Payments :
               /\ auth'[q] # None /\ ~auth'[q].consumed /\ auth'[q].from = x
               /\ auth'[q].expiry = allowance'[x].live_until
               /\ max_settleable(auth'[q].cap, auth'[q].max_slippage_bps) = allowance'[x].amount
  <2>1. x # b
    BY <1>1, <1>3, <1>5
  <2>2. allowance'[x] = allowance[x] /\ allowance[x].live_until \in Nat
    BY <1>2, <1>3, <2>1, Zenon
  <2>3. PICK q \in Payments :
           /\ auth[q] # None /\ ~auth[q].consumed /\ auth[q].from = x
           /\ auth[q].expiry = allowance[x].live_until
           /\ max_settleable(auth[q].cap, auth[q].max_slippage_bps) = allowance[x].amount
    BY <1>1, <1>5, <2>2 DEF UptoInv, AllowanceIsGranted, Spendable
  <2>4. q # p
    BY <2>1, <2>3, Zenon
  <2> QED
    BY <1>3, <2>2, <2>3, <2>4
<1>6. AllowanceIsGranted'
  <2>1. \A x \in Buyers : Spendable(x)' > 0 => allowance'[x].amount > 0
    BY SMTT(30) DEF Spendable
  <2> QED
    BY <1>5, <2>1, ZenonT(30) DEF AllowanceIsGranted
<1> QED
  BY <1>3, <1>4, <1>6, ZenonT(30) DEF UptoInv

\* settle pays once, within the grant.
LEMMA SettleKeeps ==
  ASSUME UptoInv, now' = now, NEW p \in Payments, NEW actual \in Actuals, settle(p, actual)
  PROVE  UptoInv'
<1> DEFINE r == auth[p]
           d == [r EXCEPT !.consumed = TRUE]
           m == max_settleable(r.cap, r.max_slippage_bps)
<1>1. /\ r # None /\ r \in AuthorizationRecord /\ RecordGood(p, r, settled[p]) /\ ~r.consumed
      /\ actual \in Int /\ actual > 0 /\ actual <= m /\ actual <= wallet[r.from]
      /\ wallet' = [wallet EXCEPT ![r.from] = wallet[r.from] - actual] /\ signer' = signer
      /\ allowance' = [allowance EXCEPT ![r.from] = [amount |-> 0, live_until |-> r.expiry]]
      /\ settled' = [settled EXCEPT ![p] = settled[p] + actual]
      /\ m \in Nat /\ r.expiry \in Nat /\ r.from \in Buyers
  BY StoredRecord, UptoAssumption DEF settle, UptoInv
<1>2. auth' = [auth EXCEPT ![p] = d]
  BY Zenon DEF settle
<1>3. d \in AuthorizationRecord /\ d.cap = r.cap /\ d.max_slippage_bps = r.max_slippage_bps /\ d.consumed
  BY <1>1, Zenon DEF AuthorizationRecord
<1>4. settled[p] = 0 /\ r.cap > 0 /\ m # None /\ r.max_slippage_bps <= BPS_DENOMINATOR
  BY <1>1, Zenon DEF RecordGood
<1>5. settled \in [Payments -> Int] /\ wallet \in [Buyers -> 0..InitialBalance]
  BY Zenon DEF UptoInv
<1>6. settled'[p] = actual /\ settled' \in [Payments -> Int] /\ \A q \in Payments \ {p} : settled'[q] = settled[q]
  BY SMTT(30), <1>1, <1>4, <1>5
<1>7. RecordGood(p, d, settled'[p])
  BY <1>1, <1>3, <1>4, <1>6, Zenon DEF RecordGood
<1>8. wallet' \in [Buyers -> 0..InitialBalance]
  <2>1. wallet[r.from] - actual \in 0..InitialBalance
    BY SMTT(30), <1>1, <1>5, UptoAssumption
  <2> QED
    BY <1>1, <1>5, <2>1, ZenonT(30)
<1> HIDE DEF d
<1> QED
  BY <1>1, <1>2, <1>3, <1>6, <1>7, <1>8, RevokeKeeps, Zenon

\* The inductive invariant holds throughout.
LEMMA UptoInvariant == UptoSpec => []UptoInv
<1>1. UptoInit /\ ClockInit => UptoInv
  BY UptoAssumption, SMTT(30) DEF UptoInit, ClockInit, UptoInv, AllowanceIsGranted, Spendable
<1>2. UptoInv /\ [(UptoNext /\ UNCHANGED now) \/ (NextLedger /\ UNCHANGED uptoVars)]_<<uptoVars, now>> => UptoInv'
  <2>1. SUFFICES ASSUME UptoInv, [(UptoNext /\ UNCHANGED now) \/ (NextLedger /\ UNCHANGED uptoVars)]_<<uptoVars, now>>
                 PROVE  UptoInv'
    BY Zenon
  <2>2. ASSUME NEW p \in Payments, NEW b \in Buyers, NEW to \in Sellers, NEW cap \in Caps, NEW e \in Expiries,
               NEW bps \in Slippages, authorize_with_slippage(p, b, to, cap, e, bps), now' = now
        PROVE  UptoInv'
    BY <2>1, <2>2, AuthorizeKeeps, UptoAssumption, Zenon
  <2>3. ASSUME NEW p \in Payments, NEW actual \in Actuals, settle(p, actual), now' = now  PROVE UptoInv'
    BY <2>1, <2>3, SettleKeeps, Zenon
  <2>4. ASSUME NEW p \in Payments, prune_authorization(p), now' = now  PROVE UptoInv'
    <3>1. /\ auth[p] # None /\ now > auth[p].expiry /\ auth' = [auth EXCEPT ![p] = None]
          /\ UNCHANGED <<signer, allowance, wallet, settled>>
      BY <2>4, Zenon DEF prune_authorization
    <3>2. /\ auth' \in [Payments -> AuthorizationRecord \union {None}]
          /\ auth'[p] = None /\ \A q \in Payments \ {p} : auth'[q] = auth[q]
      BY <2>1, <3>1, Zenon DEF UptoInv
    <3>3. \A b \in Buyers : allowance[b].live_until \in Nat
      BY <2>1, Zenon DEF UptoInv
    <3>4. ASSUME NEW b \in Buyers, Spendable(b) > 0, allowance[b].live_until > now
          PROVE  \E q \in Payments :
                   /\ auth'[q] # None /\ ~auth'[q].consumed /\ auth'[q].from = b
                   /\ auth'[q].expiry = allowance[b].live_until
                   /\ max_settleable(auth'[q].cap, auth'[q].max_slippage_bps) = allowance[b].amount
      <4>1. PICK q \in Payments :
               /\ auth[q] # None /\ ~auth[q].consumed /\ auth[q].from = b
               /\ auth[q].expiry = allowance[b].live_until
               /\ max_settleable(auth[q].cap, auth[q].max_slippage_bps) = allowance[b].amount
        BY <2>1, <3>4, Zenon DEF UptoInv, AllowanceIsGranted
      <4>2. q # p
        BY <2>1, <3>1, <3>3, <3>4, <4>1, SMTT(30) DEF UptoInv
      <4> QED
        BY <3>2, <4>1, <4>2, Zenon
    <3>5. AllowanceIsGranted'
      BY <2>4, <3>1, <3>4 DEF AllowanceIsGranted, Spendable
    <3> QED
      BY <2>1, <2>4, <3>1, <3>2, <3>5, Zenon DEF UptoInv
  <2>5. ASSUME NEW p \in Payments, cancel_inactive_escrow(p), now' = now  PROVE UptoInv'
    <3>1. /\ auth[p] # None /\ auth' = [auth EXCEPT ![p] = None]
          /\ allowance' = [allowance EXCEPT ![auth[p].from] = [amount |-> 0, live_until |-> 0]]
          /\ signer' = signer /\ wallet' \in [Buyers -> 0..InitialBalance] /\ settled' \in [Payments -> Int]
          /\ settled' = settled
      BY <2>1, <2>5, Zenon DEF cancel_inactive_escrow, UptoInv
    <3> QED
      BY <2>1, <2>5, <3>1, RevokeKeeps, Zenon
  <2>6. ASSUME NEW b \in Buyers, NEW key \in Keys, register_signer(b, key), now' = now  PROVE UptoInv'
    <3>1. signer' \in [Buyers -> Keys \union {None}] /\ UNCHANGED <<auth, allowance, wallet, settled>>
      BY <2>1, <2>6, Zenon DEF register_signer, UptoInv
    <3> QED
      BY <2>1, <2>6, <3>1, Zenon DEF UptoInv, AllowanceIsGranted, Spendable
  <2>7. ASSUME NEW v \in Vouchers, authorize_signed(v), now' = now  PROVE UptoInv'
    <3>1. authorize_with_slippage(v.payment, v.from, v.to, v.cap, v.expiry, 0)
      BY <2>7, Zenon DEF authorize_signed, authorize
    <3> QED
      BY <2>1, <2>7, <3>1, AuthorizeKeeps, UptoAssumption, Zenon
  <2>8. ASSUME NEW ledgers \in Timeouts, set_inactivity_timeout(ledgers), now' = now  PROVE UptoInv'
    BY <2>1, <2>8, Zenon DEF set_inactivity_timeout, UptoInv, AllowanceIsGranted, Spendable
  <2>9. CASE NextLedger /\ UNCHANGED uptoVars
    <3>1. now' = now + 1 /\ now \in Nat /\ UNCHANGED <<auth, signer, allowance, wallet, settled>>
      BY <2>1, <2>9, Zenon DEF NextLedger, UptoInv, uptoVars
    <3>2. \A b \in Buyers : allowance[b].live_until \in Nat
      BY <2>1, ZenonT(30) DEF UptoInv
    <3>3. \A b \in Buyers : Spendable(b)' > 0 /\ allowance[b].live_until > now + 1 =>
                              Spendable(b) > 0 /\ allowance[b].live_until > now
      BY <3>1, <3>2 DEF Spendable
    <3>4. AllowanceIsGranted'
      BY <2>1, <3>1, <3>3, Zenon DEF UptoInv, AllowanceIsGranted
    <3> QED
      BY <2>1, <3>1, <3>4 DEF UptoInv
  <2>10. CASE UNCHANGED <<uptoVars, now>>
    BY <2>1, <2>10, Zenon DEF uptoVars, UptoInv, AllowanceIsGranted, Spendable
  <2> QED
    BY <2>1, <2>2, <2>3, <2>4, <2>5, <2>6, <2>7, <2>8, <2>9, <2>10, Zenon DEF UptoNext
<1> QED
  BY <1>1, <1>2, PTL DEF UptoSpec

\* upto-authorization: an allowance the token still honours in the next ledger
\* belongs to an open authorization, to the last unit, and what settle pays under
\* a grant never exceeds it, however the payments of a buyer share the allowance.
THEOREM GrantsAlwaysKept == UptoSpec => []GrantsKept
<1>1. UptoInv => GrantsKept
  <2>1. SUFFICES ASSUME UptoInv  PROVE GrantsKept
    BY Zenon
  <2>2. \A p \in Payments : auth[p] # None =>
            /\ auth[p].from \in Buyers /\ auth[p].to \in Sellers
            /\ auth[p].cap \in 1..MAX_I128 /\ auth[p].expiry \in Nat
            /\ auth[p].max_slippage_bps \in 0..MAX_SLIPPAGE_BPS
    <3>1. SUFFICES ASSUME NEW p \in Payments, auth[p] # None
                   PROVE  auth[p].cap \in 1..MAX_I128 /\ auth[p].max_slippage_bps \in 0..MAX_SLIPPAGE_BPS
      BY <2>1, StoredRecord, Zenon
    <3>2. RecordGood(p, auth[p], settled[p])
      BY <2>1, <3>1, Zenon DEF UptoInv
    <3> QED
      BY <2>1, <3>1, <3>2, StoredRecord, UptoAssumption DEF RecordGood, MAX_SLIPPAGE_BPS
  <2>3. PaidWithinGrant
    BY <2>1, Zenon DEF UptoInv, PaidWithinGrant, RecordGood
  <2> QED
    BY <2>1, <2>2, <2>3, Zenon DEF GrantsKept, UptoTypeOK, UptoInv
<1> QED
  BY <1>1, UptoInvariant, PTL

-----------------------------------------------------------------------------
(* Custody.                                                                *)

\* A stored escrow record: the merchant who deposited and the buyer.
EscrowRecord == [merchant : Parties, buyer : Parties \union {Vault}]

\* The inductive invariant behind CustodyKept: the tables are total and every
\* escrowed token is the vault's.
CustodyInv ==
  /\ custodian \in [admin : Parties, pending : Parties \union {None}, paused : BOOLEAN, version : Nat]
  /\ nftOwner \in [Nfts -> Parties \union {Vault}]
  /\ nftEscrow \in [Nfts -> EscrowRecord \union {None}]
  /\ DOMAIN commits = Hashes /\ commits = [h \in Hashes |-> commits[h]]
  /\ EscrowedIsHeld

\* What the steps promise of the tokens and the custodian.
CustodyStep ==
  /\ EscrowedIsHeld'
  /\ \A n \in Nfts : NftKept(n)
  /\ \A h \in Hashes : CommitKept(h)

\* A call that leaves the tokens and the commitments alone keeps what they promise.
LEMMA QuietCall ==
  ASSUME CustodyInv, UNCHANGED <<nftOwner, nftEscrow, commits>>,
         custodian' \in [admin : Parties, pending : Parties \union {None}, paused : BOOLEAN, version : Nat]
  PROVE  CustodyInv' /\ CustodyStep
BY Zenon DEF CustodyInv, CustodyStep, EscrowedIsHeld, NftKept, CommitKept

\* A released token goes to one of its two parties and its record with it.
LEMMA ReleaseKeeps ==
  ASSUME CustodyInv, NEW n \in Nfts, NEW p \in Parties, ~custodian.paused,
         nftEscrow[n] # None, p \in {nftEscrow[n].merchant, nftEscrow[n].buyer},
         release(n, p), UNCHANGED <<custodian, commits>>
  PROVE  CustodyInv' /\ CustodyStep
<1>1. /\ nftOwner' = [nftOwner EXCEPT ![n] = p] /\ nftEscrow' = [nftEscrow EXCEPT ![n] = None]
      /\ nftOwner[n] = Vault
  BY Zenon DEF release, nft_transfer
<1>2. CustodyInv'
  BY <1>1, Zenon DEF CustodyInv, EscrowedIsHeld
<1>3. \A m \in Nfts : NftKept(m)
  BY <1>1, Zenon DEF CustodyInv, NftKept, EscrowedIsHeld
<1>4. \A h \in Hashes : CommitKept(h)
  BY Zenon DEF CommitKept
<1> QED
  BY <1>2, <1>3, <1>4, Zenon DEF CustodyStep, CustodyInv

\* A deposit escrows a token that had no record; a holder outside the vault
\* moves only a token the vault does not own.
LEMMA TokenArrives ==
  ASSUME CustodyInv, NEW n \in Nfts, NEW p \in Parties, NEW q \in Parties \union {Vault},
         HolderTransfers(n, p, q) \/ deposit_nft(p, q, n)
  PROVE  CustodyInv' /\ CustodyStep
<1>1. \A h \in Hashes : CommitKept(h)
  BY Zenon DEF CommitKept, HolderTransfers, deposit_nft
<1>2. CASE HolderTransfers(n, p, q)
  <2>1. /\ nftOwner' = [nftOwner EXCEPT ![n] = q] /\ nftOwner[n] # Vault
        /\ UNCHANGED <<custodian, nftEscrow, commits>>
    BY <1>2, CustodyAssumption, Zenon DEF HolderTransfers, nft_transfer
  <2>2. CustodyInv'
    BY <2>1, Zenon DEF CustodyInv, EscrowedIsHeld
  <2>3. \A m \in Nfts : NftKept(m)
    BY <2>1, Zenon DEF CustodyInv, NftKept, EscrowedIsHeld
  <2> QED
    BY <1>1, <2>2, <2>3, Zenon DEF CustodyStep, CustodyInv
<1>3. CASE deposit_nft(p, q, n)
  <2> DEFINE r == [merchant |-> custodian.admin, buyer |-> q]
  <2>1. /\ nftOwner' = [nftOwner EXCEPT ![n] = Vault] /\ nftEscrow[n] = None
        /\ nftEscrow' = [nftEscrow EXCEPT ![n] = r]
        /\ UNCHANGED <<custodian, commits>> /\ r \in EscrowRecord
    BY <1>3, Zenon DEF deposit_nft, nft_transfer, CustodyInv, EscrowRecord
  <2> HIDE DEF r
  <2>2. CustodyInv'
    BY <2>1, Zenon DEF CustodyInv, EscrowedIsHeld
  <2>3. \A m \in Nfts : NftKept(m)
    BY <2>1, Zenon DEF CustodyInv, NftKept, EscrowedIsHeld
  <2> QED
    BY <1>1, <2>2, <2>3 DEF CustodyStep, CustodyInv
<1> QED
  BY <1>2, <1>3, Zenon

\* A commitment is added where there is none and consumed by its maker.
LEMMA CommitmentMoves ==
  ASSUME CustodyInv, NEW op, NEW h \in Hashes,
         commit(op, h) \/ \E p \in Plaintexts : reveal(op, h, p)
  PROVE  CustodyInv' /\ CustodyStep
<1>1. UNCHANGED <<custodian, nftOwner, nftEscrow>>
  BY Zenon DEF commit, reveal
<1>2. PICK v : commits' = [commits EXCEPT ![h] = v]
  BY Zenon DEF commit, reveal
<1>3. CustodyInv'
  BY <1>1, <1>2, Zenon DEF CustodyInv, EscrowedIsHeld
<1>4. ASSUME NEW k \in Hashes, commits[k] # None, commits'[k] # commits[k]
      PROVE  CommitKept(k)
  <2>1. k = h
    BY <1>2, <1>4, Zenon DEF CustodyInv
  <2>2. ~commit(op, h)
    BY <1>4, <2>1, Zenon DEF commit
  <2>3. PICK p \in Plaintexts : reveal(op, h, p)
    BY <2>2, Zenon
  <2>4. commits'[h] = None
    BY <2>3, Zenon DEF reveal, CustodyInv
  <2> QED
    BY <2>1, <2>3, <2>4, Zenon DEF reveal, CommitKept
<1>5. \A k \in Hashes : CommitKept(k)
  BY <1>4, Zenon DEF CommitKept
<1>6. \A n \in Nfts : NftKept(n)
  BY <1>1, Zenon DEF NftKept, CustodyInv, EscrowedIsHeld
<1> QED
  BY <1>3, <1>5, <1>6, Zenon DEF CustodyStep, CustodyInv

\* Every step keeps the invariant and is one CustodyKept allows.
LEMMA CustodyStepKeeps ==
  ASSUME CustodyInv, CustodyNext
  PROVE  CustodyInv' /\ CustodyStep
<1> DEFINE R == [admin : Parties, pending : Parties \union {None}, paused : BOOLEAN, version : Nat]
<1>1. CASE HandoverStep
  <2>1. custodian' \in R /\ UNCHANGED <<nftOwner, nftEscrow, commits>>
    BY <1>1, Zenon DEF HandoverStep, custody_transfer_admin, custody_accept_admin,
      custody_cancel_admin_transfer, CustodyInv
  <2> QED
    BY <2>1, QuietCall, Zenon
<1>2. CASE custody_pause \/ custody_unpause \/ \E v \in 1..MaxVersion : migrate_state(v)
  <2>1. custodian' \in R /\ UNCHANGED <<nftOwner, nftEscrow, commits>>
    <3>1. CASE custody_pause \/ custody_unpause
      BY <3>1, Zenon DEF custody_pause, custody_unpause, CustodyInv
    <3>2. ASSUME NEW v \in 1..MaxVersion, migrate_state(v)
          PROVE  custodian' \in R /\ UNCHANGED <<nftOwner, nftEscrow, commits>>
      <4>1. v \in Nat
        BY CustodyAssumption
      <4> QED
        BY <3>2, <4>1, Zenon DEF migrate_state, CustodyInv
    <3> QED
      BY <1>2, <3>1, <3>2, Zenon
  <2> QED
    BY <2>1, QuietCall, Zenon
<1>3. ASSUME NEW n \in Nfts, NEW p \in Parties,
             \/ \E q \in Parties \union {Vault} : HolderTransfers(n, p, q) \/ deposit_nft(p, q, n)
             \/ claim_nft(p, n) \/ refund_nft(p, n)
      PROVE  CustodyInv' /\ CustodyStep
  <2>1. CASE \E q \in Parties \union {Vault} : HolderTransfers(n, p, q) \/ deposit_nft(p, q, n)
    BY <2>1, TokenArrives, Zenon
  <2>2. CASE claim_nft(p, n)
    BY <2>2, ReleaseKeeps, Zenon DEF claim_nft
  <2>3. CASE refund_nft(p, n)
    BY <2>3, ReleaseKeeps, Zenon DEF refund_nft
  <2> QED
    BY <1>3, <2>1, <2>2, <2>3, Zenon
<1>4. ASSUME NEW op \in Operations, NEW h \in Hashes,
             commit(op, h) \/ \E p \in Plaintexts : reveal(op, h, p)
      PROVE  CustodyInv' /\ CustodyStep
  BY <1>4, CommitmentMoves, Zenon
<1>5. CASE UNCHANGED custodyVars
  BY <1>5, QuietCall, Zenon DEF custodyVars, CustodyInv
<1> QED
  BY <1>1, <1>2, <1>3, <1>4, <1>5, Zenon DEF CustodyNext, NftStep, CommitStep

\* An escrowed collectible leaves a vault only to the merchant who deposited it or
\* its buyer, whoever administers the vault by then, and a commitment is consumed
\* only by its maker while in office and after its delay (deposit_nft, claim_nft,
\* refund_nft, commit, reveal), for every number of parties, tokens and hashes.
THEOREM CustodyAlwaysKept == CustodySpec => CustodyKept
<1>1. CustodyInit => CustodyInv
  <2>1. SUFFICES ASSUME CustodyInit  PROVE CustodyInv
    BY Zenon
  <2>2. custodian \in [admin : Parties, pending : Parties \union {None}, paused : BOOLEAN, version : Nat]
    <3>1. custodian \in [admin : Parties, pending : {None}, paused : {FALSE}, version : {1}]
      BY <2>1, Zenon DEF CustodyInit
    <3>2. {None} \subseteq Parties \union {None} /\ {FALSE} \subseteq BOOLEAN /\ {1} \subseteq Nat
      OBVIOUS
    <3> QED
      BY Zenon, <3>1, <3>2
  <2>3. nftOwner \in [Nfts -> Parties \union {Vault}] /\ nftEscrow \in [Nfts -> EscrowRecord \union {None}]
    BY <2>1, Zenon DEF CustodyInit
  <2>4. DOMAIN commits = Hashes /\ commits = [h \in Hashes |-> commits[h]]
    BY <2>1, Zenon DEF CustodyInit
  <2>5. EscrowedIsHeld
    BY <2>1, Zenon DEF CustodyInit, EscrowedIsHeld
  <2> QED
    BY <2>2, <2>3, <2>4, <2>5, Zenon DEF CustodyInv
<1>2. CustodyInv /\ [CustodyNext]_<<custodyVars, now>> => CustodyInv'
  <2>1. CASE UNCHANGED <<custodyVars, now>>
    BY <2>1, Zenon DEF custodyVars, CustodyInv, EscrowedIsHeld
  <2> QED
    BY <2>1, CustodyStepKeeps, Zenon
<1>3. CustodyInv /\ [CustodyNext]_<<custodyVars, now>>
        => [/\ EscrowedIsHeld'
            /\ \A n \in Nfts : NftKept(n)
            /\ \A h \in Hashes : CommitKept(h)]_<<custodyVars, now>>
  BY CustodyStepKeeps, Zenon DEF CustodyStep
<1> QED
  BY <1>1, <1>2, <1>3, PTL DEF CustodySpec, CustodyKept

-----------------------------------------------------------------------------
(* Concealed escrows.                                                      *)

\* An escrow of a concealed amount, a fallback dispute and a ruling on one.
EscrowOf == [commitment : Commitments, min_amount : Int, status : {"Pending", "Verified", "Rejected"}]
DisputeOf == [oracle : DisputeOracles, amount : DisputedAmounts, request_ledger : Int, open : BOOLEAN]
RulingOf == [dispute_id : Nat, refund : BOOLEAN, oracle : DisputeOracles]

\* The inductive invariants: one proof slot per escrow, and rulings name
\* disputes that exist.
ConcealedInv ==
  /\ escrows \in Seq(EscrowOf) /\ verifiedBy \in Seq(Proofs \union {None})
  /\ Len(verifiedBy) = Len(escrows)
  /\ VerifiedMeetsFloor
\* Rulings name disputes that were opened.
FallbackInv ==
  /\ now \in Int
  /\ fallback \in Seq(DisputeOf) /\ rulings \in Seq(RulingOf)
  /\ \A i \in DOMAIN rulings : rulings[i].dispute_id \in DOMAIN fallback
  /\ RuledOnce

\* What one step may do to the escrows.
EscrowsKept ==
  \A id \in DOMAIN escrows :
    /\ escrows'[id].commitment = escrows[id].commitment
    /\ escrows'[id].min_amount = escrows[id].min_amount
    /\ escrows[id].status # "Pending" => escrows'[id] = escrows[id]

\* A new escrow is pending and unproven.
LEMMA CreateEscrowKeeps ==
  ASSUME ConcealedInv, NEW c \in Commitments, NEW m \in MinAmounts, create_escrow(c, m)
  PROVE  ConcealedInv' /\ EscrowsKept
<1> DEFINE e == [commitment |-> c, min_amount |-> m, status |-> "Pending"]
<1>1. /\ escrows' = Append(escrows, e) /\ verifiedBy' = Append(verifiedBy, None)
      /\ escrows \in Seq(EscrowOf) /\ verifiedBy \in Seq(Proofs \union {None})
      /\ Len(verifiedBy) = Len(escrows)
  BY Zenon DEF create_escrow, ConcealedInv
<1>2. e \in EscrowOf /\ e.status = "Pending"
  BY ConcealedAssumption, Zenon DEF EscrowOf
<1> HIDE DEF e
<1>3. /\ escrows' \in Seq(EscrowOf) /\ verifiedBy' \in Seq(Proofs \union {None})
      /\ Len(verifiedBy') = Len(escrows') /\ Len(escrows') = Len(escrows) + 1
      /\ escrows'[Len(escrows) + 1] = e
      /\ \A id \in DOMAIN escrows : escrows'[id] = escrows[id] /\ verifiedBy'[id] = verifiedBy[id]
  BY <1>1, <1>2, SMTT(30)
<1>4. \A id \in DOMAIN escrows' : id \in DOMAIN escrows \/ id = Len(escrows) + 1
  BY SMTT(30), <1>1, <1>3
<1>5. VerifiedMeetsFloor'
  <2> SUFFICES ASSUME NEW id \in DOMAIN escrows', escrows'[id].status = "Verified"
               PROVE  LET p == verifiedBy'[id] IN
                        /\ p # None
                        /\ p.sound /\ p.inputs > 0 /\ p.amount >= escrows'[id].min_amount
                        /\ p.inputs >= 3 => p.opening = escrows'[id].commitment
    BY Zenon DEF VerifiedMeetsFloor
  <2>1. id \in DOMAIN escrows
    BY <1>2, <1>3, <1>4, Zenon
  <2> QED
    BY <1>3, <2>1, Zenon DEF ConcealedInv, VerifiedMeetsFloor
<1> QED
  BY <1>3, <1>5, Zenon DEF ConcealedInv, EscrowsKept

\* A proof settles the one pending escrow it is about.
LEMMA VerifyEscrowKeeps ==
  ASSUME ConcealedInv, NEW id \in 1..MaxEscrows, NEW p \in Proofs, verify_escrow(id, p)
  PROVE  ConcealedInv' /\ EscrowsKept
<1> DEFINE ok == verify_concealed_amount(escrows[id], p)
           st == IF ok THEN "Verified" ELSE "Rejected"
           e == [escrows[id] EXCEPT !.status = st]
<1>1. /\ id \in DOMAIN escrows /\ escrows[id].status = "Pending"
      /\ escrows' = [escrows EXCEPT ![id] = e] /\ verifiedBy' = [verifiedBy EXCEPT ![id] = p]
  BY Zenon DEF verify_escrow
<1>2. /\ escrows \in Seq(EscrowOf) /\ verifiedBy \in Seq(Proofs \union {None})
      /\ Len(verifiedBy) = Len(escrows) /\ escrows[id] \in EscrowOf
  BY <1>1 DEF ConcealedInv
<1>3. st \in {"Pending", "Verified", "Rejected"} /\ (st = "Verified" => ok)
  BY Zenon
<1>4. /\ p # None
      /\ ok => /\ p.sound /\ p.inputs > 0 /\ p.amount >= escrows[id].min_amount
               /\ p.inputs >= 3 => p.opening = escrows[id].commitment
  BY ConcealedAssumption, Zenon DEF verify_concealed_amount, verify_groth16
<1> HIDE DEF st, ok
<1>5. /\ e \in EscrowOf /\ e.status = st /\ e.commitment = escrows[id].commitment
      /\ e.min_amount = escrows[id].min_amount
  BY <1>2, <1>3, Zenon DEF EscrowOf
<1> HIDE DEF e
<1>6. /\ escrows' \in Seq(EscrowOf) /\ verifiedBy' \in Seq(Proofs \union {None})
      /\ Len(verifiedBy') = Len(escrows') /\ DOMAIN escrows' = DOMAIN escrows
      /\ escrows'[id] = e /\ verifiedBy'[id] = p
      /\ \A j \in DOMAIN escrows : j # id => escrows'[j] = escrows[j] /\ verifiedBy'[j] = verifiedBy[j]
  BY <1>1, <1>2, <1>5
<1>7. VerifiedMeetsFloor'
  <2> SUFFICES ASSUME NEW j \in DOMAIN escrows', escrows'[j].status = "Verified"
               PROVE  LET q == verifiedBy'[j] IN
                        /\ q # None
                        /\ q.sound /\ q.inputs > 0 /\ q.amount >= escrows'[j].min_amount
                        /\ q.inputs >= 3 => q.opening = escrows'[j].commitment
    BY Zenon DEF VerifiedMeetsFloor
  <2>1. CASE j = id
    BY <1>3, <1>4, <1>5, <1>6, <2>1, Zenon
  <2>2. CASE j # id
    BY <1>6, <2>2, Zenon DEF ConcealedInv, VerifiedMeetsFloor
  <2> QED
    BY <2>1, <2>2, Zenon
<1>8. EscrowsKept
  BY <1>1, <1>5, <1>6, Zenon DEF EscrowsKept
<1> QED
  BY <1>6, <1>7, <1>8, Zenon DEF ConcealedInv

\* A new dispute is open, and no ruling names it yet.
LEMMA RequestKeeps ==
  ASSUME FallbackInv, NEW o \in DisputeOracles, NEW a \in DisputedAmounts,
         request_dispute(o, a), UNCHANGED now
  PROVE  FallbackInv'
<1> DEFINE d == [oracle |-> o, amount |-> a, request_ledger |-> now, open |-> TRUE]
           n == Len(fallback) + 1
<1>1. /\ fallback' = Append(fallback, d) /\ rulings' = rulings
      /\ fallback \in Seq(DisputeOf) /\ rulings \in Seq(RulingOf)
  BY Zenon DEF request_dispute, FallbackInv
<1>2. d \in DisputeOf /\ d.open
  BY Zenon DEF DisputeOf, FallbackInv
<1> HIDE DEF d
<1>3. /\ fallback' \in Seq(DisputeOf) /\ fallback'[n] = d /\ n \notin DOMAIN fallback
      /\ DOMAIN fallback' = DOMAIN fallback \union {n}
      /\ \A id \in DOMAIN fallback : fallback'[id] = fallback[id]
  BY <1>1, <1>2
<1> HIDE DEF n
<1>4. \A i \in DOMAIN rulings : rulings[i].dispute_id # n
  BY <1>3, Zenon DEF FallbackInv
<1>5. RuledOnce'
  <2> SUFFICES ASSUME NEW id \in DOMAIN fallback'
               PROVE  LET mine == {i \in DOMAIN rulings : rulings[i].dispute_id = id} IN
                        IF fallback'[id].open THEN mine = {}
                        ELSE \E i \in mine : mine = {i} /\ rulings[i].oracle = fallback'[id].oracle
    BY <1>1, SMTT(30) DEF RuledOnce
  <2>1. CASE id = n
    BY <1>2, <1>3, <1>4, <2>1, Zenon
  <2>2. CASE id \in DOMAIN fallback
    <3>1. fallback'[id] = fallback[id]
      BY <1>3, <2>2, Zenon
    <3> DEFINE mine == {i \in DOMAIN rulings : rulings[i].dispute_id = id}
               one(x) == \E i \in mine : mine = {i} /\ rulings[i].oracle = x.oracle
    <3>2. IF fallback[id].open THEN mine = {} ELSE one(fallback[id])
      BY <2>2, Zenon DEF FallbackInv, RuledOnce
    <3> HIDE DEF mine, one
    <3>3. IF fallback'[id].open THEN mine = {} ELSE one(fallback'[id])
      BY <3>1, <3>2, Zenon
    <3> QED
      BY <3>3, Zenon DEF mine, one
  <2> QED
    BY <1>3, <2>1, <2>2, Zenon
<1> QED
  BY <1>1, <1>3, <1>5, Zenon DEF FallbackInv

\* The ruling that closes a dispute is its only one.
LEMMA SettleDisputeKeeps ==
  ASSUME FallbackInv, NEW id \in 1..MaxDisputes, NEW r \in BOOLEAN, NEW o \in DisputeOracles,
         settle_dispute(id, r, o), UNCHANGED now
  PROVE  FallbackInv'
<1> DEFINE g == [dispute_id |-> id, refund |-> r, oracle |-> o]
           d == [fallback[id] EXCEPT !.open = FALSE]
           n == Len(rulings) + 1
<1>1. /\ id \in DOMAIN fallback /\ fallback[id].open /\ o = fallback[id].oracle
      /\ fallback' = [fallback EXCEPT ![id] = d] /\ rulings' = Append(rulings, g)
      /\ fallback \in Seq(DisputeOf) /\ rulings \in Seq(RulingOf) /\ fallback[id] \in DisputeOf
  BY DEF settle_dispute, FallbackInv
<1>2. g \in RulingOf /\ g.dispute_id = id /\ g.oracle = o
  BY DEF RulingOf
<1>3. d \in DisputeOf /\ ~d.open /\ d.oracle = o
  BY <1>1, Zenon DEF DisputeOf
<1> HIDE DEF g, d
<1>4. /\ fallback' \in Seq(DisputeOf) /\ DOMAIN fallback' = DOMAIN fallback /\ fallback'[id] = d
      /\ \A j \in DOMAIN fallback : j # id => fallback'[j] = fallback[j]
  BY <1>1, <1>3
<1>5. /\ rulings' \in Seq(RulingOf) /\ rulings'[n] = g /\ n \notin DOMAIN rulings
      /\ DOMAIN rulings' = DOMAIN rulings \union {n}
      /\ \A i \in DOMAIN rulings : rulings'[i] = rulings[i]
  BY <1>1, <1>2
<1> HIDE DEF n
<1>6. {i \in DOMAIN rulings : rulings[i].dispute_id = id} = {}
  BY <1>1, Zenon DEF FallbackInv, RuledOnce
<1>7. RuledOnce'
  <2> SUFFICES ASSUME NEW j \in DOMAIN fallback
               PROVE  LET mine == {i \in DOMAIN rulings' : rulings'[i].dispute_id = j} IN
                        IF fallback'[j].open THEN mine = {}
                        ELSE \E i \in mine : mine = {i} /\ rulings'[i].oracle = fallback'[j].oracle
    BY <1>4, Zenon DEF RuledOnce
  <2>1. CASE j = id
    <3>1. {i \in DOMAIN rulings' : rulings'[i].dispute_id = id} = {n}
      BY <1>2, <1>5, <1>6, Zenon
    <3> QED
      BY <1>2, <1>3, <1>4, <1>5, <2>1, <3>1, Zenon
  <2>2. CASE j # id
    <3>1. {i \in DOMAIN rulings' : rulings'[i].dispute_id = j}
            = {i \in DOMAIN rulings : rulings[i].dispute_id = j}
      BY <1>2, <1>5, <2>2, Zenon
    <3>2. \A i \in {i \in DOMAIN rulings : rulings[i].dispute_id = j} : rulings'[i] = rulings[i]
      BY <1>5, Zenon
    <3> QED
      BY <1>4, <2>2, <3>1, <3>2, SMTT(30) DEF FallbackInv, RuledOnce
  <2> QED
    BY <2>1, <2>2, Zenon
<1>8. \A i \in DOMAIN rulings' : rulings'[i].dispute_id \in DOMAIN fallback'
  BY <1>1, <1>2, <1>4, <1>5, Zenon DEF FallbackInv
<1> QED
  BY <1>4, <1>5, <1>7, <1>8, Zenon DEF FallbackInv

\* Every step keeps the invariant and takes no verdict back.
LEMMA ConcealedStepKeeps ==
  ASSUME ConcealedInv, FallbackInv, [ConcealedNext]_<<concealedVars, fallbackVars, now>>
  PROVE  ConcealedInv' /\ FallbackInv' /\ EscrowsKept
<1>1. ASSUME UNCHANGED <<escrows, verifiedBy>>  PROVE ConcealedInv' /\ EscrowsKept
  BY <1>1, Zenon DEF ConcealedInv, VerifiedMeetsFloor, EscrowsKept
<1>2. ASSUME UNCHANGED fallbackVars, now' \in Int  PROVE FallbackInv'
  <2>1. fallback' = fallback /\ rulings' = rulings
    BY <1>2, SMTT(30) DEF fallbackVars
  <2>2. RuledOnce'
    BY <2>1, SMTT(30) DEF FallbackInv, RuledOnce
  <2> QED
    BY <1>2, <2>1, <2>2, Zenon DEF FallbackInv
<1>3. now \in Int
  BY Zenon DEF FallbackInv
<1>4. CASE ConcealedStep /\ UNCHANGED <<fallbackVars, now>>
  <2>1. FallbackInv'
    BY <1>2, <1>3, <1>4, Zenon
  <2>2. ConcealedInv' /\ EscrowsKept
    BY <1>1, <1>4, CreateEscrowKeeps, VerifyEscrowKeeps, Zenon DEF ConcealedStep, set_verifying_key
  <2> QED
    BY <2>1, <2>2, Zenon
<1>5. CASE FallbackStep /\ UNCHANGED <<concealedVars, now>>
  <2>1. ConcealedInv' /\ EscrowsKept
    BY <1>1, <1>5, Zenon DEF concealedVars
  <2>2. FallbackInv'
    BY <1>5, RequestKeeps, SettleDisputeKeeps, Zenon DEF FallbackStep
  <2> QED
    BY <2>1, <2>2, Zenon
<1>6. CASE NextLedger /\ UNCHANGED <<concealedVars, fallbackVars>>
  BY <1>1, <1>2, <1>3, <1>6 DEF NextLedger, concealedVars
<1>7. CASE UNCHANGED <<concealedVars, fallbackVars, now>>
  BY <1>1, <1>2, <1>3, <1>7, Zenon DEF concealedVars
<1> QED
  BY <1>4, <1>5, <1>6, <1>7, Zenon DEF ConcealedNext

\* The first proof examined decides an escrow of a concealed amount for good, and
\* only for an amount that reaches its floor (create_escrow, verify_escrow); a
\* fallback dispute is ruled on once, by the oracle it was escalated to
\* (request_dispute, settle_dispute).
THEOREM VerdictsAlwaysFinal == ConcealedSpec => VerdictsFinal
<1>1. ClockInit /\ ConcealedInit => ConcealedInv /\ FallbackInv
  <2> SUFFICES ASSUME ClockInit, ConcealedInit  PROVE ConcealedInv /\ FallbackInv
    BY Zenon
  <2>1. /\ escrows = <<>> /\ verifiedBy = <<>> /\ fallback = <<>> /\ rulings = <<>> /\ now = 0
    BY Zenon DEF ClockInit, ConcealedInit
  <2>2. VerifiedMeetsFloor /\ RuledOnce
    BY <2>1 DEF VerifiedMeetsFloor, RuledOnce
  <2> QED
    BY <2>1, <2>2 DEF ConcealedInv, FallbackInv
<1>2. ConcealedInv /\ FallbackInv /\ [ConcealedNext]_<<concealedVars, fallbackVars, now>>
        => ConcealedInv' /\ FallbackInv'
  BY ConcealedStepKeeps, Zenon
<1>3. ConcealedInv /\ FallbackInv /\ [ConcealedNext]_<<concealedVars, fallbackVars, now>>
        => [/\ VerifiedMeetsFloor' /\ RuledOnce'
            /\ \A id \in DOMAIN escrows :
                 /\ escrows'[id].commitment = escrows[id].commitment
                 /\ escrows'[id].min_amount = escrows[id].min_amount
                 /\ escrows[id].status # "Pending" => escrows'[id] = escrows[id]
           ]_<<concealedVars, fallbackVars, now>>
  BY ConcealedStepKeeps, Zenon DEF ConcealedInv, FallbackInv, EscrowsKept
<1> QED
  BY <1>1, <1>2, <1>3, PTL DEF ConcealedSpec, VerdictsFinal
=============================================================================
