-------------------------- MODULE GovernanceProofs --------------------------
(***************************************************************************)
(* Governance, for every value of its constants: the integer roots are     *)
(* exact, ballots are counted once, approvals are lost by votes only, the  *)
(* gates hold, and who stays is not diluted by who leaves.                 *)
(***************************************************************************)
EXTENDS Governance, SumTheorems

-----------------------------------------------------------------------------
(* Roots.                                                                  *)

\* g is the shift on 0..n.
Shifts(g, n) == \A k \in 0..n : g[k] = IF k = 0 THEN 1 ELSE 2 * g[k - 1]

\* The recursion has a solution up to every bound.
LEMMA ShiftsExist ==
  ASSUME NEW n \in Nat
  PROVE  \E g : Shifts(g, n)
<1> DEFINE Bad == {m \in Nat : ~\E g : Shifts(g, m)}
<1>1. ASSUME Bad # {}  PROVE FALSE
  <2>1. PICK m \in Bad : \A y \in Bad : m <= y
    <3>1. Bad \subseteq Nat
      BY Zenon
    <3> HIDE DEF Bad
    <3> QED
      BY <1>1, <3>1, NatMin, Zenon
  <2>2. m # 0
    <3>1. Shifts([k \in {0} |-> 1], 0)
      BY DEF Shifts
    <3> QED
      BY <2>1, <3>1, Zenon
  <2>3. m \in Nat /\ m - 1 \in Nat /\ m - 1 \notin Bad
    BY <2>1, <2>2
  <2>4. PICK g : Shifts(g, m - 1)
    BY <2>3, Zenon
  <2> DEFINE h == [k \in 0..m |-> IF k = m THEN 2 * g[m - 1] ELSE g[k]]
  <2>5. ASSUME NEW k \in 0..m  PROVE h[k] = IF k = 0 THEN 1 ELSE 2 * h[k - 1]
    <3>1. CASE k = m
      BY <2>2, <2>3, <3>1
    <3>2. CASE k # m
      <4>1. k \in 0..(m - 1) /\ h[k] = g[k] /\ (k # 0 => k - 1 \in 0..m /\ k - 1 # m)
        BY <2>3, <3>2
      <4> QED
        BY <2>4, <4>1, Zenon DEF Shifts
    <3> QED
      BY <3>1, <3>2, Zenon
  <2>6. Shifts(h, m)
    BY <2>5, Zenon DEF Shifts
  <2> QED
    BY <2>1, <2>6, Zenon
<1> QED
  BY <1>1, Zenon

\* Two solutions agree where both are defined.
LEMMA ShiftsAgree ==
  ASSUME NEW n \in Nat, NEW m \in Nat, NEW g, NEW h, Shifts(g, n), Shifts(h, m)
  PROVE  \A k \in Nat : k <= n /\ k <= m => g[k] = h[k]
<1> DEFINE Bad == {k \in Nat : k <= n /\ k <= m /\ g[k] # h[k]}
<1>1. ASSUME Bad # {}  PROVE FALSE
  <2>1. PICK k \in Bad : \A y \in Bad : k <= y
    <3>1. Bad \subseteq Nat
      BY Zenon
    <3> HIDE DEF Bad
    <3> QED
      BY <1>1, <3>1, NatMin, Zenon
  <2>2. /\ k \in 0..n /\ k \in 0..m /\ g[k] # h[k]
        /\ k # 0 => k - 1 \in Nat /\ k - 1 <= n /\ k - 1 <= m /\ k - 1 \notin Bad
    BY <2>1
  <2>3. k # 0 => g[k - 1] = h[k - 1]
    BY <2>2, Zenon
  <2> QED
    BY <2>2, <2>3, Zenon DEF Shifts
<1> QED
  BY <1>1, Zenon

\* The recursive definition has a solution, so Pow2 is one.
LEMMA Pow2Unfolds ==
  /\ Pow2[0] = 1
  /\ \A k \in Nat : Pow2[k + 1] = 2 * Pow2[k]
<1> DEFINE G(k) == CHOOSE g : Shifts(g, k)
           f == [k \in Nat |-> G(k)[k]]
<1>1. \A k \in Nat : Shifts(G(k), k)
  BY ShiftsExist, Zenon
<1>2. ASSUME NEW k \in Nat  PROVE f[k] = IF k = 0 THEN 1 ELSE 2 * f[k - 1]
  <2>1. Shifts(G(k), k) /\ f[k] = G(k)[k] /\ k \in 0..k
    BY <1>1
  <2> HIDE DEF G
  <2>2. G(k)[k] = IF k = 0 THEN 1 ELSE 2 * G(k)[k - 1]
    BY <2>1, Zenon DEF Shifts
  <2>3. CASE k # 0
    <3>1. k - 1 \in Nat /\ k - 1 <= k /\ k - 1 <= k - 1 /\ f[k - 1] = G(k - 1)[k - 1]
      BY <2>3
    <3>2. Shifts(G(k - 1), k - 1)
      BY <1>1, <3>1, Zenon
    <3>3. G(k)[k - 1] = G(k - 1)[k - 1]
      BY <2>1, <3>1, <3>2, ShiftsAgree
    <3> QED
      BY <2>1, <2>2, <2>3, <3>1, <3>3, Zenon
  <2> QED
    BY <2>1, <2>2, <2>3, Zenon
<1> HIDE DEF G
<1>3. f = [k \in Nat |-> IF k = 0 THEN 1 ELSE 2 * f[k - 1]]
  BY <1>2, Zenon
<1> HIDE DEF f
<1>4. \E e : e = [k \in Nat |-> IF k = 0 THEN 1 ELSE 2 * e[k - 1]]
  BY <1>3, Zenon
<1>5. Pow2 = [k \in Nat |-> IF k = 0 THEN 1 ELSE 2 * Pow2[k - 1]]
  BY <1>4, Zenon DEF Pow2
<1>6. \A k \in Nat : Pow2[k] = IF k = 0 THEN 1 ELSE 2 * Pow2[k - 1]
  BY <1>5, Zenon
<1>7. ASSUME NEW k \in Nat  PROVE Pow2[k + 1] = 2 * Pow2[k]
  <2>1. k + 1 \in Nat /\ k + 1 # 0 /\ (k + 1) - 1 = k
    OBVIOUS
  <2> QED
    BY <1>6, <2>1, Zenon
<1> QED
  BY <1>6, <1>7, Zenon
\* A power of two exceeds its exponent.
LEMMA Pow2Grows ==
  \A k \in Nat : Pow2[k] \in Nat /\ k < Pow2[k]
<1> DEFINE Bad == {k \in Nat : ~(Pow2[k] \in Nat /\ k < Pow2[k])}
<1>1. ASSUME Bad # {}  PROVE FALSE
  <2>1. PICK k \in Bad : \A y \in Bad : k <= y
    <3>1. Bad \subseteq Nat
      BY Zenon
    <3> HIDE DEF Bad
    <3> QED
      BY <1>1, <3>1, NatMin, Zenon
  <2>2. k # 0
    BY <2>1, Pow2Unfolds
  <2>3. k \in Nat /\ k - 1 \in Nat /\ k - 1 \notin Bad /\ k = (k - 1) + 1
    BY <2>1, <2>2
  <2>4. Pow2[k - 1] \in Nat /\ k - 1 < Pow2[k - 1]
    BY <2>3, Zenon
  <2>5. Pow2[(k - 1) + 1] = 2 * Pow2[k - 1]
    BY <2>3, Pow2Unfolds, Zenon
  <2>6. Pow2[k] = 2 * Pow2[k - 1]
    BY <2>3, <2>5, Zenon
  <2> QED
    BY <2>1, <2>2, <2>3, <2>4, <2>6
<1> QED
  BY <1>1, Zenon

\* (1 << k) squared is 1 << 2k.
LEMMA Pow2Squares ==
  \A k \in Nat : Pow2[k] * Pow2[k] = Pow2[2 * k]
<1> DEFINE Bad == {k \in Nat : Pow2[k] * Pow2[k] # Pow2[2 * k]}
<1>1. ASSUME Bad # {}  PROVE FALSE
  <2>1. PICK k \in Bad : \A y \in Bad : k <= y
    <3>1. Bad \subseteq Nat
      BY Zenon
    <3> HIDE DEF Bad
    <3> QED
      BY <1>1, <3>1, NatMin, Zenon
  <2>2. k # 0
    BY <2>1, Pow2Unfolds
  <2>3. PICK j \in Nat : k = j + 1
    BY <2>1, <2>2
  <2>4. Pow2[j] * Pow2[j] = Pow2[2 * j]
    BY <2>1, <2>3
  <2>5. /\ Pow2[j + 1] = 2 * Pow2[j]
        /\ Pow2[2 * j + 1] = 2 * Pow2[2 * j]
        /\ Pow2[(2 * j + 1) + 1] = 2 * Pow2[2 * j + 1]
    BY Pow2Unfolds
  <2>6. (2 * j + 1) + 1 = 2 * k
    BY <2>3
  <2>7. Pow2[j] \in Nat /\ Pow2[2 * j] \in Nat
    BY Pow2Grows
  <2>8. Pow2[2 * k] = 4 * (Pow2[j] * Pow2[j])
    <3>1. Pow2[2 * k] = 2 * (2 * Pow2[2 * j])
      BY <2>5, <2>6, Zenon
    <3>2. 2 * (2 * Pow2[2 * j]) = 4 * Pow2[2 * j]
      BY <2>7
    <3> QED
      BY <2>4, <3>1, <3>2, Zenon
  <2>9. (2 * Pow2[j]) * (2 * Pow2[j]) = 4 * (Pow2[j] * Pow2[j])
    BY <2>7
  <2> QED
    BY <2>1, <2>3, <2>5, <2>8, <2>9, Zenon
<1> QED
  BY <1>1, Zenon

\* Powers of two are ordered as their exponents.
LEMMA Pow2Monotone ==
  \A k \in Nat : Pow2[k] <= Pow2[k + 1]
BY Pow2Unfolds, Pow2Grows

\* The least k with n < 1 << k.
Bits(n) == CHOOSE k \in Nat : n < Pow2[k] /\ \A j \in Nat : n < Pow2[j] => k <= j

\* The bit length is the least power of two above the number.
LEMMA BitsIs ==
  ASSUME NEW n \in Nat
  PROVE  /\ Bits(n) \in Nat
         /\ n < Pow2[Bits(n)]
         /\ \A j \in Nat : n < Pow2[j] => Bits(n) <= j
<1> DEFINE Fits == {k \in Nat : n < Pow2[k]}
<1>1. n \in Fits /\ Fits \subseteq Nat
  BY Pow2Grows, Zenon
<1>2. PICK b \in Fits : \A y \in Fits : b <= y
  <2> HIDE DEF Fits
  <2> QED
    BY <1>1, NatMin, Zenon
<1>3. \E k \in Nat : n < Pow2[k] /\ \A j \in Nat : n < Pow2[j] => k <= j
  BY <1>2, Zenon
<1> QED
  BY <1>3, Zenon DEF Bits

\* The bit length exists, and bounds its number.
LEMMA BitLenBounds ==
  ASSUME NEW n \in Nat
  PROVE  BitLen[n] \in Nat /\ n < Pow2[BitLen[n]]
<1> DEFINE f == [m \in Nat |-> Bits(m)]
<1>1. ASSUME NEW m \in Nat  PROVE f[m] = IF m = 0 THEN 0 ELSE 1 + f[m \div 2]
  <2>1. CASE m = 0
    <3>1. 0 < Pow2[0]
      BY Pow2Unfolds
    <3>2. Bits(0) \in Nat /\ Bits(0) <= 0
      BY <3>1, BitsIs, Zenon
    <3> QED
      BY <2>1, <3>2
  <2>2. CASE m # 0
    <3>1. m \div 2 \in Nat /\ 2 * (m \div 2) <= m /\ m <= 2 * (m \div 2) + 1
      OBVIOUS
    <3> DEFINE h == m \div 2
    <3> HIDE DEF h
    <3>2. h \in Nat /\ 2 * h <= m /\ m <= 2 * h + 1
      BY <3>1, Zenon DEF h
    <3>3. /\ Bits(h) \in Nat /\ h < Pow2[Bits(h)]
          /\ \A j \in Nat : h < Pow2[j] => Bits(h) <= j
      BY <3>2, BitsIs, Zenon
    <3>4. /\ Bits(m) \in Nat /\ m < Pow2[Bits(m)]
          /\ \A j \in Nat : m < Pow2[j] => Bits(m) <= j
      BY BitsIs, Zenon
    <3>5. Pow2[Bits(h) + 1] = 2 * Pow2[Bits(h)] /\ Pow2[Bits(h)] \in Nat
      BY <3>3, Pow2Unfolds, Pow2Grows, Zenon
    <3>6. Bits(m) <= Bits(h) + 1
      BY <3>2, <3>3, <3>4, <3>5
    <3>7. Bits(m) # 0
      BY <2>2, <3>4, Pow2Unfolds
    <3>8. PICK j \in Nat : Bits(m) = j + 1
      BY <3>4, <3>7
    <3>9. Pow2[j + 1] = 2 * Pow2[j] /\ Pow2[j] \in Nat
      BY Pow2Unfolds, Pow2Grows, Zenon
    <3>10. h < Pow2[j]
      BY <3>2, <3>4, <3>8, <3>9
    <3>11. Bits(m) = 1 + Bits(h)
      BY <3>3, <3>4, <3>6, <3>8, <3>10
    <3> QED
      BY <2>2, <3>1, <3>11, Zenon DEF h
  <2> QED
    BY <2>1, <2>2, Zenon
<1>2. f = [m \in Nat |-> IF m = 0 THEN 0 ELSE 1 + f[m \div 2]]
  BY <1>1, Zenon
<1> HIDE DEF f
<1>3. \E e : e = [m \in Nat |-> IF m = 0 THEN 0 ELSE 1 + e[m \div 2]]
  BY <1>2, Zenon
<1>4. BitLen = [m \in Nat |-> IF m = 0 THEN 0 ELSE 1 + BitLen[m \div 2]]
  BY <1>3, Zenon DEF BitLen
<1>5. \A m \in Nat : BitLen[m] = IF m = 0 THEN 0 ELSE 1 + BitLen[m \div 2]
  BY <1>4, Zenon
<1> DEFINE Bad == {m \in Nat : ~(BitLen[m] \in Nat /\ m < Pow2[BitLen[m]])}
<1>6. ASSUME Bad # {}  PROVE FALSE
  <2>1. PICK m \in Bad : \A y \in Bad : m <= y
    <3>1. Bad \subseteq Nat
      BY Zenon
    <3> HIDE DEF Bad
    <3> QED
      BY <1>6, <3>1, NatMin, Zenon
  <2>2. m \in Nat /\ m # 0
    BY <1>5, <2>1, Pow2Unfolds
  <2>3. m \div 2 \in Nat /\ m \div 2 < m /\ m <= 2 * (m \div 2) + 1
    BY <2>2
  <2>4. BitLen[m \div 2] \in Nat /\ m \div 2 < Pow2[BitLen[m \div 2]]
    BY <2>1, <2>2, <2>3
  <2>5. BitLen[m] = 1 + BitLen[m \div 2]
    BY <1>5, <2>2, Zenon
  <2>6. Pow2[BitLen[m \div 2] + 1] = 2 * Pow2[BitLen[m \div 2]] /\ Pow2[BitLen[m \div 2]] \in Nat
    BY <2>4, Pow2Unfolds, Pow2Grows, Zenon
  <2>7. BitLen[m] = BitLen[m \div 2] + 1
    BY <2>4, <2>5
  <2>8. BitLen[m] \in Nat /\ m < Pow2[BitLen[m]]
    BY <2>2, <2>3, <2>4, <2>6, <2>7
  <2> QED
    BY <2>1, <2>8, Zenon
<1> QED
  BY <1>6, Zenon


\* Squares are ordered as their sides.
LEMMA SquareOrder ==
  ASSUME NEW a \in Nat, NEW b \in Nat, a <= b
  PROVE  a * a <= b * b
<1>1. PICK d \in Nat : b = a + d
  BY b - a \in Nat, b = a + (b - a), Zenon
<1>2. b * b = a * a + (2 * (a * d) + d * d)
  BY <1>1
<1>3. a * d \in Nat /\ d * d \in Nat /\ a * a \in Nat
  OBVIOUS
<1> QED
  BY <1>2, <1>3

\* A number has one integer root.
LEMMA RootUnique ==
  ASSUME NEW n \in Nat, NEW r \in Nat, NEW s \in Nat, IsRoot(r, n), IsRoot(s, n)
  PROVE  r = s
<1>1. ASSUME NEW a \in Nat, NEW b \in Nat, IsRoot(a, n), IsRoot(b, n), a < b
      PROVE  FALSE
  <2>1. (a + 1) * (a + 1) <= b * b
    BY <1>1, SquareOrder, a + 1 \in Nat
  <2>2. (a + 1) * (a + 1) \in Nat /\ b * b \in Nat
    OBVIOUS
  <2> QED
    BY <1>1, <2>1, <2>2 DEF IsRoot
<1> QED
  BY <1>1

\* A number has an integer root.
LEMMA RootExists ==
  ASSUME NEW n \in Nat
  PROVE  \E r \in Nat : IsRoot(r, n)
<1> DEFINE Above == {r \in Nat : n < (r + 1) * (r + 1)}
<1>1. n \in Above
  <2>1. (n + 1) * (n + 1) = n * n + 2 * n + 1 /\ n * n \in Nat
    OBVIOUS
  <2> QED
    BY <2>1
<1>2. PICK r \in Above : \A y \in Above : r <= y
  <2>1. Above \subseteq Nat
    BY Zenon
  <2> HIDE DEF Above
  <2> QED
    BY <1>1, <2>1, NatMin, Zenon
<1>3. r * r <= n
  <2>1. CASE r = 0
    BY <2>1
  <2>2. CASE r # 0
    <3>1. r - 1 \in Nat /\ r - 1 \notin Above /\ (r - 1) + 1 = r
      BY <1>2, <2>2
    <3>2. ~(n < r * r) /\ r * r \in Nat
      BY <1>2, <3>1
    <3> QED
      BY <3>2
  <2> QED
    BY <2>1, <2>2, Zenon
<1> QED
  BY <1>2, <1>3, Zenon DEF IsRoot

\* One Newton step of isqrt.
NextEstimate(x, n) == (x + n \div x) \div 2

\* What one step does from an estimate whose successor is above the root: it
\* stays there, and where it would not descend the estimate is the root.
LEMMA NewtonStep ==
  ASSUME NEW n \in Nat \ {0}, NEW x \in Nat \ {0}
  PROVE  /\ NextEstimate(x, n) \in Nat
         /\ n < (x + 1) * (x + 1) =>
              /\ NextEstimate(x, n) \in Nat \ {0}
              /\ n < (NextEstimate(x, n) + 1) * (NextEstimate(x, n) + 1)
              /\ NextEstimate(x, n) >= x => IsRoot(x, n)
         /\ (x + 1) * (x + 1) <= n => NextEstimate(x, n) >= x
<1> DEFINE q == n \div x
           p == NextEstimate(x, n)
<1>1. q \in Nat /\ x * q <= n /\ n < x * q + x
  OBVIOUS
<1>2. p \in Nat /\ 2 * p <= x + q /\ x + q <= 2 * p + 1
  BY <1>1 DEF NextEstimate
<1> HIDE DEF q, p
<1>3. ASSUME n < (x + 1) * (x + 1)
      PROVE  p # 0 /\ n < (p + 1) * (p + 1) /\ (p >= x => IsRoot(x, n))
  <2>1. p # 0
    <3>1. CASE x = 1
      <4>1. q # 0
        BY <1>1, <3>1
      <4> QED
        BY <1>1, <1>2, <3>1, <4>1
    <3>2. CASE x # 1
      BY <1>1, <1>2, <3>2
    <3> QED
      BY <3>1, <3>2, Zenon
  <2>2. n < (p + 1) * (p + 1)
    <3>1. PICK d \in Int : d = x - (q + 1)
      BY <1>1
    <3>2. PICK s \in Nat : s = x + (q + 1)
      BY <1>1
    <3>3. s * s = d * d + 4 * (x * (q + 1)) /\ d * d >= 0
      BY <1>1, <3>1, <3>2
    <3>4. s <= 2 * (p + 1) /\ 2 * (p + 1) \in Nat
      BY <1>1, <1>2, <3>2
    <3>5. s * s <= (2 * (p + 1)) * (2 * (p + 1))
      BY <3>4, SquareOrder, Zenon
    <3>6. (2 * (p + 1)) * (2 * (p + 1)) = 4 * ((p + 1) * (p + 1))
      BY <1>2
    <3>7. x * (q + 1) = x * q + x /\ x * q \in Nat
      BY <1>1
    <3>8. /\ s * s \in Int /\ d * d \in Int /\ x * (q + 1) \in Int
          /\ (p + 1) * (p + 1) \in Int
      BY <1>1, <1>2, <3>1, <3>2
    <3> QED
      BY <1>1, <3>3, <3>5, <3>6, <3>7, <3>8
  <2>3. ASSUME p >= x  PROVE IsRoot(x, n)
    <3>1. q >= x
      BY <1>1, <1>2, <2>3
    <3>2. x * x <= x * q
      <4>1. PICK e \in Nat : q = x + e
        BY <1>1, <3>1, q - x \in Nat, q = x + (q - x), Zenon
      <4>2. x * q = x * x + x * e /\ x * e \in Nat /\ x * x \in Nat
        BY <4>1
      <4> QED
        BY <4>2
    <3>3. x * x \in Int /\ x * q \in Int
      BY <1>1
    <3> QED
      BY <1>1, <1>3, <3>2, <3>3 DEF IsRoot
  <2> QED
    BY <2>1, <2>2, <2>3, Zenon
<1>4. ASSUME (x + 1) * (x + 1) <= n  PROVE p >= x
  <2>1. ASSUME q <= x  PROVE FALSE
    <3>1. x * q <= x * x
      <4>1. PICK e \in Nat : x = q + e
        BY <1>1, <2>1, x - q \in Nat, x = q + (x - q), Zenon
      <4>2. x * x = x * q + x * e /\ x * e \in Nat /\ x * q \in Nat
        BY <1>1, <4>1
      <4> QED
        BY <4>2
    <3>2. (x + 1) * (x + 1) = x * x + 2 * x + 1 /\ x * x \in Nat /\ x * q \in Nat
      BY <1>1
    <3> QED
      BY <1>1, <1>4, <3>1, <3>2
  <2> QED
    BY <1>1, <1>2, <2>1
<1> QED
  BY <1>2, <1>3, <1>4, Zenon DEF p
\* The descent of Newton(n), from every estimate.
LEMMA DescentFinds ==
  ASSUME NEW n \in Nat \ {0}, NEW d,
         d = [x \in Nat \ {0} |->
                IF NextEstimate(x, n) >= x THEN x ELSE d[NextEstimate(x, n)]],
         NEW x0 \in Nat \ {0}, n < (x0 + 1) * (x0 + 1)
  PROVE  d[x0] \in Nat /\ IsRoot(d[x0], n)
<1>1. \A x \in Nat \ {0} :
        d[x] = IF NextEstimate(x, n) >= x THEN x ELSE d[NextEstimate(x, n)]
  BY Zenon
<1> DEFINE Bad == {x \in Nat : /\ x # 0 /\ n < (x + 1) * (x + 1)
                               /\ ~(d[x] \in Nat /\ IsRoot(d[x], n))}
<1>2. ASSUME Bad # {}  PROVE FALSE
  <2>1. PICK x \in Bad : \A y \in Bad : x <= y
    <3>1. Bad \subseteq Nat
      BY Zenon
    <3> HIDE DEF Bad
    <3> QED
      BY <1>2, <3>1, NatMin, Zenon
  <2>2. x \in Nat \ {0} /\ n < (x + 1) * (x + 1)
    BY <2>1, Zenon
  <2> DEFINE p == NextEstimate(x, n)
  <2>3. /\ p \in Nat \ {0} /\ n < (p + 1) * (p + 1)
        /\ p >= x => IsRoot(x, n)
    BY <2>2, NewtonStep
  <2>4. d[x] = IF p >= x THEN x ELSE d[p]
    BY <1>1, <2>2, Zenon
  <2> HIDE DEF p
  <2>5. CASE p >= x
    BY <2>1, <2>2, <2>3, <2>4, <2>5, Zenon
  <2>6. CASE ~(p >= x)
    <3>1. p \notin Bad
      BY <2>1, <2>2, <2>3, <2>6, Zenon
    <3>2. d[p] \in Nat /\ IsRoot(d[p], n)
      BY <2>3, <3>1, Zenon
    <3> QED
      BY <2>1, <2>4, <2>6, <3>2
  <2> QED
    BY <2>5, <2>6, Zenon
<1> QED
  BY <1>2, Zenon

\* The descent exists: from above it ends at the root, from below it stays.
LEMMA DescentExists ==
  ASSUME NEW n \in Nat \ {0}
  PROVE  \E d : d = [x \in Nat \ {0} |->
                       IF NextEstimate(x, n) >= x THEN x ELSE d[NextEstimate(x, n)]]
<1>1. PICK r \in Nat : IsRoot(r, n)
  BY RootExists, Zenon
<1> DEFINE d == [x \in Nat \ {0} |-> IF n < (x + 1) * (x + 1) THEN r ELSE x]
<1>2. ASSUME NEW x \in Nat \ {0}
      PROVE  d[x] = IF NextEstimate(x, n) >= x THEN x ELSE d[NextEstimate(x, n)]
  <2>1. CASE n < (x + 1) * (x + 1)
    <3>1. /\ NextEstimate(x, n) \in Nat \ {0}
          /\ n < (NextEstimate(x, n) + 1) * (NextEstimate(x, n) + 1)
          /\ NextEstimate(x, n) >= x => IsRoot(x, n)
      BY <2>1, NewtonStep, Zenon
    <3>2. d[x] = r /\ d[NextEstimate(x, n)] = r
      BY <2>1, <3>1, Zenon
    <3>3. NextEstimate(x, n) >= x => x = r
      BY <1>1, <3>1, RootUnique, Zenon
    <3> QED
      BY <3>2, <3>3, Zenon
  <2>2. CASE ~(n < (x + 1) * (x + 1))
    <3>1. (x + 1) * (x + 1) <= n
      BY <2>2, (x + 1) * (x + 1) \in Nat
    <3>2. NextEstimate(x, n) >= x
      BY <3>1, NewtonStep, Zenon
    <3> QED
      BY <2>2, <3>2, Zenon
  <2> QED
    BY <2>1, <2>2, Zenon
<1>3. d = [x \in Nat \ {0} |->
             IF NextEstimate(x, n) >= x THEN x ELSE d[NextEstimate(x, n)]]
  BY <1>2, Zenon
<1> HIDE DEF d
<1> QED
  BY <1>3, Zenon

\* The descent from any power of two above the root stops at the root.
LEMMA NewtonFinds ==
  ASSUME NEW n \in Nat \ {0}
  PROVE  Newton(n) \in Nat /\ IsRoot(Newton(n), n)
<1> DEFINE D == CHOOSE d : d = [x \in Nat \ {0} |->
                  IF NextEstimate(x, n) >= x THEN x ELSE d[NextEstimate(x, n)]]
           k == (BitLen[n] + 1) \div 2
<1>1. D = [x \in Nat \ {0} |->
             IF NextEstimate(x, n) >= x THEN x ELSE D[NextEstimate(x, n)]]
  BY DescentExists, Zenon
<1>2. Newton(n) = D[Pow2[k]]
  BY Zenon DEF Newton, NextEstimate
<1>3. BitLen[n] \in Nat /\ n < Pow2[BitLen[n]]
  BY BitLenBounds, Zenon
<1>4. k \in Nat /\ (2 * k = BitLen[n] \/ 2 * k = BitLen[n] + 1)
  BY <1>3
<1> HIDE DEF D, k
<1>5. Pow2[BitLen[n]] <= Pow2[2 * k]
  BY <1>3, <1>4, Pow2Monotone, Pow2Grows
<1>6. Pow2[k] \in Nat \ {0} /\ Pow2[k] * Pow2[k] = Pow2[2 * k]
  BY <1>4, Pow2Grows, Pow2Squares
<1>7. n < (Pow2[k] + 1) * (Pow2[k] + 1)
  <2>1. (Pow2[k] + 1) * (Pow2[k] + 1) = Pow2[k] * Pow2[k] + 2 * Pow2[k] + 1
    BY <1>6
  <2>2. Pow2[BitLen[n]] \in Nat /\ Pow2[2 * k] \in Nat
    BY <1>3, <1>4, Pow2Grows
  <2> QED
    BY <1>3, <1>5, <1>6, <2>1, <2>2
<1>8. D[Pow2[k]] \in Nat /\ IsRoot(D[Pow2[k]], n)
  BY <1>1, <1>6, <1>7, DescentFinds, Zenon
<1> QED
  BY <1>2, <1>8, Zenon

\* isqrt of math.rs returns the floor of the square root of every number: the
\* estimate it starts from, 1 << ceil(bits / 2), is never below the root, the
\* Newton-Raphson descent never steps under it, and where it stops it is exact.
THEOREM RootIsExact ==
  \A n \in Nat : isqrt(n) \in Nat /\ IsRoot(isqrt(n), n)
<1> TAKE n \in Nat
<1>1. CASE n = 0
  BY <1>1 DEF isqrt, IsRoot
<1>2. CASE n # 0 /\ n < 4
  BY <1>2 DEF isqrt, IsRoot
<1>3. CASE n # 0 /\ ~(n < 4)
  <2>1. n \in Nat \ {0} /\ isqrt(n) = Newton(n)
    BY <1>3, Zenon DEF isqrt
  <2> QED
    BY <2>1, NewtonFinds, Zenon
<1> QED
  BY <1>1, <1>2, <1>3, Zenon
\* The root of a larger number is no smaller, and no root exceeds its number.
LEMMA RootMonotone ==
  ASSUME NEW m \in Nat, NEW n \in Nat, m <= n
  PROVE  isqrt(m) <= isqrt(n) /\ isqrt(m) <= m
<1> DEFINE r == isqrt(m)
           s == isqrt(n)
<1>1. r \in Nat /\ s \in Nat /\ IsRoot(r, m) /\ IsRoot(s, n)
  BY RootIsExact, Zenon
<1> HIDE DEF r, s
<1>2. r <= s
  <2>1. ASSUME s + 1 <= r  PROVE FALSE
    <3>1. (s + 1) * (s + 1) <= r * r
      BY <1>1, <2>1, SquareOrder, s + 1 \in Nat, Zenon
    <3>2. (s + 1) * (s + 1) \in Int /\ r * r \in Int
      BY <1>1
    <3> QED
      BY <1>1, <3>1, <3>2 DEF IsRoot
  <2> QED
    BY <1>1, <2>1
<1>3. r <= m
  <2>1. r = 0 \/ r * r >= r
    <3>1. ASSUME r # 0  PROVE r * r >= r
      <4>1. PICK k \in Nat : r = k + 1
        BY <1>1, <3>1
      <4>2. r * r = k * k + 2 * k + 1 /\ k * k \in Nat
        BY <4>1
      <4> QED
        BY <4>1, <4>2
    <3> QED
      BY <3>1, Zenon
  <2>2. r * r \in Int
    BY <1>1
  <2> QED
    BY <1>1, <2>1, <2>2 DEF IsRoot
<1> QED
  BY <1>2, <1>3, Zenon DEF r, s

\* A quotient grows with its dividend.
LEMMA DivOrder ==
  ASSUME NEW a \in Int, NEW b \in Int, NEW c \in Nat \ {0}, a <= b
  PROVE  a \div c <= b \div c
OBVIOUS

\* A quotient of at most k divisors is at most k.
LEMMA DivAtMost ==
  ASSUME NEW a \in Nat, NEW k \in Nat, NEW c \in Nat \ {0}, a <= k * c
  PROVE  a \div c \in Nat /\ a \div c <= k
<1>1. a \div c \in Nat /\ c * (a \div c) <= a
  OBVIOUS
<1> DEFINE q == a \div c
<1> HIDE DEF q
<1>2. q \in Nat /\ c * q <= a
  BY <1>1, Zenon DEF q
<1>3. ASSUME q >= k + 1  PROVE FALSE
  <2>1. PICK e \in Nat : q = k + 1 + e
    BY <1>2, <1>3, q - (k + 1) \in Nat, q = k + 1 + (q - (k + 1)), Zenon
  <2>2. c * q = k * c + c + c * e /\ c * e \in Nat /\ k * c \in Nat
    BY <2>1
  <2> QED
    BY <1>2, <2>2
<1> QED
  BY <1>2, <1>3 DEF q

\* Products of natural numbers grow with their factors.
LEMMA ProductOrder ==
  ASSUME NEW a \in Nat, NEW b \in Nat, NEW c \in Nat, NEW d \in Nat, a <= b, c <= d
  PROVE  a * c <= b * d /\ a * c \in Nat /\ b * d \in Nat
<1>1. PICK e \in Nat, f \in Nat : b = a + e /\ d = c + f
  BY b - a \in Nat, d - c \in Nat, b = a + (b - a), d = c + (d - c), Zenon
<1>2. b * d = a * c + (a * f + e * c + e * f)
  BY <1>1
<1>3. a * c \in Nat /\ a * f \in Nat /\ e * c \in Nat /\ e * f \in Nat
  BY <1>1
<1> QED
  BY <1>2, <1>3

\* What a proposal needs only falls with the ledgers that pass, and stays
\* between the floor and the larger of the threshold and the floor.
LEMMA QuorumFalls ==
  ASSUME NEW start \in Nat, NEW window \in Nat, NEW e \in Nat, NEW l \in Nat, e <= l
  PROVE  /\ current_quorum_bps(start, e, window) \in QUORUM_FLOOR_BPS .. Most(start, QUORUM_FLOOR_BPS)
         /\ current_quorum_bps(start, l, window) <= current_quorum_bps(start, e, window)
<1> DEFINE top == Most(start, QUORUM_FLOOR_BPS)
           drop(x) == ((top - QUORUM_FLOOR_BPS) * x) \div window
<1>1. top \in Nat /\ QUORUM_FLOOR_BPS \in Nat /\ top - QUORUM_FLOOR_BPS \in Nat
  BY DEF Most, QUORUM_FLOOR_BPS
<1> HIDE DEF top
<1>2. ASSUME NEW x \in Nat, x < window
      PROVE  drop(x) \in 0..(top - QUORUM_FLOOR_BPS)
  <2>1. (top - QUORUM_FLOOR_BPS) * x <= (top - QUORUM_FLOOR_BPS) * window
    BY <1>1, <1>2, ProductOrder
  <2>2. (top - QUORUM_FLOOR_BPS) * x \in Nat /\ window \in Nat \ {0}
    BY <1>1, <1>2
  <2>3. drop(x) \in Nat /\ drop(x) <= top - QUORUM_FLOOR_BPS
    BY <1>1, <2>1, <2>2, DivAtMost, Zenon
  <2> QED
    BY <1>1, <2>3
<1>3. ASSUME l < window  PROVE drop(e) <= drop(l)
  <2>1. (top - QUORUM_FLOOR_BPS) * e <= (top - QUORUM_FLOOR_BPS) * l
    BY <1>1, ProductOrder
  <2>2. (top - QUORUM_FLOOR_BPS) * e \in Int /\ (top - QUORUM_FLOOR_BPS) * l \in Int
    BY <1>1
  <2> QED
    BY <1>3, <2>1, <2>2, DivOrder
<1>4. \A x \in Nat : current_quorum_bps(start, x, window) =
        IF window = 0 \/ x >= window THEN QUORUM_FLOOR_BPS ELSE top - drop(x)
  BY Zenon DEF current_quorum_bps, top
<1> HIDE DEF drop
<1>5. current_quorum_bps(start, e, window) \in QUORUM_FLOOR_BPS .. top
  BY <1>1, <1>2, <1>4
<1>6. current_quorum_bps(start, l, window) <= current_quorum_bps(start, e, window)
  <2>1. CASE window = 0 \/ l >= window
    BY <1>1, <1>4, <1>5, <2>1
  <2>2. CASE window # 0 /\ l < window
    BY <1>1, <1>2, <1>3, <1>4, <2>2
  <2> QED
    BY <2>1, <2>2
<1> QED
  BY <1>5, <1>6 DEF top

\* A lock's power fits the 64 bits it is stored in.
LEMMA PowerIsNat ==
  ASSUME U64Max \in Nat, MAX_LOCK_LEDGERS \in Nat \ {0}, NEW amount \in Int, NEW r \in Nat
  PROVE  power_for(amount, r) \in 0..U64Max
<1>1. CASE amount <= 0 \/ r = 0
  BY <1>1 DEF power_for
<1>2. CASE ~(amount <= 0 \/ r = 0)
  <2> DEFINE left == Least(r, MAX_LOCK_LEDGERS)
             q == amount \div MAX_LOCK_LEDGERS
             m == amount % MAX_LOCK_LEDGERS
             f == (m * left) \div MAX_LOCK_LEDGERS
  <2>1. left \in Nat
    BY Zenon DEF Least
  <2>2. q \in Nat /\ m \in Nat
    BY <1>2
  <2> HIDE DEF left, q, m
  <2>3. q * left \in Nat /\ m * left \in Nat
    BY <2>1, <2>2
  <2>4. f \in Nat
    BY <2>3
  <2>5. power_for(amount, r) = Least(q * left + f, U64Max)
    BY <1>2, Zenon DEF power_for, left, q, m
  <2> HIDE DEF f
  <2> QED
    BY <2>3, <2>4, <2>5 DEF Least
<1> QED
  BY <1>1, <1>2, Zenon

-----------------------------------------------------------------------------
(* Votes, gates and shares.                                                *)

\* The instance storage of the contract.
GovRecord ==
  [total_weight : 0..U64Max, total_deposits : 0..U64Max, threshold_bps : Nat,
   voting_period : Nat, count : Nat, optimistic_count : Nat,
   treasury_token : TreasuryTokens \cup {None}, ve_token : VeTokens \cup {None},
   timelock : BOOLEAN, simulation : SimulationConfig \cup {None}]

\* What each member's deposit weighs by itself.
Roots(d) == [a \in Accounts |-> isqrt(d[a])]

\* The totals and the members: total_deposits is the deposits' sum, and
\* total_weight no more than the weight the deposits alone carry.
MembersInv ==
  /\ now \in Nat /\ gov \in GovRecord
  /\ deposit \in [Accounts -> 0..U64Max] /\ quarantined \in [Accounts -> 0..U64Max]
  /\ lock \in [Accounts -> Lock \cup {None}]
  /\ gov.total_deposits = SumFunctionOnSet(deposit, Accounts)
  /\ gov.total_weight <= SumFunctionOnSet(Roots(deposit), Accounts)

\* What no call changes, and which way the rest goes.
ConfigKept ==
  /\ gov'.threshold_bps = gov.threshold_bps /\ gov'.voting_period = gov.voting_period
  /\ gov'.count >= gov.count /\ gov'.total_weight <= gov.total_weight
  /\ gov'.total_deposits # gov.total_deposits => GovRagequitStep

\* Roots of deposits are natural numbers.
LEMMA RootsNat ==
  ASSUME NEW d \in [Accounts -> 0..U64Max]
  PROVE  NatOn(d, Accounts) /\ NatOn(Roots(d), Accounts)
<1>1. \A a \in Accounts : d[a] \in Nat
  BY GovernanceAssumption
<1>2. \A a \in Accounts : isqrt(d[a]) \in Nat
  BY <1>1, RootIsExact, Zenon
<1> QED
  BY <1>1, <1>2, Zenon DEF NatOn, Roots

\* A lock adds to a member's weight and never takes from it.
LEMMA WeightBounds ==
  ASSUME MembersInv, NEW a \in Accounts
  PROVE  quadratic_weight(a) \in Nat /\ isqrt(deposit[a]) <= quadratic_weight(a)
<1>1. deposit[a] \in 0..U64Max /\ U64Max \in Nat
  BY GovernanceAssumption, Zenon DEF MembersInv
<1>2. CASE deposit[a] = 0
  BY <1>2 DEF quadratic_weight, isqrt
<1>3. CASE deposit[a] # 0
  <2>1. voting_power(a) \in Nat
    <3>1. CASE lock[a] = None
      BY <3>1, Zenon DEF voting_power
    <3>2. CASE lock[a] # None
      <4>1. lock[a] \in Lock
        BY <3>2, Zenon DEF MembersInv
      <4>2. lock[a].amount \in Int /\ lock[a].unlock_ledger - now \in Int
        BY <4>1 DEF Lock, MembersInv
      <4>3. Most(lock[a].unlock_ledger - now, 0) \in Nat
        BY <4>2 DEF Most
      <4>4. lock_power(lock[a]) \in 0..U64Max
        BY <4>2, <4>3, PowerIsNat, GovernanceAssumption, Zenon DEF lock_power
      <4> QED
        BY <3>2, <4>4 DEF voting_power
    <3> QED
      BY <3>1, <3>2, Zenon
  <2>2. /\ Least(deposit[a] + voting_power(a), U64Max) \in Nat
        /\ deposit[a] <= Least(deposit[a] + voting_power(a), U64Max)
    BY <1>1, <2>1 DEF Least
  <2> QED
    BY <1>1, <1>3, <2>2, RootMonotone, RootIsExact DEF quadratic_weight
<1> QED
  BY <1>2, <1>3, Zenon

\* The constructor counts its members' deposits and weights.
LEMMA MembersStart ==
  ASSUME GovInit, ClockInit
  PROVE  MembersInv
<1>1. PICK c \in Constitutions : __constructor(c)
  BY Zenon DEF GovInit
<1> DEFINE n == Len(c.members)
           at(a) == {i \in 1..n : c.members[i] = a}
           deposits == [a \in Accounts |->
                          IF at(a) = {} THEN 0 ELSE c.deposits[CHOOSE i \in at(a) : TRUE]]
<1>2. /\ c.members \in Seq(Accounts) /\ c.deposits \in Seq(Nat)
      /\ c.threshold_bps \in Nat /\ c.voting_period \in Nat
  BY GovernanceAssumption, Zenon
<1>3. n \in Nat /\ n = Len(c.deposits)
  BY <1>1, <1>2, SMTT(30) DEF __constructor
<1>4. /\ deposit = deposits /\ SumFunction(deposits) <= U64Max
      /\ gov = [total_weight |-> SumFunction([a \in Accounts |-> isqrt(deposits[a])]),
                total_deposits |-> SumFunction(deposits),
                threshold_bps |-> c.threshold_bps, voting_period |-> c.voting_period,
                count |-> 0, optimistic_count |-> 0, treasury_token |-> None,
                ve_token |-> None, timelock |-> FALSE, simulation |-> None]
  BY <1>1, Zenon DEF __constructor
<1>5. \A a \in Accounts : deposits[a] \in Nat
  <2> SUFFICES ASSUME NEW a \in Accounts, at(a) # {}
               PROVE  c.deposits[CHOOSE i \in at(a) : TRUE] \in Nat
    BY Zenon
  <2> DEFINE i == CHOOSE i \in at(a) : TRUE
  <2>1. i \in at(a)
    BY Zenon
  <2> HIDE DEF i
  <2>2. i \in 1..Len(c.deposits)
    BY <1>3, <2>1, Zenon
  <2>3. c.deposits[i] \in Nat
    BY <1>2, <2>2, SMTT(30)
  <2> QED
    BY <2>3, Zenon DEF i
<1>6. DOMAIN deposits = Accounts
  BY Zenon
<1> HIDE DEF deposits
<1>7. NatOn(deposits, Accounts) /\ IsFiniteSet(Accounts) /\ U64Max \in Nat
  BY <1>5, GovernanceAssumption, Zenon DEF NatOn
<1>8. SumFunction(deposits) = SumFunctionOnSet(deposits, Accounts)
  BY <1>6, Zenon DEF SumFunction
<1>9. SumFunctionOnSet(deposits, Accounts) \in 0..U64Max
  BY <1>4, <1>7, <1>8, SumNat
<1>10. \A a \in Accounts : deposits[a] \in 0..U64Max
  <2> TAKE a \in Accounts
  <2>1. deposits[a] <= SumFunctionOnSet(deposits, Accounts)
    BY <1>7, SumBounds, Zenon
  <2> QED
    BY <1>5, <1>7, <1>9, <2>1
<1>11. deposits \in [Accounts -> 0..U64Max]
  <2>1. deposits = [a \in Accounts |-> deposits[a]]
    BY DEF deposits
  <2> QED
    BY <1>10, <2>1, Zenon
<1>12. SumFunction([a \in Accounts |-> isqrt(deposits[a])]) = SumFunctionOnSet(Roots(deposits), Accounts)
  BY Zenon DEF SumFunction, Roots
<1>13. SumFunctionOnSet(Roots(deposits), Accounts) \in 0..U64Max
  <2>1. NatOn(Roots(deposits), Accounts)
    BY <1>11, RootsNat, Zenon
  <2>2. \A a \in Accounts : Roots(deposits)[a] <= deposits[a]
    BY <1>5, RootMonotone DEF Roots
  <2>3. SumFunctionOnSet(Roots(deposits), Accounts) <= SumFunctionOnSet(deposits, Accounts)
    BY <1>7, <2>1, <2>2, SumMonotone DEF NatOn, IntOn
  <2>4. SumFunctionOnSet(Roots(deposits), Accounts) \in Nat
    BY <1>7, <2>1, SumNat, Zenon
  <2> QED
    BY <1>7, <1>9, <2>3, <2>4
<1>14. gov \in GovRecord
  BY <1>2, <1>4, <1>8, <1>9, <1>12, <1>13, Zenon DEF GovRecord
<1>15. /\ gov.total_deposits = SumFunctionOnSet(deposit, Accounts)
       /\ gov.total_weight = SumFunctionOnSet(Roots(deposit), Accounts)
  BY <1>4, <1>8, <1>12, Zenon
<1>16. /\ quarantined \in [Accounts -> 0..U64Max]
       /\ lock \in [Accounts -> Lock \cup {None}] /\ now \in Nat
  BY <1>7 DEF GovInit, ClockInit
<1> QED
  BY <1>4, <1>11, <1>13, <1>14, <1>15, <1>16 DEF MembersInv

\* A step that moves neither a deposit nor a total.
LEMMA TotalsKept ==
  ASSUME MembersInv, UNCHANGED <<deposit, quarantined>>, gov' \in GovRecord,
         gov'.total_weight = gov.total_weight, gov'.total_deposits = gov.total_deposits,
         gov'.threshold_bps = gov.threshold_bps, gov'.voting_period = gov.voting_period,
         gov'.count >= gov.count,
         now' \in Nat, lock' \in [Accounts -> Lock \cup {None}]
  PROVE  MembersInv' /\ ConfigKept
<1>1. gov.total_weight \in Int
  BY DEF MembersInv, GovRecord
<1>2. Roots(deposit)' = Roots(deposit)
  BY Zenon DEF Roots
<1> QED
  BY <1>1, <1>2 DEF MembersInv, ConfigKept

\* A member who leaves takes their deposit and no more out of the totals.
LEMMA RagequitTotals ==
  ASSUME MembersInv, NEW voter \in Accounts, NEW id \in Ids, ragequit(voter, id), now' = now
  PROVE  MembersInv' /\ ConfigKept /\ gov'.total_deposits = gov.total_deposits - deposit[voter]
<1> DEFINE e == deposit'
<1>1. /\ deposit \in [Accounts -> 0..U64Max] /\ U64Max \in Nat /\ IsFiniteSet(Accounts)
      /\ deposit' = [deposit EXCEPT ![voter] = 0]
      /\ gov' = [gov EXCEPT !.total_deposits = Most(gov.total_deposits - deposit[voter], 0),
                            !.total_weight = Most(gov.total_weight - quadratic_weight(voter), 0)]
  BY GovernanceAssumption, Zenon DEF MembersInv, ragequit
<1>2. /\ e \in [Accounts -> 0..U64Max] /\ e[voter] = 0
      /\ \A a \in Accounts \ {voter} : e[a] = deposit[a]
  BY <1>1
<1>3. NatOn(deposit, Accounts) /\ NatOn(Roots(deposit), Accounts) /\ NatOn(e, Accounts) /\ NatOn(Roots(e), Accounts)
  BY <1>1, <1>2, RootsNat, Zenon
<1> HIDE DEF e
<1>4. SumFunctionOnSet(e, Accounts) = SumFunctionOnSet(deposit, Accounts) - deposit[voter] + 0
  <2>1. IntOn(deposit, Accounts) /\ e[voter] \in Int
    BY <1>2, <1>3 DEF NatOn, IntOn
  <2> DEFINE d == deposit
  <2>2. IsFiniteSet(Accounts) /\ IntOn(d, Accounts) /\ \A a \in Accounts \ {voter} : e[a] = d[a]
    BY <1>1, <1>2, <2>1, Zenon
  <2> HIDE DEF d
  <2>3. SumFunctionOnSet(e, Accounts) = SumFunctionOnSet(d, Accounts) - d[voter] + e[voter]
    BY <2>1, <2>2, SumChange
  <2> QED
    BY <1>2, <2>3, Zenon DEF d
<1>5. SumFunctionOnSet(Roots(e), Accounts)
        = SumFunctionOnSet(Roots(deposit), Accounts) - isqrt(deposit[voter]) + 0
  <2>1. Roots(e)[voter] = 0 /\ Roots(deposit)[voter] = isqrt(deposit[voter])
    BY <1>2, Zenon DEF Roots, isqrt
  <2>2. \A a \in Accounts \ {voter} : Roots(e)[a] = Roots(deposit)[a]
    BY <1>2, Zenon DEF Roots
  <2> QED
    BY <1>1, <1>3, <2>1, <2>2, SumChange DEF NatOn, IntOn
<1>6. /\ SumFunctionOnSet(e, Accounts) \in Nat /\ SumFunctionOnSet(Roots(e), Accounts) \in Nat
      /\ SumFunctionOnSet(deposit, Accounts) \in Nat
      /\ SumFunctionOnSet(Roots(deposit), Accounts) \in Nat
  BY <1>1, <1>3, SumNat, Zenon
<1>7. quadratic_weight(voter) \in Nat /\ isqrt(deposit[voter]) <= quadratic_weight(voter)
  BY WeightBounds, Zenon
<1>8. isqrt(deposit[voter]) \in Nat /\ deposit[voter] \in Nat
  BY <1>1, RootIsExact
<1>9. gov.total_weight \in 0..U64Max /\ gov.total_deposits \in 0..U64Max
  BY Zenon DEF MembersInv, GovRecord
<1>10. /\ Most(gov.total_deposits - deposit[voter], 0) = SumFunctionOnSet(e, Accounts)
       /\ Most(gov.total_deposits - deposit[voter], 0) = gov.total_deposits - deposit[voter]
       /\ Most(gov.total_deposits - deposit[voter], 0) \in 0..U64Max
  BY <1>1, <1>4, <1>6, <1>8, <1>9 DEF Most, MembersInv
<1>11. /\ Most(gov.total_weight - quadratic_weight(voter), 0) <= SumFunctionOnSet(Roots(e), Accounts)
       /\ Most(gov.total_weight - quadratic_weight(voter), 0) \in 0..U64Max
       /\ Most(gov.total_weight - quadratic_weight(voter), 0) <= gov.total_weight
  BY <1>1, <1>5, <1>6, <1>7, <1>8, <1>9 DEF Most, MembersInv
<1>12. /\ gov'.total_deposits = Most(gov.total_deposits - deposit[voter], 0)
       /\ gov'.total_weight = Most(gov.total_weight - quadratic_weight(voter), 0)
       /\ gov'.threshold_bps = gov.threshold_bps /\ gov'.voting_period = gov.voting_period
       /\ gov'.count = gov.count /\ gov.count \in Nat
  BY <1>1, Zenon DEF MembersInv, GovRecord
<1>13. gov' \in GovRecord
  BY <1>1, <1>10, <1>11, Zenon DEF MembersInv, GovRecord
<1>14. /\ quarantined' \in [Accounts -> 0..U64Max] /\ lock' = lock
  BY <1>1, Zenon DEF MembersInv, ragequit
<1> QED
  BY <1>2, <1>10, <1>11, <1>12, <1>13, <1>14 DEF MembersInv, ConfigKept, GovRagequitStep, e
\* Every step keeps the totals exact, and the rules of approval as they are.
LEMMA MembersStep ==
  ASSUME MembersInv, [GovNext]_<<govVars, now>>
  PROVE  MembersInv' /\ ConfigKept
<1>1. /\ gov \in GovRecord /\ gov.count \in Nat /\ now \in Nat
      /\ lock \in [Accounts -> Lock \cup {None}]
  BY Zenon DEF MembersInv, GovRecord
<1>2. ASSUME UNCHANGED <<gov, deposit, quarantined>>, now' \in Nat,
             lock' \in [Accounts -> Lock \cup {None}]
      PROVE  MembersInv' /\ ConfigKept
  BY <1>1, <1>2, TotalsKept
<1>3. ASSUME UNCHANGED <<deposit, quarantined, lock, now>>, NEW id \in Ids, id = gov.count + 1,
             gov' = [gov EXCEPT !.count = id]
      PROVE  MembersInv' /\ ConfigKept
  <2>1. gov' \in GovRecord
    BY <1>1, <1>3 DEF GovRecord, Ids
  <2>2. /\ gov'.total_weight = gov.total_weight /\ gov'.total_deposits = gov.total_deposits
        /\ gov'.threshold_bps = gov.threshold_bps /\ gov'.voting_period = gov.voting_period
        /\ gov'.count >= gov.count
    BY <1>1, <1>3 DEF GovRecord
  <2> QED
    BY <1>1, <1>3, <2>1, <2>2, TotalsKept, Zenon
<1>4. ASSUME UNCHANGED <<deposit, quarantined, lock, now>>,
             \/ \E t \in TreasuryTokens : gov' = [gov EXCEPT !.treasury_token = t]
             \/ \E t \in VeTokens : gov' = [gov EXCEPT !.ve_token = t]
             \/ gov' = [gov EXCEPT !.timelock = TRUE]
             \/ \E s \in SimulationConfig : gov' = [gov EXCEPT !.simulation = s]
             \/ \E i \in Ids : gov' = [gov EXCEPT !.optimistic_count = i]
      PROVE  MembersInv' /\ ConfigKept
  <2>1. gov' \in GovRecord
    <3>1. CASE \E t \in TreasuryTokens : gov' = [gov EXCEPT !.treasury_token = t]
      BY <1>1, <3>1, Zenon DEF GovRecord
    <3>2. CASE \E t \in VeTokens : gov' = [gov EXCEPT !.ve_token = t]
      BY <1>1, <3>2, Zenon DEF GovRecord
    <3>3. CASE gov' = [gov EXCEPT !.timelock = TRUE]
      BY <1>1, <3>3, Zenon DEF GovRecord
    <3>4. CASE \E s \in SimulationConfig : gov' = [gov EXCEPT !.simulation = s]
      BY <1>1, <3>4, Zenon DEF GovRecord
    <3>5. CASE \E i \in Ids : gov' = [gov EXCEPT !.optimistic_count = i]
      BY <1>1, <3>5 DEF GovRecord, Ids
    <3> QED
      BY <1>4, <3>1, <3>2, <3>3, <3>4, <3>5, Zenon
  <2>2. /\ gov'.total_weight = gov.total_weight /\ gov'.total_deposits = gov.total_deposits
        /\ gov'.threshold_bps = gov.threshold_bps /\ gov'.voting_period = gov.voting_period
        /\ gov'.count = gov.count
    BY <1>1, <1>4 DEF GovRecord
  <2> QED
    BY <1>1, <1>4, <2>1, <2>2, TotalsKept
<1>5. CASE UNCHANGED <<govVars, now>>
  BY <1>1, <1>2, <1>5, Zenon DEF govVars
<1>6. CASE NextLedger /\ UNCHANGED govVars
  BY <1>1, <1>2, <1>6 DEF govVars, NextLedger
<1>7. ASSUME GovProposeStep, now' = now  PROVE MembersInv' /\ ConfigKept
  BY <1>3, <1>7, Zenon DEF GovProposeStep, propose
<1>8. ASSUME GovVoteStep \/ GovAnonymousStep \/ GovExecuteStep, now' = now
      PROVE  MembersInv' /\ ConfigKept
  <2>1. UNCHANGED <<gov, deposit, quarantined, lock>>
    <3>1. CASE GovVoteStep
      BY <3>1, Zenon DEF GovVoteStep, vote
    <3>2. CASE GovAnonymousStep
      <4>1. ASSUME NEW i, NEW s, NEW ring, NEW g, vote_anonymous(i, s, ring, g)
            PROVE  UNCHANGED <<gov, deposit, quarantined, lock>>
        BY <4>1, Zenon DEF vote_anonymous
      <4> QED
        BY <3>2, <4>1, Zenon DEF GovAnonymousStep, register_voting_key
    <3>3. CASE GovExecuteStep
      BY <3>3, Zenon DEF GovExecuteStep, execute, prune_proposal
    <3> QED
      BY <1>8, <3>1, <3>2, <3>3, Zenon
  <2> QED
    BY <1>1, <1>2, <1>8, <2>1, Zenon
<1>9. ASSUME GovTimelockStep, now' = now  PROVE MembersInv' /\ ConfigKept
  <2>1. CASE enable_timelock
    BY <1>4, <1>9, <2>1, Zenon DEF enable_timelock
  <2>2. CASE ~enable_timelock
    <3>1. UNCHANGED <<gov, deposit, quarantined, lock>>
      BY <1>9, <2>2, Zenon DEF GovTimelockStep, queue_transaction, execute_queued_transaction, execute
    <3> QED
      BY <1>1, <1>2, <1>9, <3>1
  <2> QED
    BY <2>1, <2>2, Zenon
<1>10. ASSUME GovFundStep, now' = now  PROVE MembersInv' /\ ConfigKept
  <2>1. ASSUME NEW t \in TreasuryTokens, set_treasury_token(t)  PROVE MembersInv' /\ ConfigKept
    BY <1>4, <1>10, <2>1 DEF set_treasury_token
  <2>2. ASSUME NEW t \in Tokens, NEW n \in FundAmounts, FundTreasury(t, n)
        PROVE  MembersInv' /\ ConfigKept
    BY <1>1, <1>2, <1>10, <2>2, Zenon DEF FundTreasury
  <2> QED
    BY <1>10, <2>1, <2>2, Zenon DEF GovFundStep
<1>11. ASSUME GovRagequitStep, now' = now  PROVE MembersInv' /\ ConfigKept
  BY <1>11, RagequitTotals, Zenon DEF GovRagequitStep
<1>12. ASSUME GovSimulationStep, now' = now  PROVE MembersInv' /\ ConfigKept
  <2>1. ASSUME NEW a \in Accounts, NEW s \in Simulators \cup {None}, NEW r \in BOOLEAN,
               set_simulation_config(a, s, r)
        PROVE  MembersInv' /\ ConfigKept
    <3>1. [simulator |-> s, required |-> r] \in SimulationConfig
      BY Zenon DEF SimulationConfig
    <3> QED
      BY <1>4, <1>12, <2>1, <3>1, Zenon DEF set_simulation_config
  <2>2. ASSUME NEW a \in Accounts, NEW c \in Calls, NEW r, propose_with_simulation(a, c, r)
        PROVE  MembersInv' /\ ConfigKept
    BY <1>3, <1>12, <2>2 DEF propose_with_simulation
  <2> QED
    BY <1>12, <2>1, <2>2, Zenon DEF GovSimulationStep
<1>13. ASSUME GovSubmitStep, now' = now  PROVE MembersInv' /\ ConfigKept
  BY <1>4, <1>13, Zenon DEF GovSubmitStep, submit
<1>14. ASSUME GovOptimisticStep, now' = now  PROVE MembersInv' /\ ConfigKept
  <2>1. UNCHANGED <<gov, deposit, quarantined, lock>>
    BY <1>14, Zenon DEF GovOptimisticStep, veto, execute_optimistic
  <2> QED
    BY <1>1, <1>2, <1>14, <2>1
<1>15. ASSUME GovEscrowStep, now' = now  PROVE MembersInv' /\ ConfigKept
  <2>1. ASSUME NEW t \in VeTokens, set_ve_token(t)  PROVE MembersInv' /\ ConfigKept
    BY <1>4, <1>15, <2>1, Zenon DEF set_ve_token
  <2>2. ASSUME NEW a \in Accounts, NEW n \in LockAmounts, NEW u \in Unlocks, create_lock(a, n, u)
        PROVE  MembersInv' /\ ConfigKept
    <3>1. [amount |-> n, start_ledger |-> now, unlock_ledger |-> u] \in Lock
      BY <1>1, <2>2, GovernanceAssumption DEF create_lock, Lock
    <3>2. lock' \in [Accounts -> Lock \cup {None}]
      BY <1>1, <2>2, <3>1, Zenon DEF create_lock
    <3> QED
      BY <1>1, <1>2, <1>15, <2>2, <3>2, Zenon DEF create_lock
  <2>3. ASSUME NEW a \in Accounts, withdraw_lock(a)  PROVE MembersInv' /\ ConfigKept
    <3>1. lock' \in [Accounts -> Lock \cup {None}]
      BY <1>1, <2>3, Zenon DEF withdraw_lock
    <3> QED
      BY <1>1, <1>2, <1>15, <2>3, <3>1, Zenon DEF withdraw_lock
  <2> QED
    BY <1>15, <2>1, <2>2, <2>3 DEF GovEscrowStep
<1> QED
  BY <1>5, <1>6, <1>7, <1>8, <1>9, <1>10, <1>11, <1>12, <1>13, <1>14, <1>15, Zenon
  DEF GovNext, GovStep
-----------------------------------------------------------------------------
(* Ballots                                                                 *)

\* The markers of cast ballots.
Ballots == [voted : SUBSET (Ids \X Accounts), dissent : SUBSET (Ids \X Accounts),
            ragequit : SUBSET (Ids \X Accounts), anonymous : SUBSET Ids,
            image : SUBSET (Ids \X Keys)]

\* The account has cast a ballot, openly or with its key.
HasCast(i, a) ==
  \/ <<i, a>> \in ballot.voted
  \/ voting_key[a] # None /\ <<i, voting_key[a]>> \in ballot.image

\* A counted ballot leaves a marker that excludes the next one, in either mode.
BallotsInv ==
  /\ ballot \in Ballots
  /\ voting_key \in [Accounts -> Keys \cup {None}]
  /\ cast \in [Ids -> [Accounts -> {0, 1}]]
  /\ \A i \in Ids, a \in Accounts : cast[i][a] = 1 => HasCast(i, a)
  /\ \A i \in Ids, k \in Keys : <<i, k>> \in ballot.image => i \in ballot.anonymous

\* What the ring's checks tell of the signer.
LEMMA SignerIsMember ==
  ASSUME BallotsInv, NEW id \in Ids, NEW s, NEW ring \in Seq(Keys), NEW g,
         vote_anonymous(id, s, ring, g)
  PROVE  /\ key_member(g.key) \in Accounts /\ voting_key[key_member(g.key)] = g.key
         /\ g.key \in Keys
         /\ <<id, key_member(g.key)>> \notin ballot.voted
         /\ <<id, g.key>> \notin ballot.image
         /\ ballot' = [ballot EXCEPT !.anonymous = ballot.anonymous \cup {id},
                                     !.image = ballot.image \cup {<<id, g.key>>}]
         /\ cast' = [cast EXCEPT ![id][key_member(g.key)] = cast[id][key_member(g.key)] + 1]
         /\ UNCHANGED <<gov, deposit, quarantined, voting_key, report, queued, optimistic,
                        lock, holding, queued_at>>
<1>1. /\ Len(ring) \in 2..MAX_MEMBERS
      /\ Range(ring) \subseteq Range(voting_key)
      /\ \A m \in {key_member(ring[i]) : i \in DOMAIN ring} : <<id, m>> \notin ballot.voted
      /\ g.key \in Range(ring)
      /\ <<id, g.key>> \notin ballot.image
      /\ ballot' = [ballot EXCEPT !.anonymous = ballot.anonymous \cup {id},
                                  !.image = ballot.image \cup {<<id, g.key>>}]
      /\ cast' = [cast EXCEPT ![id][key_member(g.key)] = cast[id][key_member(g.key)] + 1]
      /\ UNCHANGED <<gov, deposit, quarantined, voting_key, report, queued, optimistic,
                     lock, holding, queued_at>>
  BY Zenon DEF vote_anonymous, verify, key_image
<1>2. \A k \in Range(voting_key) :
        key_member(k) \in Accounts /\ voting_key[key_member(k)] = k
  <2> TAKE k \in Range(voting_key)
  <2>1. \E a \in Accounts : voting_key[a] = k
    BY Zenon DEF Range, BallotsInv
  <2> QED
    BY <2>1, Zenon DEF key_member
<1>3. PICK j \in DOMAIN ring : g.key = ring[j]
  BY <1>1, Zenon DEF Range
<1>4. g.key \in Keys
  BY <1>1, <1>3 DEF Range
<1>5. key_member(g.key) \in {key_member(ring[i]) : i \in DOMAIN ring}
  BY <1>3, Zenon
<1>6. <<id, key_member(g.key)>> \notin ballot.voted
  BY <1>1, <1>5, Zenon
<1>7. /\ key_member(g.key) \in Accounts /\ voting_key[key_member(g.key)] = g.key
  BY <1>1, <1>2, <1>4, Zenon
<1> QED
  BY <1>1, <1>4, <1>6, <1>7, Zenon

\* Nobody has voted at the start.
LEMMA BallotsStart ==
  ASSUME GovInit
  PROVE  BallotsInv
<1>1. /\ ballot = [voted |-> {}, dissent |-> {}, ragequit |-> {}, anonymous |-> {}, image |-> {}]
      /\ voting_key = [a \in Accounts |-> None]
      /\ cast = [i \in Ids |-> [a \in Accounts |-> 0]]
  BY Zenon DEF GovInit
<1>2. ballot \in Ballots
  BY <1>1, Zenon DEF Ballots
<1>3. cast \in [Ids -> [Accounts -> {0, 1}]]
  BY <1>1, Zenon
<1>4. voting_key \in [Accounts -> Keys \cup {None}]
  BY <1>1, Zenon
<1> QED
  BY <1>1, <1>2, <1>3, <1>4 DEF BallotsInv

\* One more ballot of a member who had cast none.
LEMMA BallotCounted ==
  ASSUME BallotsInv, NEW id \in Ids, NEW a \in Accounts, ~HasCast(id, a),
         cast' = [cast EXCEPT ![id][a] = cast[id][a] + 1],
         voting_key' = voting_key, ballot' \in Ballots, HasCast(id, a)',
         ballot.voted \subseteq ballot'.voted, ballot.image \subseteq ballot'.image,
         \A i \in Ids, k \in Keys : <<i, k>> \in ballot'.image => i \in ballot'.anonymous
  PROVE  BallotsInv'
<1>1. cast[id][a] = 0
  <2>1. cast[id][a] \in {0, 1}
    BY Zenon DEF BallotsInv
  <2> QED
    BY <2>1, Zenon DEF BallotsInv
<1>2. cast' \in [Ids -> [Accounts -> {0, 1}]]
  BY <1>1 DEF BallotsInv
<1>3. \A i \in Ids, b \in Accounts : cast'[i][b] = 1 => <<i, b>> = <<id, a>> \/ cast[i][b] = 1
  BY Zenon DEF BallotsInv
<1>4. \A i \in Ids, b \in Accounts : HasCast(i, b) => HasCast(i, b)'
  BY Zenon DEF HasCast
<1>5. \A i \in Ids, b \in Accounts : cast'[i][b] = 1 => HasCast(i, b)'
  BY <1>3, <1>4, Zenon DEF BallotsInv
<1> QED
  BY <1>2, <1>5, Zenon DEF BallotsInv

\* A step that casts no ballot.
LEMMA BallotsKept ==
  ASSUME BallotsInv, UNCHANGED <<voting_key, cast>>, ballot' \in Ballots,
         ballot'.voted = ballot.voted, ballot'.image = ballot.image,
         ballot'.anonymous = ballot.anonymous
  PROVE  BallotsInv'
BY Zenon DEF BallotsInv, HasCast

\* Every step counts an account's ballot at most once.
LEMMA BallotsStep ==
  ASSUME BallotsInv, [GovNext]_<<govVars, now>>
  PROVE  BallotsInv'
<1>0. /\ ballot \in Ballots /\ cast \in [Ids -> [Accounts -> {0, 1}]]
      /\ voting_key \in [Accounts -> Keys \cup {None}]
  BY Zenon DEF BallotsInv
<1>1. ASSUME UNCHANGED <<ballot, voting_key, cast>>  PROVE BallotsInv'
  BY <1>0, <1>1, BallotsKept, Zenon
<1>2. ASSUME NEW a \in Accounts, NEW i \in Ids, NEW s \in BOOLEAN, vote(a, i, s)
      PROVE  BallotsInv'
  <2>1. /\ ~(i \in ballot.anonymous /\ voting_key[a] # None) /\ <<i, a>> \notin ballot.voted
        /\ ballot' = [ballot EXCEPT !.voted = ballot.voted \cup {<<i, a>>},
             !.dissent = IF s THEN ballot.dissent ELSE ballot.dissent \cup {<<i, a>>}]
        /\ cast' = [cast EXCEPT ![i][a] = cast[i][a] + 1]
        /\ voting_key' = voting_key
    BY <1>2, Zenon DEF vote
  <2>2. ~HasCast(i, a)
    BY <1>0, <2>1, Zenon DEF BallotsInv, HasCast
  <2>3. /\ ballot' \in Ballots /\ ballot'.voted = ballot.voted \cup {<<i, a>>}
        /\ ballot'.image = ballot.image /\ ballot'.anonymous = ballot.anonymous
    <3> DEFINE v == ballot.voted \cup {<<i, a>>}
               d == IF s THEN ballot.dissent ELSE ballot.dissent \cup {<<i, a>>}
    <3>1. v \in SUBSET (Ids \X Accounts)
      BY <1>0 DEF Ballots
    <3>2. d \in SUBSET (Ids \X Accounts)
      BY <1>0 DEF Ballots
    <3>3. ballot' = [ballot EXCEPT !.voted = v, !.dissent = d]
      BY <2>1, Zenon
    <3> HIDE DEF v, d
    <3>4. /\ ballot' \in Ballots /\ ballot'.voted = v
          /\ ballot'.image = ballot.image /\ ballot'.anonymous = ballot.anonymous
      BY <1>0, <3>1, <3>2, <3>3, Zenon DEF Ballots
    <3> QED
      BY <3>4, Zenon DEF v
  <2>4. HasCast(i, a)'
    BY <2>3, Zenon DEF HasCast
  <2>5. \A j \in Ids, k \in Keys : <<j, k>> \in ballot'.image => j \in ballot'.anonymous
    BY <2>3, Zenon DEF BallotsInv
  <2> QED
    BY <2>1, <2>2, <2>3, <2>4, <2>5, BallotCounted, Zenon
<1>3. ASSUME NEW a \in Accounts, NEW k \in Keys, register_voting_key(a, k)
      PROVE  BallotsInv'
  <2>1. /\ voting_key[a] = None /\ voting_key' = [voting_key EXCEPT ![a] = k]
        /\ UNCHANGED <<ballot, cast>>
    BY <1>3, Zenon DEF register_voting_key
  <2>2. voting_key' \in [Accounts -> Keys \cup {None}]
    BY <1>0, <2>1, Zenon
  <2>3. \A i \in Ids, b \in Accounts : HasCast(i, b) => HasCast(i, b)'
    BY <1>0, <2>1, Zenon DEF HasCast
  <2> QED
    BY <1>0, <2>1, <2>2, <2>3, Zenon DEF BallotsInv
<1>4. ASSUME NEW i \in Ids, NEW s, NEW ring \in Seq(Keys), NEW g, vote_anonymous(i, s, ring, g)
      PROVE  BallotsInv'
  <2>1. PICK k \in Keys, a \in Accounts :
          /\ voting_key[a] = k
          /\ <<i, a>> \notin ballot.voted /\ <<i, k>> \notin ballot.image
          /\ ballot' = [ballot EXCEPT !.anonymous = ballot.anonymous \cup {i},
                                      !.image = ballot.image \cup {<<i, k>>}]
          /\ cast' = [cast EXCEPT ![i][a] = cast[i][a] + 1]
          /\ voting_key' = voting_key
    <3> HIDE DEF BallotsInv
    <3> QED
      BY <1>4, SignerIsMember, Zenon
  <2>2. ~HasCast(i, a)
    BY <2>1, Zenon DEF HasCast
  <2>3. /\ ballot' \in Ballots /\ ballot'.voted = ballot.voted
        /\ ballot'.image = ballot.image \cup {<<i, k>>}
        /\ ballot'.anonymous = ballot.anonymous \cup {i}
    <3> DEFINE v == ballot.image \cup {<<i, k>>}
               d == ballot.anonymous \cup {i}
    <3>1. v \in SUBSET (Ids \X Keys)
      BY <1>0 DEF Ballots
    <3>2. d \in SUBSET Ids
      BY <1>0, Zenon DEF Ballots
    <3>3. ballot' = [ballot EXCEPT !.anonymous = d, !.image = v]
      BY <2>1, Zenon
    <3> HIDE DEF v, d
    <3>4. ballot' \in Ballots /\ ballot'.voted = ballot.voted /\ ballot'.image = v /\ ballot'.anonymous = d
      BY <1>0, <3>1, <3>2, <3>3, Zenon DEF Ballots
    <3> QED
      BY <3>4, Zenon DEF v, d
  <2>4. HasCast(i, a)'
    BY <2>1, <2>3, GovernanceAssumption, Zenon DEF HasCast
  <2>5. \A j \in Ids, l \in Keys : <<j, l>> \in ballot'.image => j \in ballot'.anonymous
    BY <2>3, Zenon DEF BallotsInv
  <2> QED
    BY <2>1, <2>2, <2>3, <2>4, <2>5, BallotCounted, Zenon
<1>5. ASSUME NEW a \in Accounts, NEW i \in Ids, ragequit(a, i)
      PROVE  BallotsInv'
  <2>1. /\ ballot' = [ballot EXCEPT !.ragequit = ballot.ragequit \cup {<<i, a>>}]
        /\ UNCHANGED <<voting_key, cast>>
    BY <1>5, Zenon DEF ragequit
  <2>2. /\ ballot' \in Ballots /\ ballot'.voted = ballot.voted /\ ballot'.image = ballot.image
        /\ ballot'.anonymous = ballot.anonymous
    BY <1>0, <2>1 DEF Ballots
  <2> QED
    BY <2>1, <2>2, BallotsKept, Zenon
<1>6. CASE UNCHANGED <<govVars, now>> \/ UNCHANGED govVars
  BY <1>1, <1>6, Zenon DEF govVars
<1>7. CASE GovAnonymousStep
  BY <1>3, <1>4, <1>7, GovernanceAssumption, Zenon DEF GovAnonymousStep
<1>8. CASE GovProposeStep \/ GovSubmitStep
  BY <1>1, <1>8, Zenon DEF GovProposeStep, propose, GovSubmitStep, submit
<1>9. CASE GovExecuteStep
  BY <1>1, <1>9, Zenon DEF GovExecuteStep, execute, prune_proposal
<1>10. CASE GovTimelockStep
  BY <1>1, <1>10, Zenon DEF GovTimelockStep, enable_timelock, queue_transaction,
                     execute_queued_transaction, execute
<1>11. CASE GovFundStep
  BY <1>1, <1>11, Zenon DEF GovFundStep, set_treasury_token, FundTreasury
<1>12. CASE GovSimulationStep
  <2>1. ASSUME NEW a, NEW c, NEW g, propose_with_simulation(a, c, g)  PROVE BallotsInv'
    BY <1>1, <2>1 DEF propose_with_simulation
  <2> QED
    BY <1>1, <1>12, <2>1, Zenon DEF GovSimulationStep, set_simulation_config
<1>13. CASE GovOptimisticStep
  BY <1>1, <1>13, Zenon DEF GovOptimisticStep, veto, execute_optimistic
<1>14. CASE GovEscrowStep
  BY <1>1, <1>14, Zenon DEF GovEscrowStep, set_ve_token, create_lock, withdraw_lock
<1> QED
  BY <1>2, <1>5, <1>6, <1>7, <1>8, <1>9, <1>10, <1>11, <1>12, <1>13, <1>14, SMTT(30)
  DEF GovNext, GovStep, GovVoteStep, GovRagequitStep
-----------------------------------------------------------------------------
(* Proposals                                                               *)

\* A stored proposal has an id given out, and was created on a ledger of the past.
ProposalsInv ==
  /\ proposal \in [Ids -> Proposal \cup {None}]
  /\ \A i \in Ids : proposal[i] # None =>
       i <= gov.count /\ proposal[i].deadline_ledger - gov.voting_period \in 0..now

\* All that a step may do to one proposal.
ProposalChange(i) ==
  \/ proposal'[i] = proposal[i]
  \/ proposal'[i] = None
  \/ /\ i = gov.count + 1 /\ gov'.count = i /\ now' = now
     /\ \E a \in Accounts, c \in Calls : proposal'[i] = NewProposal(a, c)
  \/ Pending(i) /\ \E s \in BOOLEAN, w \in Nat : proposal'[i] = Tallied(proposal[i], s, w)
  \/ /\ Pending(i) /\ proposal'[i] = [proposal[i] EXCEPT !.executed = TRUE]
     /\ gov.timelock => queued[i] # None /\ now >= queued[i].execution_ledger

\* What a step may do to the proposals, one by one.
ProposalsMove ==
  proposal' = [i \in Ids |-> proposal'[i]] /\ \A i \in Ids : ProposalChange(i)

\* A step that writes one proposal.
LEMMA OneProposalMoves ==
  ASSUME proposal \in [Ids -> Proposal \cup {None}], NEW id \in Ids, NEW v,
         proposal' = [proposal EXCEPT ![id] = v],
         proposal'[id] = v => ProposalChange(id)
  PROVE  ProposalsMove
<1>1. proposal' = [i \in Ids |-> proposal'[i]] /\ proposal'[id] = v
  BY Zenon
<1>2. \A i \in Ids : i # id => proposal'[i] = proposal[i]
  BY Zenon
<1>3. \A i \in Ids : i # id => ProposalChange(i)
  BY <1>2, Zenon DEF ProposalChange
<1> QED
  BY <1>1, <1>3, Zenon DEF ProposalsMove

\* The step counts a ballot of a's weight.
TallyOf(id, s, a) ==
  proposal' = [proposal EXCEPT ![id] = Tallied(proposal[id], s, quadratic_weight(a))]

\* The tally of an anonymous ballot.
LEMMA AnonymousTally ==
  ASSUME BallotsInv, NEW id \in Ids, NEW s, NEW ring \in Seq(Keys), NEW g,
         vote_anonymous(id, s, ring, g)
  PROVE  Pending(id) /\ \E a \in Accounts : TallyOf(id, s, a)
<1>1. /\ Len(ring) \in 2..MAX_MEMBERS
      /\ Range(ring) \subseteq Range(voting_key)
      /\ Pending(id)
      /\ TallyOf(id, s, key_member(ring[1]))
  BY Zenon DEF vote_anonymous, TallyOf
<1>2. ring[1] \in Range(ring)
  BY <1>1 DEF Range
<1>3. \E a \in Accounts : voting_key[a] = ring[1]
  BY <1>1, <1>2, Zenon DEF Range, BallotsInv
<1>4. key_member(ring[1]) \in Accounts
  BY <1>3, Zenon DEF key_member
<1> QED
  BY <1>1, <1>4, Zenon

\* Every step moves the proposals that way.
LEMMA ProposalsChange ==
  ASSUME MembersInv, BallotsInv, proposal \in [Ids -> Proposal \cup {None}],
         [GovNext]_<<govVars, now>>
  PROVE  ProposalsMove
<1>1. ASSUME UNCHANGED proposal  PROVE ProposalsMove
  BY <1>1, Zenon DEF ProposalsMove, ProposalChange
<1>2. ASSUME NEW a \in Accounts, NEW c \in Calls, NEW id \in Ids, now' = now,
             id = gov.count + 1, gov' = [gov EXCEPT !.count = id],
             proposal' = [proposal EXCEPT ![id] = NewProposal(a, c)]
      PROVE  ProposalsMove
  <2>1. gov'.count = id
    BY <1>2, Zenon DEF MembersInv, GovRecord
  <2>2. proposal'[id] = NewProposal(a, c) => ProposalChange(id)
    BY <1>2, <2>1, Zenon DEF ProposalChange
  <2> QED
    BY <1>2, <2>2, OneProposalMoves, Zenon
<1>3. ASSUME NEW a \in Accounts, NEW id \in Ids, NEW s \in BOOLEAN, Pending(id), TallyOf(id, s, a)
      PROVE  ProposalsMove
  <2> DEFINE v == Tallied(proposal[id], s, quadratic_weight(a))
  <2>1. quadratic_weight(a) \in Nat
    BY WeightBounds, Zenon
  <2>2. proposal'[id] = v => ProposalChange(id)
    BY <1>3, <2>1, Zenon DEF ProposalChange
  <2>3. proposal' = [proposal EXCEPT ![id] = v]
    BY <1>3, Zenon DEF TallyOf
  <2> HIDE DEF v
  <2> QED
    BY <2>2, <2>3, OneProposalMoves, Zenon
<1>4. ASSUME NEW id \in Ids, execute(id)  PROVE ProposalsMove
  <2> DEFINE v == [proposal[id] EXCEPT !.executed = TRUE]
  <2>1. /\ Pending(id) /\ proposal' = [proposal EXCEPT ![id] = v]
        /\ gov.timelock => queued[id] # None /\ now >= queued[id].execution_ledger
    BY <1>4, Zenon DEF execute, require_matured
  <2>2. proposal'[id] = v => ProposalChange(id)
    BY <2>1, Zenon DEF ProposalChange
  <2> HIDE DEF v
  <2> QED
    BY <2>1, <2>2, OneProposalMoves, Zenon
<1>5. ASSUME NEW id \in Ids, prune_proposal(id)  PROVE ProposalsMove
  <2>1. proposal' = [proposal EXCEPT ![id] = None]
    BY <1>5, Zenon DEF prune_proposal
  <2>2. proposal'[id] = None => ProposalChange(id)
    BY Zenon DEF ProposalChange
  <2> QED
    BY <2>1, <2>2, OneProposalMoves, Zenon
<1>6. CASE UNCHANGED <<govVars, now>> \/ UNCHANGED govVars
  BY <1>1, <1>6, Zenon DEF govVars
<1>7. ASSUME GovProposeStep, now' = now  PROVE ProposalsMove
  BY <1>2, <1>7, Zenon DEF GovProposeStep, propose
<1>8. CASE GovVoteStep
  BY <1>3, <1>8, ZenonT(30) DEF GovVoteStep, vote, TallyOf
<1>9. CASE GovAnonymousStep
  <2>1. ASSUME NEW i \in Ids, NEW s \in BOOLEAN, NEW ring \in Seq(Keys), NEW g,
               vote_anonymous(i, s, ring, g)
        PROVE  ProposalsMove
    <3>1. Pending(i) /\ \E a \in Accounts : TallyOf(i, s, a)
      BY <2>1, AnonymousTally, Zenon
    <3> QED
      BY <1>3, <3>1, Zenon
  <2>2. ASSUME NEW a, NEW k, register_voting_key(a, k)  PROVE ProposalsMove
    BY <1>1, <2>2, Zenon DEF register_voting_key
  <2> QED
    BY <1>9, <2>1, <2>2, GovernanceAssumption, Zenon DEF GovAnonymousStep
<1>10. CASE GovExecuteStep
  BY <1>4, <1>5, <1>10, Zenon DEF GovExecuteStep
<1>11. CASE GovTimelockStep
  BY <1>1, <1>4, <1>11, Zenon DEF GovTimelockStep, enable_timelock, queue_transaction,
                           execute_queued_transaction
<1>12. CASE GovFundStep
  BY <1>1, <1>12, Zenon DEF GovFundStep, set_treasury_token, FundTreasury
<1>13. ASSUME GovSimulationStep, now' = now  PROVE ProposalsMove
  <2>1. ASSUME NEW a \in Accounts, NEW c \in Calls, NEW g, propose_with_simulation(a, c, g)
        PROVE  ProposalsMove
    BY <1>2, <1>13, <2>1, Zenon DEF propose_with_simulation
  <2>2. ASSUME NEW a, NEW c, NEW g, set_simulation_config(a, c, g)  PROVE ProposalsMove
    BY <1>1, <2>2, Zenon DEF set_simulation_config
  <2> QED
    BY <1>13, <2>1, <2>2, Zenon DEF GovSimulationStep
<1>14. CASE GovSubmitStep \/ GovOptimisticStep
  BY <1>1, <1>14, Zenon DEF GovSubmitStep, submit, GovOptimisticStep, veto, execute_optimistic
<1>15. CASE GovEscrowStep \/ GovRagequitStep
  BY <1>1, <1>15, Zenon DEF GovEscrowStep, set_ve_token, create_lock, withdraw_lock,
                     GovRagequitStep, ragequit
<1> QED
  BY <1>6, <1>7, <1>8, <1>9, <1>10, <1>11, <1>12, <1>13, <1>14, <1>15, SMTT(30) DEF GovNext, GovStep

\* What a counted ballot changes of a proposal.
LEMMA TallyAdds ==
  ASSUME NEW p \in Proposal, NEW s \in BOOLEAN, NEW w \in Nat
  PROVE  /\ Tallied(p, s, w) \in Proposal
         /\ Tallied(p, s, w).deadline_ledger = p.deadline_ledger
         /\ Tallied(p, s, w).executed = p.executed
         /\ p.yes_weight <= Tallied(p, s, w).yes_weight
         /\ p.no_weight <= Tallied(p, s, w).no_weight
<1>1. U64Max \in Nat /\ p.yes_weight \in 0..U64Max /\ p.no_weight \in 0..U64Max
  BY GovernanceAssumption, Zenon DEF Proposal
<1> DEFINE y == Least(p.yes_weight + w, U64Max)
           n == Least(p.no_weight + w, U64Max)
<1>2. y \in 0..U64Max /\ p.yes_weight <= y /\ n \in 0..U64Max /\ p.no_weight <= n
  BY <1>1 DEF Least
<1>3. Tallied(p, s, w) = IF s THEN [p EXCEPT !.yes_weight = y] ELSE [p EXCEPT !.no_weight = n]
  BY Zenon DEF Tallied
<1> HIDE DEF y, n
<1>4. CASE s
  <2>1. Tallied(p, s, w) = [p EXCEPT !.yes_weight = y]
    BY <1>3, <1>4, Zenon
  <2> QED
    BY <1>1, <1>2, <2>1 DEF Proposal
<1>5. CASE ~s
  <2>1. Tallied(p, s, w) = [p EXCEPT !.no_weight = n]
    BY <1>3, <1>5, Zenon
  <2> QED
    BY <1>1, <1>2, <2>1 DEF Proposal
<1> QED
  BY <1>4, <1>5, Zenon

\* Every step keeps the tallies the sums of the ballots cast.
LEMMA ProposalsStep ==
  ASSUME MembersInv, ProposalsInv, ProposalsMove, ConfigKept, gov' \in GovRecord,
         now' \in Nat, now <= now'
  PROVE  ProposalsInv'
<1>1. /\ now \in Nat /\ gov.count \in Nat /\ gov'.count \in Nat /\ gov.voting_period \in Nat
      /\ gov'.voting_period = gov.voting_period /\ gov.count <= gov'.count
  BY Zenon DEF MembersInv, GovRecord, ConfigKept
<1>2. ASSUME NEW i \in Ids
      PROVE  /\ proposal'[i] \in Proposal \cup {None}
             /\ proposal'[i] # None =>
                  /\ i <= gov'.count
                  /\ proposal'[i].deadline_ledger - gov'.voting_period \in 0..now'
  <2>1. ProposalChange(i) /\ i \in Nat /\ proposal[i] \in Proposal \cup {None}
    BY DEF ProposalsMove, ProposalsInv, Ids
  <2>2. ASSUME proposal[i] \in Proposal, proposal[i] # None, proposal'[i] \in Proposal,
               proposal'[i].deadline_ledger = proposal[i].deadline_ledger
        PROVE  /\ i <= gov'.count
               /\ proposal'[i].deadline_ledger - gov'.voting_period \in 0..now'
    <3>1. proposal[i].deadline_ledger \in Nat
      BY <2>2, Zenon DEF Proposal
    <3>2. i <= gov.count /\ proposal[i].deadline_ledger - gov.voting_period \in 0..now
      BY <2>2, Zenon DEF ProposalsInv
    <3> QED
      BY <1>1, <2>1, <2>2, <3>1, <3>2
  <2>3. CASE proposal'[i] = proposal[i]
    BY <2>1, <2>2, <2>3, Zenon
  <2>4. CASE proposal'[i] = None
    BY <2>4, Zenon
  <2>5. CASE /\ gov'.count = i /\ now' = now
             /\ \E a \in Accounts, c \in Calls : proposal'[i] = NewProposal(a, c)
    <3>1. PICK a \in Accounts, c \in Calls : proposal'[i] = NewProposal(a, c)
      BY <2>5, Zenon
    <3>2. proposal'[i].deadline_ledger = now + gov.voting_period
      BY <3>1, SMTT(30) DEF NewProposal
    <3>3. proposal'[i] \in Proposal
      BY <1>1, <3>1, GovernanceAssumption DEF NewProposal, Proposal
    <3> QED
      BY <1>1, <2>1, <2>5, <3>2, <3>3
  <2>6. CASE Pending(i) /\ \E s \in BOOLEAN, w \in Nat : proposal'[i] = Tallied(proposal[i], s, w)
    <3>1. proposal[i] \in Proposal /\ proposal[i] # None
      BY <2>1, <2>6, Zenon DEF Pending
    <3>2. proposal'[i] \in Proposal /\ proposal'[i].deadline_ledger = proposal[i].deadline_ledger
      BY <2>6, <3>1, TallyAdds, SMTT(30)
    <3> QED
      BY <2>2, <3>1, <3>2, Zenon
  <2>7. CASE Pending(i) /\ proposal'[i] = [proposal[i] EXCEPT !.executed = TRUE]
    <3>1. proposal[i] \in Proposal /\ proposal[i] # None
      BY <2>1, <2>7, Zenon DEF Pending
    <3>2. proposal'[i] \in Proposal /\ proposal'[i].deadline_ledger = proposal[i].deadline_ledger
      BY <2>7, <3>1, Zenon DEF Proposal
    <3> QED
      BY <2>2, <3>1, <3>2
  <2> QED
    BY <2>1, <2>3, <2>4, <2>5, <2>6, <2>7, Zenon DEF ProposalChange
<1>3. proposal' \in [Ids -> Proposal \cup {None}]
  BY <1>2, Zenon DEF ProposalsMove
<1> QED
  BY <1>2, <1>3, Zenon DEF ProposalsInv
\* The quorum as a condition on a proposal's fields, the totals and the ledger.
LEMMA ApprovalKept ==
  ASSUME MembersInv, MembersInv', ConfigKept, NEW p \in Proposal, NEW q \in Proposal, now <= now',
         p.deadline_ledger - gov.voting_period \in 0..now,
         q.deadline_ledger = p.deadline_ledger,
         p.yes_weight <= q.yes_weight, q.no_weight = p.no_weight,
         is_approved(p)
  PROVE  /\ q.yes_weight * BPS
              >= gov'.total_weight * current_quorum_bps(gov'.threshold_bps,
                   now' - (q.deadline_ledger - gov'.voting_period), gov'.voting_period)
         /\ q.yes_weight > q.no_weight
<1>1. /\ p.yes_weight \in Nat /\ q.yes_weight \in Nat /\ p.no_weight \in Nat
      /\ p.deadline_ledger \in Nat
  BY GovernanceAssumption, SMTT(30) DEF Proposal
<1>2. /\ now \in Nat /\ now' \in Nat /\ gov.voting_period \in Nat /\ gov.threshold_bps \in Nat
      /\ gov.total_weight \in Nat /\ gov'.total_weight \in Nat
      /\ gov'.total_weight <= gov.total_weight
      /\ gov'.threshold_bps = gov.threshold_bps /\ gov'.voting_period = gov.voting_period
  BY GovernanceAssumption DEF MembersInv, GovRecord, ConfigKept
<1> DEFINE e == now - (p.deadline_ledger - gov.voting_period)
           l == now' - (p.deadline_ledger - gov.voting_period)
           Q(x) == current_quorum_bps(gov.threshold_bps, x, gov.voting_period)
<1>3. e \in Nat /\ l \in Nat /\ e <= l
  BY <1>1, <1>2
<1>4. p.yes_weight * BPS >= gov.total_weight * Q(e) /\ p.yes_weight > p.no_weight
  BY Zenon DEF is_approved, QuorumMet
<1>5. Q(e) \in QUORUM_FLOOR_BPS .. Most(gov.threshold_bps, QUORUM_FLOOR_BPS) /\ Q(l) <= Q(e)
      /\ Q(l) \in QUORUM_FLOOR_BPS .. Most(gov.threshold_bps, QUORUM_FLOOR_BPS)
  <2>1. Q(e) \in QUORUM_FLOOR_BPS .. Most(gov.threshold_bps, QUORUM_FLOOR_BPS) /\ Q(l) <= Q(e)
    BY <1>2, <1>3, QuorumFalls, Zenon
  <2>2. Q(l) \in QUORUM_FLOOR_BPS .. Most(gov.threshold_bps, QUORUM_FLOOR_BPS)
    BY <1>2, <1>3, l <= l, QuorumFalls, Zenon
  <2> QED
    BY <2>1, <2>2, Zenon
<1>6. Q(e) \in Nat /\ Q(l) \in Nat
  BY <1>2, <1>5 DEF QUORUM_FLOOR_BPS, Most
<1> HIDE DEF e, l, Q
<1>7. /\ gov'.total_weight * Q(l) <= gov.total_weight * Q(e)
      /\ gov'.total_weight * Q(l) \in Nat /\ gov.total_weight * Q(e) \in Nat
  BY <1>2, <1>5, <1>6, ProductOrder
<1>8. q.yes_weight * BPS >= p.yes_weight * BPS
  BY <1>1 DEF BPS
<1>9. q.yes_weight * BPS >= gov'.total_weight * Q(l)
  <2>1. q.yes_weight * BPS \in Nat /\ p.yes_weight * BPS \in Nat
    BY <1>1 DEF BPS
  <2> QED
    BY <1>4, <1>7, <1>8, <2>1
<1>10. l = now' - (q.deadline_ledger - gov'.voting_period)
  BY <1>2, Zenon DEF l
<1> QED
  BY <1>1, <1>2, <1>4, <1>9, <1>10, SMTT(30) DEF Q

\* What the approvals may lose in one step, outside the temporal property.
ApprovalStep(i) ==
  (Pending(i) /\ is_approved(proposal[i]) /\ proposal'[i] # None)
    => is_approved(proposal[i])' \/ proposal'[i].no_weight > proposal[i].no_weight

\* An approval is lost by votes against it only.
LEMMA ApprovalSteps ==
  ASSUME MembersInv, MembersInv', ConfigKept, ProposalsInv, ProposalsMove, now <= now',
         NEW i \in Ids
  PROVE  ApprovalStep(i)
<1> SUFFICES ASSUME Pending(i), is_approved(proposal[i]), proposal'[i] # None,
                    ~(proposal'[i].no_weight > proposal[i].no_weight)
             PROVE  is_approved(proposal[i])'
  BY Zenon DEF ApprovalStep
<1>1. /\ proposal[i] \in Proposal /\ proposal[i] # None /\ i <= gov.count
      /\ proposal[i].deadline_ledger - gov.voting_period \in 0..now
  BY Zenon DEF ProposalsInv, Pending
<1>2. /\ proposal'[i] \in Proposal
      /\ proposal'[i].deadline_ledger = proposal[i].deadline_ledger
      /\ proposal[i].yes_weight <= proposal'[i].yes_weight
      /\ proposal[i].no_weight <= proposal'[i].no_weight
  <2>0. ProposalChange(i) /\ i \in Nat /\ gov.count \in Nat
    BY SMTT(30) DEF ProposalsMove, MembersInv, GovRecord, Ids
  <2>1. CASE proposal'[i] = proposal[i]
    BY <1>1, <2>1, GovernanceAssumption DEF Proposal
  <2>2. CASE i = gov.count + 1
    BY <1>1, <2>0, <2>2, SMTT(30)
  <2>3. CASE Pending(i) /\ \E s \in BOOLEAN, w \in Nat : proposal'[i] = Tallied(proposal[i], s, w)
    BY <1>1, <2>3, TallyAdds, SMTT(30)
  <2>4. CASE Pending(i) /\ proposal'[i] = [proposal[i] EXCEPT !.executed = TRUE]
    <3>1. U64Max \in Nat /\ proposal[i].yes_weight \in Nat /\ proposal[i].no_weight \in Nat
      BY <1>1, GovernanceAssumption DEF Proposal
    <3>2. /\ proposal'[i] \in Proposal
          /\ proposal'[i].deadline_ledger = proposal[i].deadline_ledger
          /\ proposal'[i].yes_weight = proposal[i].yes_weight
          /\ proposal'[i].no_weight = proposal[i].no_weight
      BY <1>1, <2>4, Zenon DEF Proposal
    <3> QED
      BY <3>1, <3>2
  <2> QED
    BY <2>0, <2>1, <2>2, <2>3, <2>4 DEF ProposalChange
<1>3. proposal'[i].no_weight = proposal[i].no_weight
  BY <1>1, <1>2, GovernanceAssumption DEF Proposal
<1> DEFINE p == proposal[i]
           q == proposal'[i]
<1> HIDE DEF p, q
<1>4. /\ q.yes_weight * BPS
           >= gov'.total_weight * current_quorum_bps(gov'.threshold_bps,
                now' - (q.deadline_ledger - gov'.voting_period), gov'.voting_period)
      /\ q.yes_weight > q.no_weight
  <2>1. /\ p \in Proposal /\ q \in Proposal /\ p.deadline_ledger - gov.voting_period \in 0..now
        /\ q.deadline_ledger = p.deadline_ledger /\ p.yes_weight <= q.yes_weight
        /\ q.no_weight = p.no_weight /\ is_approved(p)
    BY <1>1, <1>2, <1>3, Zenon DEF p, q
  <2> QED
    BY <2>1, ApprovalKept, Zenon
<1> QED
  BY <1>4, Zenon DEF is_approved, QuorumMet, q
-----------------------------------------------------------------------------
(* The gates                                                               *)

\* A report belongs to an id given out, and a queue entry matures no sooner than
\* the delay after the ledger it was queued on.
GatesInv ==
  /\ report \in [Ids -> SimulationReport \cup {None}]
  /\ queued \in [Ids -> QueuedTransaction \cup {None}]
  /\ queued_at \in [Ids -> Nat \cup {None}]
  /\ \A i \in Ids : report[i] # None => i <= gov.count
  /\ \A i \in Ids : queued[i] # None =>
       /\ queued_at[i] # None
       /\ queued[i].execution_ledger >= queued_at[i] + TIMELOCK_DELAY_LEDGERS

\* With the timelock on, only a call that waited out its delay is executed.
LEMMA TimelockStep ==
  ASSUME MembersInv, ProposalsInv, GatesInv, ProposalsMove
  PROVE  TimelockHolds
<1> SUFFICES ASSUME NEW i \in Ids, gov.timelock, Pending(i), proposal'[i] # None,
                    proposal'[i].executed
             PROVE  queued_at[i] # None /\ now >= queued_at[i] + TIMELOCK_DELAY_LEDGERS
  BY Zenon DEF TimelockHolds
<1>1. proposal[i] \in Proposal /\ proposal[i] # None /\ proposal[i].executed = FALSE
  BY Zenon DEF ProposalsInv, Pending, Proposal
<1>2. ProposalChange(i)
  BY Zenon DEF ProposalsMove
<1>3. ~(proposal'[i] = proposal[i])
  BY <1>1, Zenon
<1>4. \A a \in Accounts, c \in Calls : proposal'[i] # NewProposal(a, c)
  BY DEF NewProposal
<1>5. ~\E s \in BOOLEAN, w \in Nat : proposal'[i] = Tallied(proposal[i], s, w)
  BY <1>1, TallyAdds
<1>6. queued[i] # None /\ now >= queued[i].execution_ledger
  BY <1>2, <1>3, <1>4, <1>5, Zenon DEF ProposalChange
<1>7. queued[i] \in QueuedTransaction /\ queued_at[i] \in Nat
  BY <1>6, Zenon DEF GatesInv
<1>8. queued[i].execution_ledger \in Nat /\ TIMELOCK_DELAY_LEDGERS \in Nat /\ now \in Nat
  BY <1>7, GovernanceAssumption, Zenon DEF QueuedTransaction, MembersInv
<1>9. /\ queued_at[i] # None
      /\ queued[i].execution_ledger >= queued_at[i] + TIMELOCK_DELAY_LEDGERS
  BY <1>6, Zenon DEF GatesInv
<1> QED
  BY <1>6, <1>7, <1>8, <1>9

\* A step that touches no gate.
LEMMA GatesKept ==
  ASSUME GatesInv, MembersInv, UNCHANGED <<report, queued, queued_at>>,
         gov'.count \in Nat, gov'.count >= gov.count
  PROVE  GatesInv'
<1>1. gov.count \in Nat
  BY Zenon DEF MembersInv, GovRecord
<1> QED
  BY <1>1 DEF GatesInv, Ids

\* A queue entry is removed, or left.
LEMMA QueueEntryRemoved ==
  ASSUME GatesInv, NEW i \in Ids, queued' = [queued EXCEPT ![i] = None] \/ queued' = queued,
         UNCHANGED <<report, queued_at, gov>>
  PROVE  GatesInv'
<1>1. queued' \in [Ids -> QueuedTransaction \cup {None}]
  BY DEF GatesInv
<1>2. \A j \in Ids : queued'[j] # None => queued'[j] = queued[j]
  BY DEF GatesInv
<1> QED
  BY <1>1, <1>2, Zenon DEF GatesInv

\* Every step keeps the gates.
LEMMA GatesStep ==
  ASSUME MembersInv, MembersInv', ConfigKept, ProposalsInv, GatesInv, [GovNext]_<<govVars, now>>
  PROVE  GatesInv' /\ SimulationGatesProposals
<1>0. gov.count \in Nat /\ gov'.count \in Nat /\ gov'.count >= gov.count /\ now \in Nat
  BY DEF MembersInv, GovRecord, ConfigKept
<1>1. ASSUME gov'.count = gov.count  PROVE SimulationGatesProposals
  BY <1>0, <1>1 DEF SimulationGatesProposals, Ids
<1>2. ASSUME UNCHANGED <<report, queued, queued_at>>  PROVE GatesInv'
  BY <1>0, <1>2, GatesKept, Zenon
<1>3. ASSUME gov' = gov  PROVE gov'.count = gov.count
  BY <1>3, Zenon
<1>4. ASSUME NEW a, NEW c, propose(a, c)  PROVE GatesInv' /\ SimulationGatesProposals
  <2>1. UNCHANGED <<report, queued, queued_at>> /\ ~is_required
    BY <1>4 DEF propose
  <2>2. GatesInv'
    BY <1>2, <2>1, ZenonT(30)
  <2>3. ASSUME NEW i \in Ids, gov.count = i - 1  PROVE report'[i] = None
    BY <1>0, <2>1, <2>3 DEF GatesInv, Ids
  <2> QED
    BY <2>1, <2>2, <2>3, Zenon DEF SimulationGatesProposals
<1>5. ASSUME NEW a, NEW c, NEW g \in SimulationReport, propose_with_simulation(a, c, g)
      PROVE  GatesInv' /\ SimulationGatesProposals
  <2> DEFINE id == gov.count + 1
  <2>1. /\ id \in Ids /\ report' = [report EXCEPT ![id] = g]
        /\ proposal' = [proposal EXCEPT ![id] = NewProposal(a, c)]
        /\ gov' = [gov EXCEPT !.count = id] /\ UNCHANGED <<queued, queued_at>>
        /\ g.sim_hash = sim_hash(id, c)
    BY <1>5, Zenon DEF propose_with_simulation
  <2>2. gov'.count = id
    BY <2>1 DEF MembersInv, GovRecord
  <2> HIDE DEF id
  <2>3. report' \in [Ids -> SimulationReport \cup {None}]
    BY <2>1, Zenon DEF GatesInv
  <2>4. \A i \in Ids : report'[i] # None => i <= gov'.count
    BY <1>0, <2>1, <2>2 DEF GatesInv, Ids, id
  <2>5. GatesInv'
    BY <2>1, <2>3, <2>4, Zenon DEF GatesInv
  <2>6. report'[id] = g /\ proposal'[id] = NewProposal(a, c) /\ g # None
    BY <2>1, GovernanceAssumption, Zenon DEF GatesInv, ProposalsInv
  <2>7. proposal'[id].call = c
    BY <2>6 DEF NewProposal
  <2>8. SimulationGatesProposals
    <3> SUFFICES ASSUME NEW i \in Ids, gov.count = i - 1, gov'.count = i
                 PROVE  /\ is_required => report'[i] # None
                        /\ report'[i] # None => report'[i].sim_hash = sim_hash(i, proposal'[i].call)
      BY Zenon DEF SimulationGatesProposals
    <3>1. i = id
      BY <2>2, Zenon
    <3> QED
      BY <2>1, <2>6, <2>7, <3>1, Zenon
  <2> QED
    BY <2>5, <2>8, Zenon
<1>6. ASSUME NEW a, NEW i \in Ids, queue_transaction(a, i)
      PROVE  GatesInv' /\ SimulationGatesProposals
  <2> DEFINE e == [call |-> proposal[i].call, execution_ledger |-> now + TIMELOCK_DELAY_LEDGERS]
  <2>1. /\ Pending(i) /\ queued' = [queued EXCEPT ![i] = e]
        /\ queued_at' = [queued_at EXCEPT ![i] = now] /\ UNCHANGED <<gov, report>>
    BY <1>6, Zenon DEF queue_transaction
  <2>2. proposal[i] \in Proposal
    BY <2>1, Zenon DEF ProposalsInv, Pending
  <2>3. e \in QueuedTransaction /\ e.execution_ledger >= now + TIMELOCK_DELAY_LEDGERS
    BY <1>0, <2>2, GovernanceAssumption DEF Proposal, QueuedTransaction
  <2> HIDE DEF e
  <2>4. queued' \in [Ids -> QueuedTransaction \cup {None}] /\ queued_at' \in [Ids -> Nat \cup {None}]
    BY <1>0, <2>1, <2>3, Zenon DEF GatesInv
  <2>5. ASSUME NEW j \in Ids, queued'[j] # None
        PROVE  /\ queued_at'[j] # None
               /\ queued'[j].execution_ledger >= queued_at'[j] + TIMELOCK_DELAY_LEDGERS
    <3>1. CASE j = i
      <4>1. queued'[j] = e /\ queued_at'[j] = now
        BY <2>1, <3>1, Zenon DEF GatesInv
      <4> QED
        BY <1>0, <2>3, <4>1, GovernanceAssumption, Zenon
    <3>2. CASE j # i
      <4>1. queued'[j] = queued[j] /\ queued_at'[j] = queued_at[j]
        BY <2>1, <3>2 DEF GatesInv
      <4> QED
        BY <2>5, <4>1, Zenon DEF GatesInv
    <3> QED
      BY <3>1, <3>2, Zenon
  <2>6. GatesInv'
    BY <2>1, <2>4, <2>5, Zenon DEF GatesInv
  <2> QED
    BY <1>1, <2>1, <2>6, Zenon
<1>7. ASSUME NEW i \in Ids, execute(i)  PROVE GatesInv' /\ SimulationGatesProposals
  <2>1. /\ queued' = [queued EXCEPT ![i] = None] \/ queued' = queued
        /\ UNCHANGED <<report, queued_at, gov>>
    BY <1>7 DEF execute, require_matured
  <2> QED
    BY <1>1, <2>1, QueueEntryRemoved, Zenon
<1>8. ASSUME UNCHANGED <<report, queued, queued_at>>, gov'.count = gov.count
      PROVE  GatesInv' /\ SimulationGatesProposals
  BY <1>1, <1>2, <1>8
<1>9. CASE UNCHANGED <<govVars, now>> \/ UNCHANGED govVars
  BY <1>8, <1>9, ZenonT(30) DEF govVars
<1>10. CASE GovVoteStep \/ GovOptimisticStep
  BY <1>8, <1>10, ZenonT(30) DEF GovVoteStep, vote, GovOptimisticStep, veto, execute_optimistic
<1>11. CASE GovAnonymousStep
  <2>1. ASSUME NEW i, NEW s, NEW ring, NEW g, vote_anonymous(i, s, ring, g)
        PROVE  UNCHANGED <<gov, report, queued, queued_at>>
    BY <2>1, Zenon DEF vote_anonymous
  <2>2. UNCHANGED <<gov, report, queued, queued_at>>
    BY <1>11, <2>1, Zenon DEF GovAnonymousStep, register_voting_key
  <2> QED
    BY <1>8, <2>2
<1>12. CASE GovExecuteStep
  BY <1>7, <1>8, <1>12, Zenon DEF GovExecuteStep, prune_proposal
<1>13. ASSUME gov' = [gov EXCEPT !.timelock = TRUE]
              \/ (\E t : gov' = [gov EXCEPT !.treasury_token = t])
              \/ (\E t : gov' = [gov EXCEPT !.ve_token = t])
              \/ (\E t : gov' = [gov EXCEPT !.simulation = t])
              \/ (\E t : gov' = [gov EXCEPT !.optimistic_count = t])
       PROVE  gov'.count = gov.count
  BY <1>13 DEF MembersInv, GovRecord
<1>14. CASE GovTimelockStep
  <2>1. CASE enable_timelock
    BY <1>8, <1>13, <2>1, Zenon DEF enable_timelock
  <2> QED
    BY <1>6, <1>7, <1>14, <2>1 DEF GovTimelockStep, execute_queued_transaction
<1>15. CASE GovFundStep
  BY <1>8, <1>13, <1>15 DEF GovFundStep, set_treasury_token, FundTreasury
<1>16. CASE GovRagequitStep
  <2>1. UNCHANGED <<report, queued, queued_at>> /\ gov'.count = gov.count
    BY <1>16 DEF GovRagequitStep, ragequit, MembersInv, GovRecord
  <2> QED
    BY <1>8, <2>1, Zenon
<1>17. CASE GovSimulationStep
  <2>1. ASSUME NEW a, NEW s, NEW g, set_simulation_config(a, s, g)
        PROVE  GatesInv' /\ SimulationGatesProposals
    BY <1>8, <1>13, <2>1, Zenon DEF set_simulation_config
  <2>2. \A s \in Simulators, o \in Outcomes, i \in Ids, d \in Calls :
          [simulator |-> s, outcome |-> o, sim_hash |-> sim_hash(i, d)] \in SimulationReport
    BY DEF SimulationReport, sim_hash
  <2> QED
    BY <1>5, <1>17, <2>1, <2>2, Zenon DEF GovSimulationStep
<1>18. CASE GovSubmitStep
  BY <1>8, <1>13, <1>18, Zenon DEF GovSubmitStep, submit
<1>19. CASE GovEscrowStep
  BY <1>8, <1>13, <1>19, Zenon DEF GovEscrowStep, set_ve_token, create_lock, withdraw_lock
<1> QED
  BY <1>4, <1>9, <1>10, <1>11, <1>12, <1>14, <1>15, <1>16, <1>17, <1>18, <1>19, SMTT(30)
  DEF GovNext, GovStep, GovProposeStep
-----------------------------------------------------------------------------
(* The balances and the optimistic track                                   *)

\* No token balance is negative.
HoldingInv == holding \in [Tokens -> Nat]

\* A leaver's share, rounded down, is no more than the balance and leaves the
\* stayers' part of it whole.
LEMMA ShareBounds ==
  ASSUME NEW h \in Nat, NEW d \in Nat, NEW T \in Nat \ {0}, d <= T
  PROVE  /\ (h * d) \div T \in Nat /\ (h * d) \div T <= h
         /\ (h - (h * d) \div T) * T >= h * (T - d)
<1>1. h * d \in Nat /\ h * T \in Nat /\ h * d <= h * T
  BY ProductOrder
<1> DEFINE q == (h * d) \div T
<1>2. q \in Nat /\ q <= h
  BY <1>1, DivAtMost, Zenon
<1>3. T * q <= h * d
  BY <1>1
<1> HIDE DEF q
<1>4. (h - q) * T = h * T - T * q /\ h * (T - d) = h * T - h * d /\ T * q \in Nat
  BY <1>2
<1>5. (h - q) * T >= h * (T - d)
  BY <1>1, <1>3, <1>4
<1> QED
  BY <1>2, <1>5, Zenon DEF q

\* ragequit pays a share that leaves the stayers theirs.
LEMMA RagequitPays ==
  ASSUME MembersInv, HoldingInv, NEW voter \in Accounts, NEW id \in Ids, ragequit(voter, id),
         now' = now
  PROVE  /\ HoldingInv'
         /\ \A t \in Tokens : holding'[t] * gov.total_deposits >= holding[t] * gov'.total_deposits
<1> DEFINE T == gov.total_deposits
           d == deposit[voter]
           k == gov.treasury_token
           h == holding[k]
           pay == (h * d) \div T
<1>1. d \in Nat /\ d # 0 /\ k # None
  BY GovernanceAssumption DEF MembersInv, ragequit, ragequit_guard
<1>2. k \in Tokens /\ h \in Nat
  BY <1>1, GovernanceAssumption, Zenon DEF MembersInv, GovRecord, HoldingInv
<1>3. T \in Nat /\ gov'.total_deposits = T - d /\ gov'.total_deposits \in Nat
  <2>1. MembersInv' /\ gov'.total_deposits = gov.total_deposits - deposit[voter]
    BY RagequitTotals, Zenon
  <2>2. gov \in GovRecord /\ gov' \in GovRecord
    BY <2>1, Zenon DEF MembersInv
  <2>3. gov.total_deposits \in 0..U64Max /\ gov'.total_deposits \in 0..U64Max
    BY <2>2, Zenon DEF GovRecord
  <2> QED
    BY <2>1, <2>3, GovernanceAssumption
<1>4. T \in Nat \ {0} /\ d <= T
  BY <1>1, <1>3
<1>5. holding' = [holding EXCEPT ![k] = h - pay]
  BY <1>4, Zenon DEF ragequit, Payout
<1> HIDE DEF T, d, k, h, pay
<1>6. pay \in Nat /\ pay <= h /\ (h - pay) * T >= h * (T - d)
  BY <1>1, <1>2, <1>4, ShareBounds, Zenon DEF pay
<1>7. h - pay \in Nat
  BY <1>2, <1>6
<1>8. HoldingInv'
  BY <1>2, <1>5, <1>7 DEF HoldingInv
<1>9. ASSUME NEW t \in Tokens  PROVE holding'[t] * T >= holding[t] * (T - d)
  <2>1. CASE t = k
    <3>1. holding'[t] = h - pay /\ holding[t] = h
      BY <1>2, <1>5, <2>1, SMTT(30) DEF HoldingInv, h
    <3> QED
      BY <1>6, <3>1, Zenon
  <2>2. CASE t # k
    <3>1. holding'[t] = holding[t] /\ holding[t] \in Nat
      BY <1>5, <2>2, Zenon DEF HoldingInv
    <3>2. T - d \in Nat /\ T - d <= T
      BY <1>1, <1>4
    <3> QED
      BY <1>4, <3>1, <3>2, ProductOrder
  <2> QED
    BY <2>1, <2>2, Zenon
<1> QED
  BY <1>3, <1>8, <1>9, Zenon DEF T

\* Every step keeps balances natural, and no step dilutes a stayer.
LEMMA HoldingStep ==
  ASSUME MembersInv, HoldingInv, [GovNext]_<<govVars, now>>
  PROVE  HoldingInv'
<1>1. ASSUME UNCHANGED holding  PROVE HoldingInv'
  BY <1>1, Zenon DEF HoldingInv
<1>2. CASE UNCHANGED <<govVars, now>> \/ UNCHANGED govVars
  BY <1>1, <1>2, Zenon DEF govVars
<1>3. CASE GovProposeStep \/ GovVoteStep \/ GovExecuteStep
  BY <1>1, <1>3, Zenon DEF GovProposeStep, propose, GovVoteStep, vote, GovExecuteStep, execute,
                    prune_proposal
<1>4. CASE GovAnonymousStep
  <2>1. ASSUME NEW i, NEW s, NEW ring, NEW g, vote_anonymous(i, s, ring, g)
        PROVE  UNCHANGED holding
    BY <2>1, Zenon DEF vote_anonymous
  <2>2. UNCHANGED holding
    BY <1>4, <2>1, Zenon DEF GovAnonymousStep, register_voting_key
  <2> QED
    BY <1>1, <2>2, Zenon
<1>5. CASE GovTimelockStep
  BY <1>1, <1>5, Zenon DEF GovTimelockStep, enable_timelock, queue_transaction,
                    execute_queued_transaction, execute
<1>6. CASE GovFundStep
  <2>1. ASSUME NEW t \in Tokens, NEW n \in FundAmounts, FundTreasury(t, n)  PROVE HoldingInv'
    <3>1. n \in Nat /\ holding' = [holding EXCEPT ![t] = holding[t] + n]
      BY <2>1, GovernanceAssumption, Zenon DEF FundTreasury
    <3> QED
      BY <3>1 DEF HoldingInv
  <2>2. ASSUME NEW t, set_treasury_token(t)  PROVE HoldingInv'
    BY <1>1, <2>2, Zenon DEF set_treasury_token
  <2> QED
    BY <1>6, <2>1, <2>2, Zenon DEF GovFundStep
<1>7. ASSUME GovRagequitStep, now' = now  PROVE HoldingInv'
  BY <1>7, RagequitPays, Zenon DEF GovRagequitStep
<1>8. CASE GovSimulationStep
  <2>1. ASSUME NEW a, NEW c, NEW g, propose_with_simulation(a, c, g)  PROVE HoldingInv'
    BY <1>1, <2>1, Zenon DEF propose_with_simulation
  <2> QED
    BY <1>1, <1>8, <2>1, Zenon DEF GovSimulationStep, set_simulation_config
<1>9. CASE GovSubmitStep \/ GovOptimisticStep
  BY <1>1, <1>9, Zenon DEF GovSubmitStep, submit, GovOptimisticStep, veto, execute_optimistic
<1>10. CASE GovEscrowStep
  <2>0. gov.ve_token # None => gov.ve_token \in Tokens
    BY GovernanceAssumption, Zenon DEF MembersInv, GovRecord
  <2>1. ASSUME NEW t, set_ve_token(t)  PROVE HoldingInv'
    BY <1>1, <2>1, Zenon DEF set_ve_token
  <2>2. ASSUME NEW a \in Accounts, NEW n \in LockAmounts, NEW u \in Unlocks, create_lock(a, n, u)
        PROVE  HoldingInv'
    <3>1. /\ n \in Nat /\ gov.ve_token \in Tokens
          /\ holding' = [holding EXCEPT ![gov.ve_token] = holding[gov.ve_token] + n]
      BY <2>0, <2>2, GovernanceAssumption DEF create_lock
    <3> QED
      BY <3>1, SMTT(30) DEF HoldingInv
  <2>3. ASSUME NEW a \in Accounts, withdraw_lock(a)  PROVE HoldingInv'
    <3>1. /\ lock[a] \in Lock /\ gov.ve_token \in Tokens
          /\ holding[gov.ve_token] >= lock[a].amount
          /\ holding' = [holding EXCEPT ![gov.ve_token] = holding[gov.ve_token] - lock[a].amount]
      BY <2>0, <2>3, Zenon DEF withdraw_lock, MembersInv
    <3>2. lock[a].amount \in Nat
      BY <3>1, Zenon DEF Lock
    <3> QED
      BY <3>1, <3>2 DEF HoldingInv
  <2> QED
    BY <1>10, <2>1, <2>2, <2>3, Zenon DEF GovEscrowStep
<1> QED
  BY <1>2, <1>3, <1>4, <1>5, <1>6, <1>7, <1>8, <1>9, <1>10, SMTT(30) DEF GovNext, GovStep

\* An optimistic proposal is never both vetoed and executed.
OptimisticInv ==
  /\ optimistic \in [Ids -> OptimisticProposal \cup {None}]
  /\ \A i \in Ids : optimistic[i] # None => ~(optimistic[i].executed /\ optimistic[i].vetoed)

\* Every step keeps vetoed and executed apart.
LEMMA OptimisticStep ==
  ASSUME MembersInv, OptimisticInv, [GovNext]_<<govVars, now>>
  PROVE  OptimisticInv'
<1>0. now \in Nat
  BY Zenon DEF MembersInv
<1>1. ASSUME UNCHANGED optimistic  PROVE OptimisticInv'
  BY <1>1, Zenon DEF OptimisticInv
<1>2. ASSUME NEW id \in Ids, NEW p \in OptimisticProposal, ~(p.executed /\ p.vetoed),
             optimistic' = [optimistic EXCEPT ![id] = p]
      PROVE  OptimisticInv'
  BY <1>2 DEF OptimisticInv
<1>3. CASE GovSubmitStep
  <2>1. PICK a \in Accounts, c \in Calls : submit(a, c)
    BY <1>3, Zenon DEF GovSubmitStep
  <2> DEFINE p == [proposer |-> a, call |-> c,
                   challenge_deadline_ledger |-> now + OPTIMISTIC_CHALLENGE_WINDOW,
                   veto_weight |-> 0, executed |-> FALSE, vetoed |-> FALSE, vetoes |-> {}]
  <2>2. p \in OptimisticProposal
    BY <1>0, GovernanceAssumption DEF OptimisticProposal
  <2>3. ~(p.executed /\ p.vetoed)
    BY Zenon
  <2>4. gov.optimistic_count + 1 \in Ids
        /\ optimistic' = [optimistic EXCEPT ![gov.optimistic_count + 1] = p]
    BY <2>1, Zenon DEF submit
  <2> HIDE DEF p
  <2> QED
    BY <1>2, <2>2, <2>3, <2>4, Zenon
<1>4. ASSUME NEW a \in Accounts, NEW i \in Ids, veto(a, i)  PROVE OptimisticInv'
  <2> DEFINE p == optimistic[i]
             w == Least(p.veto_weight + quadratic_weight(a), U64Max)
             b == (w * BPS >= gov.total_weight * VETO_THRESHOLD_BPS)
             v == p.vetoes \cup {a}
             q == [p EXCEPT !.veto_weight = w, !.vetoes = v, !.vetoed = b]
  <2>1. p # None /\ ~p.executed /\ optimistic' = [optimistic EXCEPT ![i] = q]
    BY <1>4, Zenon DEF veto
  <2>2. p \in OptimisticProposal
    BY <2>1, Zenon DEF OptimisticInv
  <2>3. w \in 0..U64Max
    <3>1. quadratic_weight(a) \in Nat /\ p.veto_weight \in 0..U64Max /\ U64Max \in Nat
      BY <2>2, WeightBounds, GovernanceAssumption, Zenon DEF OptimisticProposal
    <3> QED
      BY <3>1 DEF Least
  <2>4. v \in SUBSET Accounts
    BY <2>2, Zenon DEF OptimisticProposal
  <2>5. b \in BOOLEAN
    OBVIOUS
  <2> HIDE DEF p, w, b, v
  <2> DEFINE q1 == [p EXCEPT !.veto_weight = w]
             q2 == [q1 EXCEPT !.vetoes = v]
             q3 == [q2 EXCEPT !.vetoed = b]
  <2>6. q1 \in OptimisticProposal /\ q1.executed = p.executed
    BY <2>2, <2>3, Zenon DEF OptimisticProposal
  <2> HIDE DEF q1
  <2>7. q2 \in OptimisticProposal /\ q2.executed = p.executed
    BY <2>4, <2>6, Zenon DEF OptimisticProposal
  <2> HIDE DEF q2
  <2>8. q3 \in OptimisticProposal /\ q3.executed = p.executed
    BY <2>5, <2>7, Zenon DEF OptimisticProposal
  <2>9. q = q3
    BY <2>2 DEF q1, q2, OptimisticProposal
  <2> HIDE DEF q, q3
  <2> QED
    BY <1>2, <2>1, <2>8, <2>9, Zenon
<1>5. ASSUME NEW i \in Ids, execute_optimistic(i)  PROVE OptimisticInv'
  <2> DEFINE p == optimistic[i]
             q == [p EXCEPT !.executed = TRUE]
  <2>1. p # None /\ ~p.vetoed /\ optimistic' = [optimistic EXCEPT ![i] = q]
    BY <1>5, Zenon DEF execute_optimistic
  <2>2. p \in OptimisticProposal
    BY <2>1, Zenon DEF OptimisticInv
  <2> HIDE DEF p
  <2>3. q \in OptimisticProposal /\ q.vetoed = p.vetoed
    BY <2>2, Zenon DEF OptimisticProposal
  <2> HIDE DEF q
  <2> QED
    BY <1>2, <2>1, <2>3, Zenon
<1>6. CASE UNCHANGED <<govVars, now>> \/ UNCHANGED govVars
  BY <1>1, <1>6, ZenonT(30) DEF govVars
<1>7. CASE GovProposeStep \/ GovVoteStep \/ GovExecuteStep
  BY <1>1, <1>7, Zenon DEF GovProposeStep, propose, GovVoteStep, vote, GovExecuteStep, execute,
                    prune_proposal
<1>8. CASE GovAnonymousStep
  <2>1. ASSUME NEW i, NEW s, NEW ring, NEW g, vote_anonymous(i, s, ring, g)
        PROVE  UNCHANGED optimistic
    BY <2>1, Zenon DEF vote_anonymous
  <2>2. UNCHANGED optimistic
    BY <1>8, <2>1, Zenon DEF GovAnonymousStep, register_voting_key
  <2> QED
    BY <1>1, <2>2
<1>9. CASE GovTimelockStep
  BY <1>1, <1>9 DEF GovTimelockStep, enable_timelock, queue_transaction,
                    execute_queued_transaction, execute
<1>10. CASE GovFundStep \/ GovRagequitStep
  BY <1>1, <1>10, Zenon DEF GovFundStep, set_treasury_token, FundTreasury, GovRagequitStep, ragequit
<1>11. CASE GovSimulationStep
  <2>1. ASSUME NEW a, NEW c, NEW g, propose_with_simulation(a, c, g)  PROVE OptimisticInv'
    BY <1>1, <2>1 DEF propose_with_simulation
  <2> QED
    BY <1>1, <1>11, <2>1, Zenon DEF GovSimulationStep, set_simulation_config
<1>12. CASE GovEscrowStep
  BY <1>1, <1>12, Zenon DEF GovEscrowStep, set_ve_token, create_lock, withdraw_lock
<1> QED
  BY <1>3, <1>4, <1>5, <1>6, <1>7, <1>8, <1>9, <1>10, <1>11, <1>12, ZenonT(30)
  DEF GovNext, GovStep, GovOptimisticStep

-----------------------------------------------------------------------------
(* The theorems                                                            *)

\* The inductive invariant of the governance contract.
GovInv ==
  MembersInv /\ ProposalsInv /\ BallotsInv /\ GatesInv /\ HoldingInv /\ OptimisticInv

\* The constructor's state satisfies the invariant.
LEMMA GovStart ==
  ASSUME GovInit, ClockInit
  PROVE  GovInv
<1>1. MembersInv /\ BallotsInv
  BY MembersStart, BallotsStart, Zenon
<1>2. ProposalsInv
  BY Zenon DEF GovInit, ProposalsInv
<1>3. GatesInv
  BY Zenon DEF GovInit, GatesInv
<1>4. HoldingInv /\ OptimisticInv
  BY DEF GovInit, HoldingInv, OptimisticInv
<1> QED
  BY <1>1, <1>2, <1>3, <1>4, Zenon DEF GovInv

\* Every step keeps the invariant.
LEMMA GovStepKeeps ==
  ASSUME GovInv, [GovNext]_<<govVars, now>>
  PROVE  GovInv' /\ ConfigKept /\ ProposalsMove /\ now <= now' /\ SimulationGatesProposals
<1>1. MembersInv' /\ ConfigKept
  BY MembersStep, Zenon DEF GovInv
<1>2. ProposalsMove
  BY ProposalsChange, Zenon DEF GovInv, ProposalsInv
<1>3. now \in Nat /\ now' \in Nat /\ now <= now'
  BY <1>1 DEF GovInv, MembersInv, GovNext, NextLedger
<1>4. ProposalsInv'
  BY <1>1, <1>2, <1>3, ProposalsStep, Zenon DEF GovInv, MembersInv
<1>5. GatesInv' /\ SimulationGatesProposals
  BY <1>1, GatesStep DEF GovInv
<1>6. BallotsInv' /\ HoldingInv' /\ OptimisticInv'
  BY BallotsStep, HoldingStep, OptimisticStep, Zenon DEF GovInv
<1> QED
  BY <1>1, <1>2, <1>3, <1>4, <1>5, <1>6, Zenon DEF GovInv

\* The invariant holds throughout.
LEMMA GovInvHolds == GovSpec => []GovInv
<1>1. GovInit /\ ClockInit => GovInv
  BY GovStart, Zenon
<1>2. GovInv /\ [GovNext]_<<govVars, now>> => GovInv'
  BY GovStepKeeps, Zenon
<1> QED
  BY <1>1, <1>2, PTL DEF GovSpec

\* The sums of the property are those of the invariant, and a lock only adds.
LEMMA InvFollowsMembers ==
  ASSUME MembersInv
  PROVE  TotalsFollowMembers
<1> DEFINE w == [a \in Accounts |-> quadratic_weight(a)]
<1>1. /\ deposit \in [Accounts -> 0..U64Max] /\ IsFiniteSet(Accounts)
      /\ DOMAIN deposit = Accounts /\ DOMAIN w = Accounts
  BY GovernanceAssumption, Zenon DEF MembersInv
<1>2. SumFunction(deposit) = SumFunctionOnSet(deposit, Accounts)
  BY <1>1, Zenon DEF SumFunction
<1>3. SumFunction(w) = SumFunctionOnSet(w, Accounts)
  BY <1>1, Zenon DEF SumFunction
<1>4. NatOn(Roots(deposit), Accounts)
  BY <1>1, RootsNat, Zenon
<1>5. \A a \in Accounts : w[a] \in Nat /\ Roots(deposit)[a] <= w[a]
  BY WeightBounds, Zenon DEF Roots
<1> HIDE DEF w
<1>6. IntOn(Roots(deposit), Accounts) /\ IntOn(w, Accounts)
  BY <1>4, <1>5, SMTT(30) DEF NatOn, IntOn
<1>7. SumFunctionOnSet(Roots(deposit), Accounts) <= SumFunctionOnSet(w, Accounts)
  BY <1>1, <1>5, <1>6, SumMonotone, SMTT(30)
<1>8. /\ SumFunctionOnSet(Roots(deposit), Accounts) \in Int
      /\ SumFunctionOnSet(w, Accounts) \in Int /\ gov.total_weight \in Int
  BY <1>1, <1>6, SumInt, SMTT(30) DEF MembersInv, GovRecord
<1>9. gov.total_weight <= SumFunction(w)
  BY <1>3, <1>7, <1>8 DEF MembersInv
<1> QED
  BY <1>2, <1>9, Zenon DEF TotalsFollowMembers, MembersInv, w

\* For every membership, deposits, locks and interleaving of the entry points:
\* no member is counted twice on a proposal, by vote, by vote_anonymous or by
\* both; the totals ragequit keeps are the deposits' sum and a weight the
\* members left can reach; and no optimistic submission is both vetoed and run.
THEOREM VotesAlwaysSound == GovSpec => []VotesSound
<1>1. ASSUME GovInv  PROVE VotesSound
  <2>1. GovTypeOK
    <3>1. /\ gov.total_weight \in 0..U64Max /\ gov.total_deposits \in 0..U64Max
          /\ deposit \in [Accounts -> 0..U64Max] /\ quarantined \in [Accounts -> 0..U64Max]
      BY <1>1, Zenon DEF GovInv, MembersInv, GovRecord
    <3>2. \A i \in Ids : proposal[i] # None =>
            /\ i <= gov.count
            /\ proposal[i].yes_weight \in 0..U64Max /\ proposal[i].no_weight \in 0..U64Max
      BY <1>1 DEF GovInv, ProposalsInv, Proposal
    <3>3. \A i \in Ids : report[i] # None => report[i].simulator \in Simulators
      BY <1>1, Zenon DEF GovInv, GatesInv, SimulationReport
    <3>4. \A i \in Ids : queued[i] # None => queued[i].execution_ledger \in Nat
      BY <1>1, Zenon DEF GovInv, GatesInv, QueuedTransaction
    <3>5. \A a \in Accounts : lock[a] # None => lock[a].amount > 0
      BY <1>1 DEF GovInv, MembersInv, Lock
    <3> QED
      BY <1>1, <3>1, <3>2, <3>3, <3>4, <3>5, Zenon DEF GovInv, HoldingInv, GovTypeOK
  <2>2. OneBallotEach
    <3>1. \A i \in Ids, a \in Accounts : cast[i][a] \in {0, 1}
      BY <1>1, Zenon DEF GovInv, BallotsInv
    <3> QED
      BY <3>1 DEF OneBallotEach
  <2>3. TotalsFollowMembers
    BY <1>1, InvFollowsMembers, Zenon DEF GovInv
  <2>4. VetoExcludesExecution
    BY <1>1 DEF GovInv, OptimisticInv, VetoExcludesExecution
  <2> QED
    BY <2>1, <2>2, <2>3, <2>4, Zenon DEF VotesSound
<1> QED
  BY <1>1, GovInvHolds, PTL

\* An approved proposal loses its approval to a vote against it only: the quorum
\* of current_quorum_bps never rises, ragequit only shrinks the denominator, and
\* no vote takes from the weight in favour.
THEOREM ApprovalAlwaysLostByVotesOnly == GovSpec => ApprovalLostByVotesOnly
<1>1. ASSUME GovInv, [GovNext]_<<govVars, now>>
      PROVE  [\A i \in Ids :
                (Pending(i) /\ is_approved(proposal[i]) /\ proposal'[i] # None)
                  => is_approved(proposal[i])' \/ proposal'[i].no_weight > proposal[i].no_weight
             ]_<<govVars, now>>
  <2>1. MembersInv /\ MembersInv' /\ ConfigKept /\ ProposalsInv /\ ProposalsMove /\ now <= now'
    BY <1>1, GovStepKeeps, Zenon DEF GovInv
  <2>2. \A i \in Ids : ApprovalStep(i)
    BY <2>1, ApprovalSteps
  <2> QED
    BY <2>2, Zenon DEF ApprovalStep
<1> QED
  BY <1>1, GovInvHolds, PTL DEF GovSpec, ApprovalLostByVotesOnly

\* The gates of timelock.rs and sim.rs: with the timelock on, execute runs a
\* proposal only the delay or more after a member queued it; with a mandatory
\* simulator no proposal enters without a report on its own id and call.
THEOREM GatesAlwaysHold == GovSpec => GatesHold
<1>1. ASSUME GovInv, [GovNext]_<<govVars, now>>
      PROVE  [TimelockHolds /\ SimulationGatesProposals]_<<govVars, now>>
  <2>1. ProposalsMove /\ SimulationGatesProposals
    BY <1>1, GovStepKeeps, Zenon
  <2>2. TimelockHolds
    BY <1>1, <2>1, TimelockStep DEF GovInv
  <2> QED
    BY <2>1, <2>2, Zenon
<1> QED
  BY <1>1, GovInvHolds, PTL DEF GovSpec, GatesHold

\* ragequit pays the floor of the pro-rata share of a total that is the deposits'
\* sum, so no exit lowers what a unit of deposit left is worth in any token.
THEOREM StayersNeverDiluted == GovSpec => StayersNotDiluted
<1>1. ASSUME GovInv, [GovNext]_<<govVars, now>>
      PROVE  [\A t \in Tokens :
                (gov' # gov /\ gov'.total_deposits # gov.total_deposits)
                  => holding'[t] * gov.total_deposits >= holding[t] * gov'.total_deposits
             ]_<<govVars, now>>
  <2> SUFFICES ASSUME NEW t \in Tokens, gov'.total_deposits # gov.total_deposits
               PROVE  holding'[t] * gov.total_deposits >= holding[t] * gov'.total_deposits
    BY Zenon
  <2>1. GovRagequitStep
    BY <1>1, GovStepKeeps, Zenon DEF ConfigKept
  <2>2. now' = now
    BY <1>1, Zenon DEF GovNext, govVars
  <2> QED
    BY <1>1, <2>1, <2>2, RagequitPays, Zenon DEF GovRagequitStep, GovInv
<1> QED
  BY <1>1, GovInvHolds, PTL DEF GovSpec, StayersNotDiluted
=============================================================================
