---------------------------- MODULE SumTheorems ----------------------------
(***************************************************************************)
(* Sums of a function over a finite set, for the proofs about what the     *)
(* contracts hold and owe: the facts about SumFunctionOnSet that a step of *)
(* a contract needs, one element more, one less or one changed.  Inductions *)
(* take the least counterexample, since the provers cannot instantiate an  *)
(* induction rule.                                                         *)
(***************************************************************************)
EXTENDS Integers, FiniteSets, Functions, FiniteSetTheorems, WellFoundedInduction, TLAPS

\* Every non-empty set of naturals has a least element.
LEMMA NatMin ==
  ASSUME NEW T, T \subseteq Nat, T # {}
  PROVE  \E x \in T : \A y \in T : x <= y
<1> DEFINE R == OpToRel(<, Nat)
<1>1. IsWellFoundedOn(R, Nat)
  BY ZenonT(60), NatLessThanWellFounded
<1>2. \A x, y \in Nat : y < x => <<y, x>> \in R
  BY Zenon DEF OpToRel
<1> HIDE DEF R
<1>3. PICK x \in T : \A y \in T : ~ (<<y, x>> \in R)
  BY ZenonT(60), <1>1, WFMin
<1>4. x \in Nat /\ \A y \in T : y \in Nat /\ ~ (y < x)
  BY ZenonT(60), <1>2, <1>3
<1>5. \A y \in T : x <= y
  BY <1>4
<1> QED
  BY <1>5, Zenon

\* Induction over finite sets, the property being the set G of the sets that
\* have it: an element is added at a time.
LEMMA GrowsTo ==
  ASSUME NEW S, IsFiniteSet(S), NEW G, {} \in G,
         \A t \in SUBSET S : t \in G => \A x \in S \ t : t \union {x} \in G
  PROVE  S \in G
<1> DEFINE Bad == {n \in Nat : \E t \in SUBSET S : Cardinality(t) = n /\ t \notin G}
<1>0. \A t \in SUBSET S : IsFiniteSet(t) /\ Cardinality(t) \in Nat
  BY FS_Subset, FS_CardinalityType, Zenon
<1>1. Bad = {}
  <2>1. SUFFICES ASSUME Bad # {}  PROVE FALSE
    BY Zenon
  <2>2. Bad \subseteq Nat
    BY Zenon
  <2>3. PICK k \in Bad : \A n \in Bad : k <= n
    BY ZenonT(60), <2>1, <2>2, NatMin
  <2>4. PICK t \in SUBSET S : Cardinality(t) = k /\ t \notin G
    BY <2>3, Zenon
  <2>5. PICK x \in t : TRUE
    BY <2>4, Zenon
  <2> DEFINE r == t \ {x}
  <2>6. r \in SUBSET S /\ x \in S \ r /\ r \union {x} = t
    BY <2>5, Zenon
  <2>7. Cardinality(r) \in Nat /\ Cardinality(r) < k
    BY <1>0, <2>4, <2>5, <2>6, FS_RemoveElement
  <2>8. r \notin G
    BY <2>4, <2>6, Zenon
  <2>9. Cardinality(r) \in Bad
    BY <2>6, <2>7, <2>8, Zenon
  <2>10. k \in Nat /\ k <= Cardinality(r)
    BY <2>2, <2>3, <2>9, Zenon
  <2> QED
    BY <2>7, <2>10
<1>2. Cardinality(S) \in Nat /\ S \in SUBSET S
  BY FS_CardinalityType, Zenon
<1> QED
  BY <1>1, <1>2, Zenon

-----------------------------------------------------------------------------
(* The recursion behind the sum.                                           *)

\* The element of s the fold takes first.
First(s) == CHOOSE x \in s : TRUE

\* One unfolding of the sum of f over s, g being the sum over smaller sets.
Unfold(f, g, s) == IF s = {} THEN 0 ELSE f[First(s)] + g[s \ {First(s)}]

\* g is the sum of f over every set of D.
Sums(f, g, D) == g = [s \in D |-> Unfold(f, g, s)]

\* The fold removes an element of the set.
LEMMA FirstIn ==
  ASSUME NEW s, s # {}
  PROVE  First(s) \in s
BY Zenon DEF First

\* A smaller set is left after the fold's first step.
LEMMA FirstRemoved ==
  ASSUME NEW s, IsFiniteSet(s), s # {}
  PROVE  /\ IsFiniteSet(s \ {First(s)})
         /\ Cardinality(s) \in Nat /\ Cardinality(s \ {First(s)}) \in Nat
         /\ Cardinality(s \ {First(s)}) = Cardinality(s) - 1
<1>1. First(s) \in s
  BY FirstIn, Zenon
<1>2. IsFiniteSet(s \ {First(s)}) /\ Cardinality(s \ {First(s)}) = Cardinality(s) - 1
  BY <1>1, FS_RemoveElement, Zenon
<1> QED
  BY <1>2, FS_CardinalityType, Zenon

\* The subsets of S with at most n elements.
Small(S, n) == {s \in SUBSET S : Cardinality(s) <= n}

\* The recursion has a solution on the subsets of every finite set.
LEMMA SumsExist ==
  ASSUME NEW f, NEW S, IsFiniteSet(S)
  PROVE  \E g : Sums(f, g, SUBSET S)
<1> DEFINE Bad == {n \in Nat : ~ \E g : Sums(f, g, Small(S, n))}
<1>0. \A s \in SUBSET S : IsFiniteSet(s) /\ Cardinality(s) \in Nat /\ Cardinality(s) <= Cardinality(S)
  BY FS_Subset, FS_CardinalityType, Zenon
<1>1. Bad = {}
  <2>1. SUFFICES ASSUME Bad # {}  PROVE FALSE
    BY Zenon
  <2>2. Bad \subseteq Nat
    BY Zenon
  <2>3. PICK k \in Bad : \A n \in Bad : k <= n
    BY ZenonT(60), <2>1, <2>2, NatMin
  <2>4. CASE k = 0
    <3>1. \A s \in Small(S, 0) : s = {}
      BY <1>0, FS_EmptySet DEF Small
    <3> DEFINE g == [s \in Small(S, 0) |-> 0]
    <3>2. Sums(f, g, Small(S, 0))
      BY <3>1, Zenon DEF Sums, Unfold
    <3> QED
      BY <2>3, <2>4, <3>2, Zenon
  <2>5. CASE k # 0
    <3>1. k - 1 \in Nat /\ k - 1 \notin Bad
      BY <2>3, <2>5
    <3>2. PICK g : Sums(f, g, Small(S, k - 1))
      BY <3>1, Zenon
    <3> DEFINE h == [s \in Small(S, k) |-> Unfold(f, g, s)]
    <3>3. ASSUME NEW s \in Small(S, k)  PROVE Unfold(f, h, s) = Unfold(f, g, s)
      <4>1. CASE s = {}
        BY <4>1, Zenon DEF Unfold
      <4>2. CASE s # {}
        <5> DEFINE t == s \ {First(s)}
        <5>1. t \in SUBSET S /\ Cardinality(t) <= k - 1 /\ Cardinality(t) <= k
          BY <1>0, <2>3, <4>2, FirstRemoved DEF Small
        <5>2. t \in Small(S, k - 1) /\ t \in Small(S, k)
          BY <5>1, Zenon DEF Small
        <5>3. h[t] = Unfold(f, g, t)
          BY <5>2, Zenon
        <5>4. g[t] = Unfold(f, g, t)
          BY <3>2, <5>2, Zenon DEF Sums
        <5> QED
          BY <4>2, <5>3, <5>4 DEF Unfold
      <4> QED
        BY <4>1, <4>2, Zenon
    <3>4. Sums(f, h, Small(S, k))
      BY <3>3, Zenon DEF Sums
    <3> QED
      BY <2>3, <3>4, Zenon
  <2> QED
    BY <2>4, <2>5, Zenon
<1>2. Cardinality(S) \in Nat
  BY FS_CardinalityType, Zenon
<1>3. PICK g : Sums(f, g, Small(S, Cardinality(S)))
  BY <1>1, <1>2, Zenon
<1>4. Small(S, Cardinality(S)) = SUBSET S
  BY <1>0, Zenon DEF Small
<1> QED
  BY <1>3, <1>4, Zenon

\* Two solutions agree on the finite sets of both domains.
LEMMA SumsAgree ==
  ASSUME NEW f, NEW g, NEW h, NEW S, NEW U, Sums(f, g, SUBSET S), Sums(f, h, SUBSET U),
         NEW T, IsFiniteSet(T), T \subseteq S, T \subseteq U
  PROVE  g[T] = h[T]
<1> DEFINE Bad == {n \in Nat : \E t \in SUBSET T : Cardinality(t) = n /\ g[t] # h[t]}
<1>0. \A t \in SUBSET T : IsFiniteSet(t) /\ Cardinality(t) \in Nat /\ t \in SUBSET S /\ t \in SUBSET U
  BY FS_Subset, FS_CardinalityType, Zenon
<1>1. Bad = {}
  <2>1. SUFFICES ASSUME Bad # {}  PROVE FALSE
    BY Zenon
  <2>2. Bad \subseteq Nat
    BY Zenon
  <2>3. PICK k \in Bad : \A n \in Bad : k <= n
    BY ZenonT(60), <2>1, <2>2, NatMin
  <2>4. PICK t \in SUBSET T : Cardinality(t) = k /\ g[t] # h[t]
    BY <2>3, Zenon
  <2>5. g[t] = Unfold(f, g, t) /\ h[t] = Unfold(f, h, t)
    BY <1>0, Zenon DEF Sums
  <2>6. t # {}
    BY <2>4, <2>5, Zenon DEF Unfold
  <2> DEFINE r == t \ {First(t)}
  <2>7. r \in SUBSET T /\ Cardinality(r) \in Nat /\ Cardinality(r) < k
    BY <1>0, <2>4, <2>6, FirstRemoved
  <2>8. g[r] # h[r]
    BY <2>4, <2>5, <2>6, Zenon DEF Unfold
  <2>9. Cardinality(r) \in Bad
    BY <2>7, <2>8, Zenon
  <2>10. k \in Nat /\ k <= Cardinality(r)
    BY <2>2, <2>3, <2>9, Zenon
  <2> QED
    BY <2>7, <2>10
<1>2. Cardinality(T) \in Nat /\ T \in SUBSET T
  BY FS_CardinalityType, Zenon
<1> QED
  BY <1>1, <1>2, Zenon

\* The sum is the value of a solution.
LEMMA SumIsSolution ==
  ASSUME NEW f, NEW S, IsFiniteSet(S)
  PROVE  \E g : Sums(f, g, SUBSET S) /\ SumFunctionOnSet(f, S) = g[S]
<1> DEFINE G == CHOOSE g : Sums(f, g, SUBSET S)
<1>1. Sums(f, G, SUBSET S)
  BY SumsExist, Zenon
<1>2. SumFunctionOnSet(f, S) = G[S]
  BY Zenon DEF SumFunctionOnSet, FoldFunctionOnSet, MapThenFoldSet, Sums, Unfold, First
<1> QED
  BY <1>1, <1>2, Zenon

\* The sum over the empty set, and one step of the fold.
LEMMA SumUnfolds ==
  ASSUME NEW f, NEW S, IsFiniteSet(S)
  PROVE  SumFunctionOnSet(f, S) =
           IF S = {} THEN 0 ELSE f[First(S)] + SumFunctionOnSet(f, S \ {First(S)})
<1>1. PICK g : Sums(f, g, SUBSET S) /\ SumFunctionOnSet(f, S) = g[S]
  BY SumIsSolution, Zenon
<1>2. g[S] = Unfold(f, g, S)
  BY <1>1, Zenon DEF Sums
<1>3. CASE S = {}
  BY <1>1, <1>2, <1>3, Zenon DEF Unfold
<1>4. CASE S # {}
  <2> DEFINE R == S \ {First(S)}
  <2>1. IsFiniteSet(R)
    BY <1>4, FirstRemoved, Zenon
  <2>2. PICK h : Sums(f, h, SUBSET R) /\ SumFunctionOnSet(f, R) = h[R]
    BY <2>1, SumIsSolution, Zenon
  <2>3. g[R] = h[R]
    <3> HIDE DEF R
    <3>1. R \subseteq S /\ R \subseteq R
      BY Zenon DEF R
    <3> QED
      BY <1>1, <2>1, <2>2, <3>1, SumsAgree, SMTT(30)
  <2> QED
    BY <1>1, <1>2, <1>4, <2>2, <2>3, Zenon DEF Unfold
<1> QED
  BY <1>3, <1>4, Zenon
-----------------------------------------------------------------------------
(* What a step needs to know of a sum.                                     *)

\* f has integer values on S.
IntOn(f, S) == \A x \in S : f[x] \in Int

\* f has natural values on S.
NatOn(f, S) == \A x \in S : f[x] \in Nat

\* The sum over the empty set.
LEMMA SumEmpty ==
  ASSUME NEW f
  PROVE  SumFunctionOnSet(f, {}) = 0
BY SumUnfolds, FS_EmptySet, Zenon

\* The sum of integers is an integer, and any element may be taken out of it.
LEMMA SumTakes ==
  ASSUME NEW f, NEW S, IsFiniteSet(S), IntOn(f, S)
  PROVE  /\ SumFunctionOnSet(f, S) \in Int
         /\ \A x \in S : SumFunctionOnSet(f, S) = f[x] + SumFunctionOnSet(f, S \ {x})
<1> DEFINE sum(t) == SumFunctionOnSet(f, t)
           Takes(t) == sum(t) \in Int /\ \A x \in t : sum(t) = f[x] + sum(t \ {x})
           Bad == {n \in Nat : \E t \in SUBSET S : Cardinality(t) = n /\ ~ Takes(t)}
<1>0. \A t \in SUBSET S : IsFiniteSet(t) /\ Cardinality(t) \in Nat
  BY FS_Subset, FS_CardinalityType, Zenon
<1>1. Bad = {}
  <2>1. SUFFICES ASSUME Bad # {}  PROVE FALSE
    BY Zenon
  <2>2. Bad \subseteq Nat
    BY Zenon
  <2>3. PICK k \in Bad : \A n \in Bad : k <= n
    BY ZenonT(60), <2>1, <2>2, NatMin
  <2>4. PICK t \in SUBSET S : Cardinality(t) = k /\ ~ Takes(t)
    BY <2>3, Zenon
  <2>5. ASSUME NEW r \in SUBSET S, Cardinality(r) < k  PROVE Takes(r)
    <3>1. Cardinality(r) \in Nat
      BY <1>0, Zenon
    <3>2. Cardinality(r) \notin Bad
      BY <2>2, <2>3, <2>5, <3>1
    <3> QED
      BY <3>1, <3>2, Zenon
  <2>6. t # {}
    <3>1. SUFFICES ASSUME t = {}  PROVE FALSE
      BY Zenon
    <3>2. sum(t) = 0
      BY <3>1, SumEmpty, Zenon
    <3> QED
      BY <2>4, <3>1, <3>2
  <2> DEFINE a == First(t)
  <2>7. a \in t /\ f[a] \in Int
    BY <2>6, FirstIn, Zenon DEF IntOn
  <2>8. sum(t) = f[a] + sum(t \ {a})
    BY <1>0, <2>6, SumUnfolds, Zenon
  <2> HIDE DEF a
  <2>9. ASSUME NEW x \in t  PROVE t \ {x} \in SUBSET S /\ Cardinality(t \ {x}) < k
    BY <1>0, <2>4, FS_RemoveElement
  <2>10. \A x \in t : Takes(t \ {x})
    BY <2>5, <2>9, Zenon
  <2>11. sum(t) \in Int
    BY <2>7, <2>8, <2>10
  <2>12. ASSUME NEW x \in t  PROVE sum(t) = f[x] + sum(t \ {x})
    <3>1. CASE x = a
      BY <2>8, <3>1, Zenon
    <3>2. CASE x # a
      <4>1. x \in t \ {a} /\ a \in t \ {x} /\ f[x] \in Int
        BY <2>7, <3>2, Zenon DEF IntOn
      <4>2. sum(t \ {a}) = f[x] + sum((t \ {a}) \ {x})
        BY <2>7, <2>10, <4>1, Zenon
      <4>3. sum(t \ {x}) = f[a] + sum((t \ {x}) \ {a})
        BY <2>10, <4>1, Zenon
      <4>4. (t \ {a}) \ {x} = (t \ {x}) \ {a}
        BY Zenon
      <4> DEFINE z == sum((t \ {x}) \ {a})
      <4>5. Cardinality((t \ {x}) \ {a}) < k /\ (t \ {x}) \ {a} \in SUBSET S
        <5>1. t \ {x} \in SUBSET S /\ Cardinality(t \ {x}) \in Nat /\ Cardinality(t \ {x}) < k
          BY <1>0, <2>9, Zenon
        <5>2. IsFiniteSet(t \ {x}) /\ Cardinality((t \ {x}) \ {a}) = Cardinality(t \ {x}) - 1
          BY <1>0, <4>1, <5>1, FS_RemoveElement, Zenon
        <5> QED
          BY <2>2, <5>1, <5>2
      <4>6. z \in Int
        BY <2>5, <4>5, Zenon
      <4>7. sum(t \ {a}) = f[x] + z
        BY <4>2, <4>4, Zenon
      <4> HIDE DEF z
      <4> HIDE DEF sum
      <4> QED
        BY <2>7, <2>8, <4>1, <4>3, <4>6, <4>7 DEF z
    <3> QED
      BY <3>1, <3>2, Zenon
  <2> QED
    BY <2>4, <2>11, <2>12, Zenon
<1>2. Cardinality(S) \in Nat /\ S \in SUBSET S
  BY FS_CardinalityType, Zenon
<1>3. Takes(S)
  BY <1>1, <1>2, Zenon
<1> QED
  BY <1>3, Zenon
\* A sum of integers is an integer.
LEMMA SumInt ==
  ASSUME NEW f, NEW S, IsFiniteSet(S), IntOn(f, S)
  PROVE  SumFunctionOnSet(f, S) \in Int
BY SumTakes, Zenon

\* One element less.
LEMMA SumRemove ==
  ASSUME NEW f, NEW S, IsFiniteSet(S), IntOn(f, S), NEW x \in S
  PROVE  SumFunctionOnSet(f, S \ {x}) = SumFunctionOnSet(f, S) - f[x]
<1>1. IsFiniteSet(S \ {x}) /\ IntOn(f, S \ {x})
  BY FS_RemoveElement, Zenon DEF IntOn
<1>2. SumFunctionOnSet(f, S \ {x}) \in Int /\ f[x] \in Int
  BY <1>1, SumInt, Zenon DEF IntOn
<1>3. SumFunctionOnSet(f, S) = f[x] + SumFunctionOnSet(f, S \ {x})
  BY SumTakes
<1> QED
  BY <1>2, <1>3

\* One element more.
LEMMA SumAdd ==
  ASSUME NEW f, NEW S, IsFiniteSet(S), IntOn(f, S), NEW x, x \notin S, f[x] \in Int
  PROVE  SumFunctionOnSet(f, S \union {x}) = SumFunctionOnSet(f, S) + f[x]
<1> DEFINE U == S \union {x}
<1>1. IsFiniteSet(U) /\ IntOn(f, U) /\ x \in U /\ U \ {x} = S
  BY FS_AddElement, Zenon DEF IntOn
<1> HIDE DEF U
<1>2. SumFunctionOnSet(f, U) = f[x] + SumFunctionOnSet(f, S)
  BY <1>1, SumTakes
<1>3. SumFunctionOnSet(f, S) \in Int
  BY SumInt, Zenon
<1> QED
  BY <1>2, <1>3 DEF U

\* Smaller summands have the smaller sum.
LEMMA SumMonotone ==
  ASSUME NEW f, NEW g, NEW S, IsFiniteSet(S), IntOn(f, S), IntOn(g, S), \A x \in S : f[x] <= g[x]
  PROVE  SumFunctionOnSet(f, S) <= SumFunctionOnSet(g, S)
<1> DEFINE G == {t \in SUBSET S : SumFunctionOnSet(f, t) <= SumFunctionOnSet(g, t)}
<1>1. {} \in G
  BY SumEmpty
<1>2. ASSUME NEW t \in SUBSET S, t \in G, NEW x \in S \ t  PROVE t \union {x} \in G
  <2>1. IsFiniteSet(t) /\ IntOn(f, t) /\ IntOn(g, t) /\ f[x] \in Int /\ g[x] \in Int /\ f[x] <= g[x]
    BY FS_Subset, Zenon DEF IntOn
  <2>2. /\ SumFunctionOnSet(f, t \union {x}) = SumFunctionOnSet(f, t) + f[x]
        /\ SumFunctionOnSet(g, t \union {x}) = SumFunctionOnSet(g, t) + g[x]
        /\ SumFunctionOnSet(f, t) \in Int /\ SumFunctionOnSet(g, t) \in Int
    BY <2>1, SumAdd, SumInt, Zenon
  <2> QED
    BY <1>2, <2>1, <2>2
<1> HIDE DEF G
<1>3. S \in G
  BY <1>1, <1>2, GrowsTo, Zenon
<1> QED
  BY <1>3, Zenon DEF G

\* Equal summands have equal sums.
LEMMA SumSame ==
  ASSUME NEW f, NEW g, NEW S, IsFiniteSet(S), IntOn(f, S), \A x \in S : f[x] = g[x]
  PROVE  SumFunctionOnSet(f, S) = SumFunctionOnSet(g, S)
<1>1. IntOn(g, S) /\ \A x \in S : f[x] <= g[x] /\ g[x] <= f[x]
  BY DEF IntOn
<1>2. SumFunctionOnSet(f, S) <= SumFunctionOnSet(g, S) /\ SumFunctionOnSet(g, S) <= SumFunctionOnSet(f, S)
  BY <1>1, SumMonotone, Zenon
<1>3. SumFunctionOnSet(f, S) \in Int /\ SumFunctionOnSet(g, S) \in Int
  BY <1>1, SumInt, Zenon
<1> QED
  BY <1>2, <1>3

\* One summand changed.
LEMMA SumChange ==
  ASSUME NEW f, NEW g, NEW S, IsFiniteSet(S), IntOn(f, S), NEW x \in S, g[x] \in Int,
         \A y \in S \ {x} : g[y] = f[y]
  PROVE  SumFunctionOnSet(g, S) = SumFunctionOnSet(f, S) - f[x] + g[x]
<1> DEFINE R == S \ {x}
<1>1. IsFiniteSet(R) /\ IntOn(f, R) /\ IntOn(g, S) /\ f[x] \in Int /\ \A y \in R : f[y] = g[y]
  BY FS_RemoveElement, Zenon DEF IntOn
<1>2. /\ SumFunctionOnSet(f, S) = f[x] + SumFunctionOnSet(f, R)
      /\ SumFunctionOnSet(g, S) = g[x] + SumFunctionOnSet(g, R)
  BY <1>1, SumTakes
<1> HIDE DEF R
<1>3. SumFunctionOnSet(f, R) = SumFunctionOnSet(g, R) /\ SumFunctionOnSet(f, R) \in Int
  BY <1>1, SumSame, SumInt, Zenon
<1> QED
  BY <1>1, <1>2, <1>3

\* A sum of naturals is a natural.
LEMMA SumNat ==
  ASSUME NEW f, NEW S, IsFiniteSet(S), NatOn(f, S)
  PROVE  SumFunctionOnSet(f, S) \in Nat
<1> DEFINE G == {t \in SUBSET S : SumFunctionOnSet(f, t) \in Nat}
<1>1. {} \in G
  BY SumEmpty
<1>2. ASSUME NEW t \in SUBSET S, t \in G, NEW x \in S \ t  PROVE t \union {x} \in G
  <2>1. IsFiniteSet(t) /\ IntOn(f, t) /\ f[x] \in Nat
    BY FS_Subset DEF IntOn, NatOn
  <2>2. SumFunctionOnSet(f, t \union {x}) = SumFunctionOnSet(f, t) + f[x]
    BY <2>1, SumAdd
  <2> QED
    BY <1>2, <2>1, <2>2
<1> HIDE DEF G
<1>3. S \in G
  BY <1>1, <1>2, GrowsTo, Zenon
<1> QED
  BY <1>3, Zenon DEF G

\* The sum over a part of the set is no more than the sum over the set.
LEMMA SumOfPart ==
  ASSUME NEW f, NEW S, IsFiniteSet(S), NatOn(f, S), NEW T \in SUBSET S
  PROVE  SumFunctionOnSet(f, T) <= SumFunctionOnSet(f, S)
<1> DEFINE U == S \ T
           G == {t \in SUBSET U : SumFunctionOnSet(f, T) <= SumFunctionOnSet(f, T \union t)}
<1>0. IsFiniteSet(T) /\ NatOn(f, T) /\ IsFiniteSet(U)
  BY FS_Subset, Zenon DEF NatOn
<1>1. {} \in G
  <2>1. SumFunctionOnSet(f, T) \in Nat /\ T \union {} = T
    BY <1>0, SumNat, Zenon
  <2> QED
    BY <2>1
<1>2. ASSUME NEW t \in SUBSET U, t \in G, NEW x \in U \ t  PROVE t \union {x} \in G
  <2> DEFINE W == T \union t
  <2>1. W \in SUBSET S /\ x \notin W /\ W \union {x} = T \union (t \union {x})
    BY Zenon
  <2> HIDE DEF W
  <2>2. IsFiniteSet(W) /\ IntOn(f, W) /\ NatOn(f, W) /\ f[x] \in Nat /\ f[x] \in Int
    BY <2>1, FS_Subset DEF IntOn, NatOn
  <2>3. SumFunctionOnSet(f, W \union {x}) = SumFunctionOnSet(f, W) + f[x]
    BY <2>1, <2>2, SumAdd, Zenon
  <2>4. SumFunctionOnSet(f, W) \in Nat /\ SumFunctionOnSet(f, T) \in Nat
    BY <1>0, <2>2, SumNat, Zenon
  <2>5. SumFunctionOnSet(f, T) <= SumFunctionOnSet(f, W)
    BY <1>2, Zenon DEF W
  <2>6. SumFunctionOnSet(f, T) <= SumFunctionOnSet(f, W \union {x})
    BY <2>2, <2>3, <2>4, <2>5
  <2> QED
    BY <2>1, <2>6, Zenon
<1>3. U \in G
  <2> HIDE DEF G, U
  <2> QED
    BY <1>0, <1>1, <1>2, GrowsTo, Zenon
<1>4. T \union U = S
  BY Zenon
<1> QED
  BY <1>3, <1>4, Zenon

\* No summand is more than the sum.
LEMMA SumBounds ==
  ASSUME NEW f, NEW S, IsFiniteSet(S), NatOn(f, S), NEW x \in S
  PROVE  f[x] <= SumFunctionOnSet(f, S)
<1>1. IsFiniteSet(S \ {x}) /\ NatOn(f, S \ {x}) /\ IntOn(f, S) /\ f[x] \in Nat
  BY FS_RemoveElement DEF NatOn, IntOn
<1>2. SumFunctionOnSet(f, S \ {x}) \in Nat /\ SumFunctionOnSet(f, S) = f[x] + SumFunctionOnSet(f, S \ {x})
  BY <1>1, SumNat, SumTakes
<1> QED
  BY <1>1, <1>2

\* The sum of the sums of two functions.
LEMMA SumPlus ==
  ASSUME NEW f, NEW g, NEW h, NEW S, IsFiniteSet(S), IntOn(f, S), IntOn(g, S),
         \A x \in S : h[x] = f[x] + g[x]
  PROVE  SumFunctionOnSet(h, S) = SumFunctionOnSet(f, S) + SumFunctionOnSet(g, S)
<1> DEFINE sum(t) == SumFunctionOnSet(f, t) + SumFunctionOnSet(g, t)
           G == {t \in SUBSET S : SumFunctionOnSet(h, t) = sum(t)}
<1>1. {} \in G
  BY SumEmpty
<1>2. ASSUME NEW t \in SUBSET S, t \in G, NEW x \in S \ t  PROVE t \union {x} \in G
  <2>1. /\ IsFiniteSet(t) /\ IntOn(f, t) /\ IntOn(g, t) /\ IntOn(h, t)
        /\ f[x] \in Int /\ g[x] \in Int /\ h[x] \in Int /\ h[x] = f[x] + g[x]
    BY FS_Subset DEF IntOn
  <2>2. /\ SumFunctionOnSet(f, t \union {x}) = SumFunctionOnSet(f, t) + f[x]
        /\ SumFunctionOnSet(g, t \union {x}) = SumFunctionOnSet(g, t) + g[x]
        /\ SumFunctionOnSet(h, t \union {x}) = SumFunctionOnSet(h, t) + h[x]
        /\ SumFunctionOnSet(f, t) \in Int /\ SumFunctionOnSet(g, t) \in Int
    BY <2>1, SumAdd, SumInt
  <2> QED
    BY <1>2, <2>1, <2>2
<1> HIDE DEF G
<1>3. S \in G
  BY <1>1, <1>2, GrowsTo, Zenon
<1> QED
  BY <1>3, Zenon DEF G
\* Elements at which the function is zero may be left out of the sum.
LEMMA SumSupport ==
  ASSUME NEW f, NEW g, NEW S, IsFiniteSet(S), IntOn(g, S), NEW T \in SUBSET S,
         \A x \in T : f[x] = g[x], \A x \in S \ T : g[x] = 0
  PROVE  SumFunctionOnSet(f, T) = SumFunctionOnSet(g, S)
<1> DEFINE U == S \ T
           G == {t \in SUBSET U : SumFunctionOnSet(g, T \union t) = SumFunctionOnSet(g, T)}
<1>0. IsFiniteSet(T) /\ IntOn(g, T) /\ IntOn(f, T) /\ IsFiniteSet(U)
  BY FS_Subset, Zenon DEF IntOn
<1>1. {} \in G
  <2>1. T \union {} = T
    BY Zenon
  <2> QED
    BY <2>1, Zenon
<1>2. ASSUME NEW t \in SUBSET U, t \in G, NEW x \in U \ t  PROVE t \union {x} \in G
  <2> DEFINE W == T \union t
  <2>1. W \in SUBSET S /\ x \notin W /\ W \union {x} = T \union (t \union {x})
    BY Zenon
  <2> HIDE DEF W
  <2>2. IsFiniteSet(W) /\ IntOn(g, W) /\ g[x] = 0
    BY <2>1, FS_Subset, Zenon DEF IntOn
  <2>3. SumFunctionOnSet(g, W \union {x}) = SumFunctionOnSet(g, W) + 0
    BY <2>1, <2>2, SumAdd
  <2>4. SumFunctionOnSet(g, W) \in Int
    BY <2>2, SumInt, Zenon
  <2>5. SumFunctionOnSet(g, W) = SumFunctionOnSet(g, T)
    BY <1>2, Zenon DEF W
  <2>6. SumFunctionOnSet(g, W \union {x}) = SumFunctionOnSet(g, T)
    BY <2>3, <2>4, <2>5
  <2> QED
    BY <2>1, <2>6, Zenon
<1>3. U \in G
  <2> HIDE DEF G, U
  <2> QED
    BY <1>0, <1>1, <1>2, GrowsTo, Zenon
<1>4. T \union U = S
  BY Zenon
<1>5. SumFunctionOnSet(g, S) = SumFunctionOnSet(g, T)
  BY <1>3, <1>4, Zenon
<1>6. SumFunctionOnSet(f, T) = SumFunctionOnSet(g, T)
  BY <1>0, SumSame, Zenon
<1> QED
  BY <1>5, <1>6, Zenon

\* b lists the elements of T once each, and g is f along the list.
Lists(b, S, T, g, f) ==
  /\ \A i \in S : g[i] = f[b[i]] /\ b[i] \in T
  /\ \A i, j \in S : b[i] = b[j] => i = j
  /\ \A t \in T : \E i \in S : t = b[i]

\* The sum along a list of distinct elements is the sum over the elements.
LEMMA SumReindex ==
  ASSUME NEW f, NEW g, NEW b, NEW S, NEW T, IsFiniteSet(S), IntOn(g, S), Lists(b, S, T, g, f)
  PROVE  IsFiniteSet(T) /\ SumFunctionOnSet(g, S) = SumFunctionOnSet(f, T)
<1>0. /\ \A i \in S : g[i] = f[b[i]] /\ b[i] \in T
      /\ \A i, j \in S : b[i] = b[j] => i = j
      /\ \A t \in T : \E i \in S : t = b[i]
  BY Zenon DEF Lists
<1> DEFINE img(t) == {b[i] : i \in t}
           Good(t) == /\ IsFiniteSet(img(t)) /\ IntOn(f, img(t))
                      /\ SumFunctionOnSet(g, t) = SumFunctionOnSet(f, img(t))
           G == {t \in SUBSET S : Good(t)}
<1>1. {} \in G
  <2>1. img({}) = {}
    BY Zenon
  <2>2. Good({})
    BY <2>1, SumEmpty, FS_EmptySet, Zenon DEF IntOn
  <2> HIDE DEF Good
  <2> QED
    BY <2>2, Zenon
<1>2. ASSUME NEW t \in SUBSET S, t \in G, NEW x \in S \ t  PROVE t \union {x} \in G
  <2>1. img(t \union {x}) = img(t) \union {b[x]} /\ b[x] \notin img(t)
    BY <1>0
  <2>2. IsFiniteSet(t) /\ IntOn(g, t) /\ g[x] \in Int /\ f[b[x]] = g[x]
    BY <1>0, FS_Subset, Zenon DEF IntOn
  <2>3. Good(t)
    BY <1>2, Zenon
  <2>4. SumFunctionOnSet(g, t \union {x}) = SumFunctionOnSet(g, t) + g[x]
    BY <2>2, SumAdd, Zenon
  <2>5. SumFunctionOnSet(f, img(t) \union {b[x]}) = SumFunctionOnSet(f, img(t)) + f[b[x]]
    <3> HIDE DEF img
    <3> QED
      BY <2>1, <2>2, <2>3, SumAdd, Zenon
  <2>6. IsFiniteSet(img(t) \union {b[x]}) /\ IntOn(f, img(t) \union {b[x]})
    <3> HIDE DEF img
    <3> QED
      BY <2>2, <2>3, FS_AddElement, Zenon DEF IntOn
  <2>7. Good(t \union {x})
    <3> HIDE DEF img
    <3> QED
      BY <2>1, <2>2, <2>3, <2>4, <2>5, <2>6, Zenon
  <2> HIDE DEF Good
  <2> QED
    BY <2>7, Zenon
<1> HIDE DEF G
<1>3. S \in G
  BY <1>1, <1>2, GrowsTo, Zenon
<1>4. T = img(S)
  BY <1>0
<1> HIDE DEF img
<1> QED
  BY <1>3, <1>4, Zenon DEF G

=============================================================================
