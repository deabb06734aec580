------------------------- MODULE StateChannelProofs -------------------------
(***************************************************************************)
(* The payment channel, for every value of its constants: nonces and       *)
(* disputes, settlement in favour of the latest state, and the escrow      *)
(* that backs the open channels.                                           *)
(***************************************************************************)
EXTENDS StateChannel, TLAPS

-----------------------------------------------------------------------------
(* The bounds, one at a time.                                              *)

\* The watchtower's cut is at most the whole payout.
LEMMA RewardCap == MAX_REWARD_BPS \in Nat /\ MAX_REWARD_BPS <= BPS /\ BPS \in Nat \ {0}
BY ChannelBoundAssumption DEF BPS

\* A dispute is extended a natural number of times, by whole ledgers.
LEMMA ExtensionBounds == COUNTER_PROOF_EXTENSION_LEDGERS \in Nat /\ MAX_DISPUTE_EXTENSIONS \in Nat
BY Zenon, ChannelBoundAssumption

\* A challenge period is a number of ledgers.
LEMMA ChallengeBounds == DEFAULT_CHALLENGE_PERIOD \in Nat /\ MAX_CHALLENGE_PERIOD \in Nat
BY Zenon, ChannelBoundAssumption

\* Ledger sequences are natural numbers.
LEMMA LedgerBound == MaxLedger \in Nat
BY Zenon, ChannelBoundAssumption

\* The ledger is a natural number.
LEMMA NowNat == TypeOK => now \in Nat
<1>1. TypeOK => now \in 0..MaxLedger
  BY Zenon DEF TypeOK
<1> QED BY <1>1, LedgerBound

-----------------------------------------------------------------------------
(* The nonce window.                                                       *)

\* Division by the window size.
LEMMA Bucket ==
  ASSUME NEW n \in Nat
  PROVE  /\ n \div WINDOW_SIZE \in Nat
         /\ n % WINDOW_SIZE \in 0..(WINDOW_SIZE - 1)
         /\ n = WINDOW_SIZE * (n \div WINDOW_SIZE) + (n % WINDOW_SIZE)
BY WindowAssumption

\* A nonce beyond an aligned window lies in a later bucket.
LEMMA LaterBucket ==
  ASSUME NEW n \in Nat, NEW k \in Nat, n >= k * WINDOW_SIZE + WINDOW_SIZE
  PROVE  n \div WINDOW_SIZE >= k + 1
<1> DEFINE W == WINDOW_SIZE q == n \div WINDOW_SIZE r == n % WINDOW_SIZE
<1>1. W \in Nat \ {0} /\ q \in Nat /\ r \in 0..(W - 1) /\ n = W * q + r
  BY Zenon, Bucket, WindowAssumption
<1>2. n >= k * W + W  BY Zenon
<1> HIDE DEF W, q, r
<1>3. SUFFICES ASSUME q <= k PROVE FALSE
  BY <1>1 DEF q
<1>4. W * q <= W * k
  BY <1>3, <1>1
<1> QED
  BY <1>1, <1>2, <1>4

\* The window is aligned and remembers every nonce of the history u.
WindowGood(w, u) ==
  /\ \E k \in Nat : w.base = k * WINDOW_SIZE
  /\ \A n \in Nonces : u[n] > 0 => is_consumed(w, n)

\* The nonces are natural numbers.
LEMMA NoncesNat == Nonces \subseteq Nat
BY ChannelAssumption DEF Nonces, StateUpdate

\* A signed state is well typed and its nonce is one of Nonces.
LEMMA SignedTyped ==
  ASSUME NEW c \in Ids, NEW s \in Signed[c]
  PROVE  s.nonce \in Nonces /\ s.nonce \in Nat /\ s.balance \in Int
BY ChannelAssumption DEF Nonces, StateUpdate

\* consume keeps what the window remembers and remembers the new nonce.
LEMMA ConsumeGood ==
  ASSUME NEW w \in Window, NEW u \in [Nonces -> Nat], WindowGood(w, u),
         NEW n \in Nonces, ~is_consumed(w, n)
  PROVE  /\ consume(w, n) \in Window
         /\ WindowGood(consume(w, n), [u EXCEPT ![n] = @ + 1])
<1> DEFINE v == consume(w, n)
<1>1. n \in Nat /\ w.base \in Nat /\ n >= w.base /\ WINDOW_SIZE \in Nat \ {0}
      /\ w.bitmap \in SUBSET (0..(WINDOW_SIZE - 1))
  BY NoncesNat, WindowAssumption DEF Window, is_consumed
<1>2. PICK k \in Nat : w.base = k * WINDOW_SIZE
  BY Zenon DEF WindowGood
<1>3. CASE n >= w.base + WINDOW_SIZE
  <2> DEFINE q == n \div WINDOW_SIZE  r == n % WINDOW_SIZE  b == n - r
  <2>1. q \in Nat /\ r \in 0..(WINDOW_SIZE - 1) /\ b = q * WINDOW_SIZE
    BY Bucket, <1>1
  <2>2. q >= k + 1
    BY Zenon, <1>1, <1>2, <1>3, LaterBucket
  <2>3. v.base = b /\ v.bitmap = {r} /\ v = [base |-> b, bitmap |-> {r}]
    BY Zenon, <1>3 DEF consume
  <2> HIDE DEF b, q, r, v
  <2>4. q * WINDOW_SIZE >= (k + 1) * WINDOW_SIZE
    BY <1>1, <2>1, <2>2
  <2>5. b \in Nat /\ b >= w.base + WINDOW_SIZE
    BY <1>1, <1>2, <2>1, <2>4
  <2>6. v \in Window
    BY Zenon, <2>1, <2>3, <2>5 DEF Window
  <2>7. n - b = r
    BY <1>1, <2>1 DEF b
  <2>8. \A x \in Nonces : [u EXCEPT ![n] = @ + 1][x] > 0 => is_consumed(v, x)
    <3> SUFFICES ASSUME NEW x \in Nonces, [u EXCEPT ![n] = @ + 1][x] > 0
                 PROVE  is_consumed(v, x)
      BY Zenon
    <3>1. CASE x = n
      BY Zenon, <3>1, <2>3, <2>7 DEF is_consumed
    <3>2. CASE x # n
      <4>1. is_consumed(w, x) /\ x \in Nat
        BY Zenon, <3>2, NoncesNat DEF WindowGood
      <4>2. x < w.base + WINDOW_SIZE
        BY <4>1, <1>1 DEF is_consumed
      <4> QED
        BY <4>1, <4>2, <2>3, <2>5, <1>1 DEF is_consumed
    <3> QED BY Zenon, <3>1, <3>2
  <2> QED
    BY Zenon, <2>1, <2>3, <2>6, <2>8 DEF WindowGood, v
<1>4. CASE ~(n >= w.base + WINDOW_SIZE)
  <2> DEFINE o == n - w.base
  <2>1. o \in 0..(WINDOW_SIZE - 1)
    BY <1>1, <1>4
  <2> HIDE DEF o
  <2>2. v = [w EXCEPT !.bitmap = @ \cup {o}]
    BY Zenon, <1>4 DEF consume, o
  <2> HIDE DEF v
  <2>3. v \in Window /\ v.base = w.base /\ v.bitmap = w.bitmap \cup {o}
    BY Zenon, <2>1, <2>2 DEF Window
  <2>4. \A x \in Nonces : [u EXCEPT ![n] = @ + 1][x] > 0 => is_consumed(v, x)
    BY Zenon, <2>3, NoncesNat DEF is_consumed, WindowGood, o
  <2> QED
    BY Zenon, <1>2, <2>3, <2>4 DEF WindowGood, v
<1> QED
  BY Zenon, <1>3, <1>4

-----------------------------------------------------------------------------
(* Running totals.                                                         *)

\* The part of the reservation made by the i-th lock.
Weight(s, i) == IF s[i].state = "Pending" THEN s[i].amount ELSE 0

\* PendingTotal with a monotone running total over positive amounts: what
\* resolving and refunding a lock in the middle preserves.
RunningTotal(s, r) ==
  \E t \in [0..Len(s) -> 0..r] :
    /\ t[0] = 0
    /\ t[Len(s)] = r
    /\ \A i \in 1..Len(s) : t[i] = t[i - 1] + Weight(s, i)
    /\ \A i \in 0..Len(s), j \in 0..Len(s) : i <= j => t[i] <= t[j]

\* A running total gives the total, which is not negative.
LEMMA RunningIsTotal ==
  ASSUME NEW s, Len(s) \in Nat, NEW r \in Int, RunningTotal(s, r)
  PROVE  PendingTotal(s, r) /\ r >= 0
BY SMTT(30) DEF RunningTotal, PendingTotal, Weight

\* Adding a pending lock adds its amount.
LEMMA TotalAppend ==
  ASSUME NEW S, NEW s \in Seq(S), NEW e \in S, NEW r \in Int, RunningTotal(s, r),
         e.state = "Pending", NEW a \in Nat, e.amount = a
  PROVE  RunningTotal(Append(s, e), r + a)
<1> DEFINE n == Len(s)  z == Append(s, e)
<1>1. n \in Nat /\ Len(z) = n + 1 /\ z[n + 1] = e /\ \A i \in 1..n : z[i] = s[i]
  OBVIOUS
<1>2. PICK t \in [0..n -> 0..r] :
        /\ t[0] = 0
        /\ t[n] = r
        /\ \A i \in 1..n : t[i] = t[i - 1] + Weight(s, i)
        /\ \A i \in 0..n, j \in 0..n : i <= j => t[i] <= t[j]
  BY Zenon DEF RunningTotal
<1> DEFINE u == [i \in 0..(n + 1) |-> IF i <= n THEN t[i] ELSE r + a]
<1>3. Weight(z, n + 1) = a /\ \A i \in 1..n : Weight(z, i) = Weight(s, i)
  BY Zenon, <1>1 DEF Weight
<1> HIDE DEF n, z
<1>4. r \in Nat /\ \A i \in 0..n : t[i] \in 0..r
  BY <1>1, <1>2
<1>5. u \in [0..(n + 1) -> 0..(r + a)]
  BY <1>1, <1>4
<1>6. u[0] = 0 /\ u[n + 1] = r + a
  BY <1>1, <1>2
<1>7. \A i \in 1..(n + 1) : u[i] = u[i - 1] + Weight(z, i)
  <2> SUFFICES ASSUME NEW i \in 1..(n + 1) PROVE u[i] = u[i - 1] + Weight(z, i)
    BY Zenon
  <2>1. u[i - 1] = t[i - 1]
    BY <1>1
  <2>2. CASE i = n + 1
    BY <2>1, <2>2, <1>1, <1>2, <1>3, <1>6
  <2>3. CASE i # n + 1
    <3>1. i \in 1..n /\ u[i] = t[i]
      BY <2>3, <1>1
    <3> HIDE DEF u
    <3> QED BY Zenon, <2>1, <3>1, <1>2, <1>3
  <2> QED BY Zenon, <2>2, <2>3
<1>8. \A i \in 0..(n + 1), j \in 0..(n + 1) : i <= j => u[i] <= u[j]
  BY <1>1, <1>2, <1>4
<1> QED
  BY Zenon, <1>1, <1>5, <1>6, <1>7, <1>8 DEF RunningTotal, z

\* Settling the k-th lock, pending until now, takes its amount off the total.
LEMMA TotalSettle ==
  ASSUME NEW s, NEW z, NEW n \in Nat, Len(s) = n, Len(z) = n, NEW k \in 1..n,
         NEW a \in Nat, s[k].state = "Pending", s[k].amount = a,
         z[k].state # "Pending", \A i \in 1..n : i # k => z[i] = s[i],
         \A i \in 1..n : s[i].amount \in Int,
         NEW r \in Int, RunningTotal(s, r)
  PROVE  RunningTotal(z, r - a)
<1>2. PICK t \in [0..n -> 0..r] :
        /\ t[0] = 0
        /\ t[n] = r
        /\ \A i \in 1..n : t[i] = t[i - 1] + Weight(s, i)
        /\ \A i \in 0..n, j \in 0..n : i <= j => t[i] <= t[j]
  BY Zenon DEF RunningTotal
<1> DEFINE u == [i \in 0..n |-> IF i < k THEN t[i] ELSE t[i] - a]
<1>3. Weight(z, k) = 0 /\ Weight(s, k) = a
      /\ \A i \in 1..n : i # k => Weight(z, i) = Weight(s, i)
  BY Zenon DEF Weight
<1>4. r \in Nat /\ \A i \in 0..n : t[i] \in 0..r
  BY <1>2
<1>5. t[k] = t[k - 1] + a
  BY Zenon, <1>2, <1>3
<1>6. \A i \in 0..n : i < k => t[i] <= r - a
  BY <1>2, <1>4, <1>5
<1>7. \A i \in 0..n : i >= k => t[i] >= a
  BY <1>2, <1>4, <1>5
<1>8. u \in [0..n -> 0..(r - a)]
  <2> SUFFICES ASSUME NEW i \in 0..n
               PROVE  (IF i < k THEN t[i] ELSE t[i] - a) \in 0..(r - a)
    BY SMTT(20)
  <2>1. t[i] \in 0..r /\ (i < k => t[i] <= r - a) /\ (i >= k => t[i] >= a)
    BY Zenon, <1>4, <1>6, <1>7
  <2> QED BY SMTT(30), <2>1, <1>4
<1>9. u[0] = 0 /\ u[n] = r - a
  BY <1>2
<1>10. \A i \in 1..n : u[i] = u[i - 1] + Weight(z, i)
  <2> SUFFICES ASSUME NEW i \in 1..n PROVE u[i] = u[i - 1] + Weight(z, i)
    BY Zenon
  <2>1. CASE i = k
    BY <2>1, <1>3, <1>4, <1>5
  <2>2. CASE i < k
    <3>1. u[i] = t[i] /\ u[i - 1] = t[i - 1]
      BY <2>2
    <3> HIDE DEF u
    <3> QED BY <2>2, <3>1, <1>2, <1>3
  <2>3. CASE i > k
    <3>1. u[i] = t[i] - a /\ u[i - 1] = t[i - 1] - a
      BY <2>3
    <3>2. t[i] = t[i - 1] + Weight(z, i) /\ t[i] \in Nat /\ t[i - 1] \in Nat
      BY SMTT(20), <2>3, <1>2, <1>3, <1>4
    <3>3. Weight(z, i) = t[i] - t[i - 1] \/ Weight(z, i) \notin Int
      BY <3>2
    <3>4. Weight(z, i) \in Int
      BY <2>3, <1>3 DEF Weight
    <3> HIDE DEF u
    <3> QED BY <3>1, <3>2, <3>3, <3>4
  <2> QED BY <2>1, <2>2, <2>3
<1>11. \A i \in 0..n, j \in 0..n : i <= j => u[i] <= u[j]
  <2> SUFFICES ASSUME NEW i \in 0..n, NEW j \in 0..n, i <= j PROVE u[i] <= u[j]
    BY Zenon
  <2>1. t[i] <= t[j] /\ t[i] \in Nat /\ t[j] \in Nat
    BY <1>2, <1>4
  <2>2. CASE j < k
    BY <2>1, <2>2
  <2>3. CASE i < k /\ j >= k
    <3>0. k - 1 \in 0..n /\ k \in 0..n /\ i <= k - 1
      BY <2>3
    <3>1. t[i] <= t[k - 1] /\ t[k] <= t[j] /\ t[k - 1] \in Nat
      BY <2>3, <3>0, <1>2, <1>4
    <3> QED BY SMTT(30), <2>1, <2>3, <3>1, <1>5
  <2>4. CASE i >= k
    BY <2>1, <2>4
  <2> QED BY <2>2, <2>3, <2>4
<1> QED
  BY Zenon, <1>8, <1>9, <1>10, <1>11 DEF RunningTotal

\* Without locks nothing is reserved.
LEMMA TotalEmpty == RunningTotal(<<>>, 0)
<1> DEFINE t == [i \in 0..0 |-> 0]
<1>1. Len(<<>>) = 0
  BY Zenon
<1>2. t \in [0..0 -> 0..0] /\ t[0] = 0
  OBVIOUS
<1>3. \A i \in 0..0, j \in 0..0 : i <= j => t[i] <= t[j]
  BY <1>2
<1> HIDE DEF t
<1>4. \A i \in 1..0 : t[i] = t[i - 1] + Weight(<<>>, i)
  OBVIOUS
<1> QED
  BY Zenon, <1>1, <1>2, <1>3, <1>4 DEF RunningTotal

-----------------------------------------------------------------------------
(* The inductive invariant.                                                *)

\* A channel's record: its window remembers the accepted nonces, the window
\* of a dispute grew by the counted extensions, unopened ids are unused.
RecordOK(c) ==
  /\ \A n \in Nonces : uses[c][n] <= 1
  /\ channels[c] # None => WindowGood(channels[c].nonce_window, uses[c])
  /\ Phase(c) = "Disputed" =>
       /\ channels[c].dispute_extensions <= MAX_DISPUTE_EXTENSIONS
       /\ channels[c].disputed_at = filed_at[c]
            + channels[c].dispute_extensions * COUNTER_PROOF_EXTENSION_LEDGERS
  /\ c > count => channels[c] = None /\ uses[c] = [n \in Nonces |-> 0]

\* A channel's locks: positive amounts, reservations with running totals.
LocksOK(c) ==
  /\ \A i \in DOMAIN locks[c].htlcs : locks[c].htlcs[i].amount > 0
  /\ \A i \in DOMAIN locks[c].payments : locks[c].payments[i].amount > 0
  /\ RunningTotal(locks[c].htlcs, locks[c].htlc_reserved)
  /\ RunningTotal(locks[c].payments, locks[c].hashlock_reserved)

\* The inductive invariant: types, sound records and exact reservations.
ChanInv ==
  /\ TypeOK
  /\ \A c \in Ids : RecordOK(c)
  /\ \A c \in Ids : LocksOK(c)

\* A channel in a live phase has a record.
LEMMA LivePhase ==
  ASSUME TypeOK, NEW c \in Ids, Phase(c) # "none"
  PROVE  /\ channels[c] \in Channel /\ channels[c] # None
         /\ channels[c].phase = Phase(c)
BY Zenon, ChannelAssumption DEF TypeOK, Phase

\* The fields of a record have their types.
LEMMA ChannelFields ==
  ASSUME NEW ch \in Channel
  PROVE  /\ ch.amount \in Int /\ ch.nonce \in Nat /\ ch.balance \in Int
         /\ ch.phase \in Phases /\ ch.opened_at \in Nat /\ ch.closed_at \in Nat
         /\ ch.disputed_at \in Nat /\ ch.dispute_extensions \in Nat
         /\ ch.challenge_period \in Nat /\ ch.nonce_window \in Window
BY Zenon DEF Channel

\* Recording a state keeps the record's type and consumes a fresh nonce.
LEMMA RecordedTyped ==
  ASSUME TypeOK, NEW c \in Ids, channels[c] \in Channel,
         RecordOK(c), channels[c] # None,
         NEW s \in Signed[c], NEW b \in Int
  PROVE  LET r == Recorded(c, s, b)
             w == channels[c].nonce_window
         IN  /\ r \in Channel
             /\ r.nonce_window = IF is_consumed(w, s.nonce) THEN w ELSE consume(w, s.nonce)
             /\ r.balance = b /\ r.amount = channels[c].amount
             /\ r.phase = channels[c].phase
             /\ r.disputed_at = channels[c].disputed_at
             /\ r.dispute_extensions = channels[c].dispute_extensions
<1> DEFINE w == channels[c].nonce_window
           v == IF is_consumed(w, s.nonce) THEN w ELSE consume(w, s.nonce)
           m == HighWater(channels[c].nonce, s.nonce)
<1>1. s.nonce \in Nonces /\ s.nonce \in Nat
  BY Zenon, SignedTyped
<1>2. w \in Window /\ channels[c].nonce \in Nat
  BY Zenon, ChannelFields
<1>3. v \in Window
  <2>1. uses[c] \in [Nonces -> Nat] /\ WindowGood(w, uses[c])
    BY Zenon DEF TypeOK, RecordOK
  <2> QED
    BY Zenon, <1>1, <1>2, <2>1, ConsumeGood
<1>4. m \in Nat
  BY Zenon, <1>1, <1>2 DEF HighWater
<1>5. Recorded(c, s, b) = [channels[c] EXCEPT !.nonce_window = v, !.nonce = m, !.balance = b]
  BY Zenon DEF Recorded
<1> HIDE DEF v, m
<1> QED
  BY Zenon, <1>3, <1>4, <1>5 DEF Channel, v, w

\* Counting the use of a recorded nonce keeps what the window remembers.
LEMMA UseCounted ==
  ASSUME TypeOK, NEW c \in Ids, channels[c] \in Channel, channels[c] # None,
         RecordOK(c), NEW s \in Signed[c], NEW b \in Int, CountUse(c, s)
  PROVE  /\ uses' \in [Ids -> [Nonces -> Nat]]
         /\ \A d \in Ids : d # c => uses'[d] = uses[d]
         /\ \A n \in Nonces : uses'[c][n] <= 1
         /\ WindowGood(Recorded(c, s, b).nonce_window, uses'[c])
<1> DEFINE w == channels[c].nonce_window  u == uses[c]
<1>1. s.nonce \in Nonces /\ s.nonce \in Nat
  BY Zenon, SignedTyped
<1>2. w \in Window /\ u \in [Nonces -> Nat] /\ WindowGood(w, u)
      /\ \A n \in Nonces : u[n] <= 1
  BY Zenon, ChannelFields DEF TypeOK, RecordOK
<1>3. Recorded(c, s, b).nonce_window
        = IF is_consumed(w, s.nonce) THEN w ELSE consume(w, s.nonce)
  BY Zenon, RecordedTyped
<1>4. CASE is_consumed(w, s.nonce)
  BY Zenon, <1>2, <1>3, <1>4 DEF CountUse, TypeOK
<1>5. CASE ~is_consumed(w, s.nonce)
  <2> DEFINE x == [u EXCEPT ![s.nonce] = @ + 1]
  <2>1. u[s.nonce] = 0
    BY <1>1, <1>2, <1>5 DEF WindowGood
  <2>2. x \in [Nonces -> Nat] /\ \A n \in Nonces : x[n] <= 1
    BY <1>1, <1>2, <2>1
  <2>3. WindowGood(consume(w, s.nonce), x)
    BY Zenon, <1>1, <1>2, <1>5, ConsumeGood
  <2>4. uses' = [uses EXCEPT ![c] = x]
    BY Zenon, <1>5 DEF CountUse
  <2> HIDE DEF x
  <2>5. uses'[c] = x /\ uses' \in [Ids -> [Nonces -> Nat]]
        /\ \A d \in Ids : d # c => uses'[d] = uses[d]
    BY Zenon, <2>2, <2>4 DEF TypeOK
  <2> QED
    BY Zenon, <1>3, <1>5, <2>2, <2>3, <2>5
<1> QED
  BY Zenon, <1>4, <1>5

\* A step that records a state keeps every record in order.
LEMMA RecordStep ==
  ASSUME ChanInv, NEW c \in Ids, channels[c] # None,
         NEW s \in Signed[c], NEW b \in Int, NEW ch \in Channel,
         ch.nonce_window = Recorded(c, s, b).nonce_window,
         channels' = [channels EXCEPT ![c] = ch], CountUse(c, s), count' = count,
         filed_at' \in [Ids -> Nat], \A d \in Ids : d # c => filed_at'[d] = filed_at[d],
         ch.phase = "Disputed" =>
           /\ ch.dispute_extensions <= MAX_DISPUTE_EXTENSIONS
           /\ ch.disputed_at = filed_at'[c]
                + ch.dispute_extensions * COUNTER_PROOF_EXTENSION_LEDGERS
  PROVE  /\ channels' \in [Ids -> Channel \cup {None}]
         /\ uses' \in [Ids -> [Nonces -> Nat]]
         /\ \A d \in Ids : RecordOK(d)'
<1>1. channels[c] \in Channel /\ RecordOK(c) /\ TypeOK
  BY Zenon DEF ChanInv, TypeOK
<1>2. /\ uses' \in [Ids -> [Nonces -> Nat]]
      /\ \A d \in Ids : d # c => uses'[d] = uses[d]
      /\ \A n \in Nonces : uses'[c][n] <= 1
      /\ WindowGood(ch.nonce_window, uses'[c])
  BY Zenon, <1>1, UseCounted
<1>3. channels' \in [Ids -> Channel \cup {None}] /\ channels'[c] = ch
      /\ \A d \in Ids : d # c => channels'[d] = channels[d]
  BY Zenon, <1>1 DEF TypeOK
<1>4. c <= count
  <2>1. c \in Nat /\ count \in Nat
    BY Zenon, <1>1, ChannelAssumption DEF TypeOK
  <2> QED BY <1>1, <2>1 DEF RecordOK
<1>5. ASSUME NEW d \in Ids PROVE RecordOK(d)'
  <2>1. CASE d = c
    <3>1. ch # None
      BY Zenon, ChannelAssumption
    <3>2. ~(c > count')
      <4>1. c \in Nat /\ count \in Nat
        BY Zenon, <1>1, ChannelAssumption DEF TypeOK
      <4> QED BY <1>4, <4>1
    <3> QED
      BY Zenon, <2>1, <3>1, <3>2, <1>2, <1>3 DEF RecordOK, Phase
  <2>2. CASE d # c
    <3>1. RecordOK(d)
      BY Zenon DEF ChanInv
    <3> QED
      BY Zenon, <2>2, <3>1, <1>2, <1>3 DEF RecordOK, Phase
  <2> QED BY Zenon, <2>1, <2>2
<1> QED
  BY Zenon, <1>2, <1>3, <1>5

\* A step that leaves the window of a record alone, and the record not in
\* dispute, keeps every record in order.
LEMMA RecordKept ==
  ASSUME ChanInv, NEW c \in Ids, channels[c] # None, NEW ch \in Channel \cup {None},
         channels' = [channels EXCEPT ![c] = ch],
         ch # None => ch.nonce_window = channels[c].nonce_window /\ ch.phase # "Disputed",
         UNCHANGED <<count, uses, filed_at>>
  PROVE  /\ channels' \in [Ids -> Channel \cup {None}]
         /\ \A d \in Ids : RecordOK(d)'
<1>1. TypeOK /\ RecordOK(c)
  BY Zenon DEF ChanInv
<1>3. channels' \in [Ids -> Channel \cup {None}] /\ channels'[c] = ch
      /\ \A d \in Ids : d # c => channels'[d] = channels[d]
  BY Zenon, <1>1 DEF TypeOK
<1>5. ASSUME NEW d \in Ids PROVE RecordOK(d)'
  <2>1. RecordOK(d)
    BY Zenon DEF ChanInv
  <2>2. CASE d = c
    BY Zenon, <2>1, <2>2, <1>3 DEF RecordOK, Phase
  <2>3. CASE d # c
    BY Zenon, <2>1, <2>3, <1>3 DEF RecordOK, Phase
  <2> QED BY Zenon, <2>2, <2>3
<1> QED
  BY Zenon, <1>3, <1>5

-----------------------------------------------------------------------------
(* Every entry point preserves the invariant.                              *)

\* What a payment out of the contract does.
LEMMA PayOutTyped ==
  ASSUME TypeOK, NEW c \in Ids, NEW s \in Int, NEW r \in Int, NEW w \in Int,
         PayOut(c, s, r, w)
  PROVE  /\ pool' \in Nat /\ flows' \in [Ids -> Flows]
         /\ \A d \in Ids : d # c => flows'[d] = flows[d]
         /\ flows'[c].in = flows[c].in
         /\ flows'[c].sender = flows[c].sender + s
         /\ PaidOut(flows'[c]) = PaidOut(flows[c]) + (s + r + w)
<1> DEFINE f == flows[c]
           x == f.sender + s  y == f.receiver + r  z == f.watchtower + w
           g == [in |-> f.in, sender |-> x, receiver |-> y, watchtower |-> z]
<1>1. f \in Flows /\ f.in \in Int /\ f.sender \in Int /\ f.receiver \in Int
      /\ f.watchtower \in Int
  BY Zenon DEF TypeOK, Flows
<1>2. x \in Int /\ y \in Int /\ z \in Int
  BY <1>1
<1>3. x + y + z = (f.sender + f.receiver + f.watchtower) + (s + r + w)
  BY <1>1
<1>4. flows' = [flows EXCEPT ![c].sender = x, ![c].receiver = y, ![c].watchtower = z]
  BY Zenon DEF PayOut, TypeOK, Flows
<1>5. pool' \in Nat
  BY DEF PayOut, TypeOK
<1>6. x = f.sender + s
  BY Zenon
<1> HIDE DEF x, y, z
<1>7. g \in Flows
  BY Zenon, <1>1, <1>2 DEF Flows
<1>8. flows'[c] = g
  BY Zenon, <1>1, <1>2, <1>4 DEF TypeOK, Flows
<1>9. flows' \in [Ids -> Flows] /\ \A d \in Ids : d # c => flows'[d] = flows[d]
  BY Zenon, <1>4, <1>7, <1>8 DEF TypeOK
<1> QED
  BY <1>3, <1>5, <1>6, <1>8, <1>9 DEF PaidOut

\* What a payment into the contract does.
LEMMA PayInTyped ==
  ASSUME TypeOK, NEW c \in Ids, NEW a \in Nat, PayIn(c, a)
  PROVE  /\ pool' \in Nat /\ flows' \in [Ids -> Flows]
         /\ \A d \in Ids : d # c => flows'[d] = flows[d]
         /\ flows'[c].in = flows[c].in + a
         /\ flows'[c].sender = flows[c].sender
         /\ PaidOut(flows'[c]) = PaidOut(flows[c])
<1> DEFINE x == flows[c].in + a
<1>1. flows[c] \in Flows /\ flows[c].in \in Int
  BY Zenon DEF TypeOK, Flows
<1>2. x \in Int /\ pool' \in Nat
  BY <1>1 DEF PayIn, TypeOK
<1>3. flows' = [flows EXCEPT ![c].in = x]
  BY Zenon DEF PayIn
<1>4. x = flows[c].in + a
  BY Zenon
<1> HIDE DEF x
<1>5. flows' \in [Ids -> Flows] /\ flows'[c] = [flows[c] EXCEPT !.in = x]
      /\ \A d \in Ids : d # c => flows'[d] = flows[d]
  BY Zenon, <1>1, <1>2, <1>3 DEF TypeOK, Flows
<1>6. flows'[c].in = x /\ flows'[c].sender = flows[c].sender
      /\ flows'[c].receiver = flows[c].receiver
      /\ flows'[c].watchtower = flows[c].watchtower
  BY Zenon, <1>1, <1>5 DEF Flows
<1> QED
  BY Zenon, <1>2, <1>4, <1>5, <1>6 DEF PaidOut

\* Locks that stay as they are stay in order.
LEMMA LocksKept ==
  ASSUME ChanInv, UNCHANGED locks
  PROVE  locks' \in [Ids -> Locks] /\ \A d \in Ids : LocksOK(d)'
BY Zenon DEF ChanInv, TypeOK, LocksOK

\* A ledger closes.
LEMMA TickKeeps == ASSUME ChanInv, Tick PROVE ChanInv'
<1>1. TypeOK'
  <2>1. TypeOK /\ now' \in 0..MaxLedger
    BY LedgerBound DEF ChanInv, TypeOK, Tick
  <2> QED BY Zenon, <2>1 DEF TypeOK, Tick
<1>2. \A d \in Ids : RecordOK(d)'
  BY Zenon DEF ChanInv, RecordOK, Phase, Tick
<1>3. \A d \in Ids : LocksOK(d)'
  BY Zenon, LocksKept DEF Tick
<1> QED BY Zenon, <1>1, <1>2, <1>3 DEF ChanInv

\* A channel is opened under an unused id with an empty window.
LEMMA OpenKeeps ==
  ASSUME ChanInv, NEW a \in Amounts, NEW p \in ChallengePeriods, open_channel(a, p)
  PROVE  ChanInv'
<1> DEFINE c == count + 1
           e == effective_challenge_period(p)
           ch == [ amount |-> a, nonce |-> 0, balance |-> 0, phase |-> "Open",
                   opened_at |-> now, closed_at |-> 0, disputed_at |-> 0,
                   dispute_extensions |-> 0, challenge_period |-> e,
                   nonce_window |-> empty ]
<1>1. TypeOK /\ c \in Ids /\ a \in Nat /\ p \in Nat /\ now \in Nat /\ count \in Nat
  BY ChannelAssumption DEF ChanInv, TypeOK, open_channel
<1>2. e \in Nat
  BY Zenon, <1>1, ChallengeBounds DEF effective_challenge_period
<1>3. empty \in Window
  BY Zenon DEF empty, Window
<1>4. channels' = [channels EXCEPT ![c] = ch] /\ count' = c /\ PayIn(c, a)
      /\ UNCHANGED <<now, receiver_keys, locks, bounties, uses, filed_at>>
  BY Zenon DEF open_channel
<1>5. \A d \in Ids : d \in Nat /\ (d > c => d > count) /\ c > count /\ ~(c > c)
  BY <1>1, ChannelAssumption
<1> HIDE DEF c, e
<1>6. ch \in Channel
  BY <1>1, <1>2, <1>3 DEF Channel, Phases
<1>7. ch.phase = "Open" /\ ch.nonce_window = empty
  BY Zenon
<1> HIDE DEF ch
<1>8. channels' \in [Ids -> Channel \cup {None}] /\ channels'[c] = ch
      /\ \A d \in Ids : d # c => channels'[d] = channels[d]
  BY Zenon, <1>1, <1>4, <1>6 DEF TypeOK
<1>9. TypeOK'
  BY <1>1, <1>4, <1>8, PayInTyped DEF TypeOK, c
<1>10. ASSUME NEW d \in Ids PROVE RecordOK(d)'
  <2>1. RecordOK(d)
    BY Zenon DEF ChanInv
  <2>2. CASE d = c
    <3>1. uses[c] = [n \in Nonces |-> 0]
      BY Zenon, <2>1, <2>2, <1>5 DEF RecordOK
    <3>2. empty.base = 0 * WINDOW_SIZE
      BY WindowAssumption DEF empty
    <3>3. WindowGood(empty, uses[c])
      BY <3>1, <3>2 DEF WindowGood
    <3> QED
      BY SMTT(20), <2>2, <3>1, <3>3, <1>1, <1>4, <1>5, <1>7, <1>8 DEF RecordOK, Phase
  <2>3. CASE d # c
    BY Zenon, <2>1, <2>3, <1>4, <1>5, <1>8 DEF RecordOK, Phase
  <2> QED BY Zenon, <2>2, <2>3
<1> QED
  BY Zenon, <1>4, <1>9, <1>10, LocksKept DEF ChanInv

\* A signed state is recorded.
LEMMA UpdateKeeps ==
  ASSUME ChanInv, NEW c \in Ids, NEW s \in Signed[c], update_state(c, s)
  PROVE  ChanInv'
<1> DEFINE ch == Recorded(c, s, s.balance)
<1>1. TypeOK /\ RecordOK(c) /\ s.balance \in Int
      /\ channels[c] \in Channel /\ channels[c] # None /\ channels[c].phase = "Open"
  BY Zenon, LivePhase, SignedTyped DEF ChanInv, update_state
<1>2. ch \in Channel /\ ch.phase = "Open"
  BY Zenon, <1>1, RecordedTyped
<1>3. channels' = [channels EXCEPT ![c] = ch] /\ CountUse(c, s)
      /\ UNCHANGED <<now, count, receiver_keys, locks, bounties, pool, flows, filed_at>>
  BY Zenon DEF update_state
<1> HIDE DEF ch
<1>4. /\ channels' \in [Ids -> Channel \cup {None}]
      /\ uses' \in [Ids -> [Nonces -> Nat]]
      /\ \A d \in Ids : RecordOK(d)'
  <2>1. filed_at' \in [Ids -> Nat]
    BY Zenon, <1>1, <1>3 DEF TypeOK
  <2>2. ch.nonce_window = Recorded(c, s, s.balance).nonce_window
    BY Zenon DEF ch
  <2> QED
    BY Zenon, <1>1, <1>2, <1>3, <2>1, <2>2, RecordStep
<1>5. TypeOK'
  BY Zenon, <1>1, <1>3, <1>4 DEF TypeOK
<1> QED
  BY Zenon, <1>3, <1>4, <1>5, LocksKept DEF ChanInv

\* A close records a state; what happens to the locks is given.
LEMMA CloseKeeps ==
  ASSUME ChanInv, NEW c \in Ids, NEW s \in Signed[c], NEW b \in Int,
         Phase(c) = "Open", RecordClose(c, s, b),
         locks' \in [Ids -> Locks], \A d \in Ids : LocksOK(d)'
  PROVE  ChanInv'
<1> DEFINE r == Recorded(c, s, b)
           ch == [r EXCEPT !.phase = "Closed", !.closed_at = now]
<1>1. TypeOK /\ RecordOK(c) /\ now \in Nat
      /\ channels[c] \in Channel /\ channels[c] # None /\ channels[c].phase = "Open"
  <2>1. TypeOK /\ RecordOK(c)
    BY Zenon DEF ChanInv
  <2> QED BY Zenon, <2>1, LivePhase, NowNat
<1>2. r \in Channel
  BY Zenon, <1>1, RecordedTyped
<1>3. channels' = [channels EXCEPT ![c] = ch] /\ CountUse(c, s)
      /\ UNCHANGED <<now, count, receiver_keys, bounties, pool, flows, filed_at>>
  BY Zenon DEF RecordClose
<1>4. r.nonce_window = Recorded(c, s, b).nonce_window
  BY Zenon
<1> HIDE DEF r
<1>5. ch \in Channel /\ ch.phase = "Closed" /\ ch.nonce_window = r.nonce_window
  BY Zenon, <1>1, <1>2 DEF Channel, Phases
<1> HIDE DEF ch
<1>6. /\ channels' \in [Ids -> Channel \cup {None}]
      /\ uses' \in [Ids -> [Nonces -> Nat]]
      /\ \A d \in Ids : RecordOK(d)'
  <2>1. filed_at' \in [Ids -> Nat] /\ ch.nonce_window = Recorded(c, s, b).nonce_window
        /\ ch.phase # "Disputed"
    BY Zenon, <1>1, <1>3, <1>4, <1>5 DEF TypeOK
  <2> QED
    BY ZenonT(30), <1>1, <1>3, <1>5, <2>1, RecordStep
<1>7. TypeOK'
  BY Zenon, <1>1, <1>3, <1>6 DEF TypeOK
<1> QED
  BY Zenon, <1>6, <1>7 DEF ChanInv

\* A dispute starts with no extension at the ledger it is filed in.
LEMMA DisputeKeeps ==
  ASSUME ChanInv, NEW c \in Ids, NEW s \in Signed[c], dispute(c, s)
  PROVE  ChanInv'
<1> DEFINE r == Recorded(c, s, s.balance)
           ch == [r EXCEPT !.phase = "Disputed", !.disputed_at = now,
                           !.dispute_extensions = 0]
<1>1. TypeOK /\ RecordOK(c) /\ now \in Nat /\ s.balance \in Int
      /\ channels[c] \in Channel /\ channels[c] # None
  <2>1. TypeOK /\ RecordOK(c)
    BY Zenon DEF ChanInv
  <2>2. Phase(c) \in {"Open", "Closed"}
    BY Zenon DEF dispute
  <2> QED BY Zenon, <2>1, <2>2, LivePhase, SignedTyped, NowNat
<1>2. r \in Channel
  BY Zenon, <1>1, RecordedTyped
<1>3. channels' = [channels EXCEPT ![c] = ch] /\ CountUse(c, s)
      /\ filed_at' = [filed_at EXCEPT ![c] = now]
      /\ UNCHANGED <<now, count, receiver_keys, locks, bounties, pool, flows>>
  BY Zenon DEF dispute
<1>4. r.nonce_window = Recorded(c, s, s.balance).nonce_window
  OBVIOUS
<1> HIDE DEF r
<1>5. ch \in Channel /\ ch.disputed_at = now /\ ch.dispute_extensions = 0
      /\ ch.nonce_window = r.nonce_window
  BY Zenon, <1>1, <1>2 DEF Channel, Phases
<1> HIDE DEF ch
<1>6. /\ filed_at' \in [Ids -> Nat] /\ filed_at'[c] = now
      /\ \A d \in Ids : d # c => filed_at'[d] = filed_at[d]
  BY Zenon, <1>1, <1>3 DEF TypeOK
<1>7. /\ ch.dispute_extensions <= MAX_DISPUTE_EXTENSIONS
      /\ ch.disputed_at = filed_at'[c]
           + ch.dispute_extensions * COUNTER_PROOF_EXTENSION_LEDGERS
  BY <1>1, <1>5, <1>6, ExtensionBounds
<1>8. /\ channels' \in [Ids -> Channel \cup {None}]
      /\ uses' \in [Ids -> [Nonces -> Nat]]
      /\ \A d \in Ids : RecordOK(d)'
  <2>1. ch.nonce_window = Recorded(c, s, s.balance).nonce_window
    BY Zenon, <1>4, <1>5
  <2> QED
    BY Zenon, <1>1, <1>3, <1>5, <1>6, <1>7, <2>1, RecordStep
<1>9. TypeOK'
  BY Zenon, <1>1, <1>3, <1>6, <1>8 DEF TypeOK
<1> QED
  BY Zenon, <1>3, <1>8, <1>9, LocksKept DEF ChanInv

\* Late counter-evidence extends a dispute only while the cap is not reached.
LEMMA CounterEvidenceKeeps ==
  ASSUME ChanInv, NEW c \in Ids, NEW s \in Signed[c], CounterEvidence(c, s),
         bounties' \in [Ids -> WatchtowerBounty]
  PROVE  ChanInv'
<1> DEFINE r == Recorded(c, s, s.balance)
           E == COUNTER_PROOF_EXTENSION_LEDGERS
           at == r.disputed_at + E
           n == r.dispute_extensions + 1
           ch == extend_window_on_late_counter_proof(c, r)
<1>1. TypeOK /\ RecordOK(c) /\ now \in Nat /\ s.balance \in Int
      /\ channels[c] \in Channel /\ channels[c] # None /\ Phase(c) = "Disputed"
  <2>1. TypeOK /\ RecordOK(c)
    BY Zenon DEF ChanInv
  <2>2. Phase(c) = "Disputed"
    BY ZenonT(30) DEF CounterEvidence
  <2> QED BY Zenon, <2>1, <2>2, LivePhase, SignedTyped, NowNat
<1>2. r \in Channel /\ r.disputed_at = channels[c].disputed_at
      /\ r.dispute_extensions = channels[c].dispute_extensions
  BY Zenon, <1>1, RecordedTyped
<1>3. channels' = [channels EXCEPT ![c] = ch] /\ CountUse(c, s)
      /\ (LateCounterProof(c) => MayExtend(c))
      /\ UNCHANGED <<now, count, receiver_keys, locks, pool, flows, filed_at>>
  BY Zenon DEF CounterEvidence
<1>4. r.nonce_window = Recorded(c, s, s.balance).nonce_window
  BY Zenon
<1>5. E \in Nat /\ at \in Nat /\ n \in Nat /\ MAX_DISPUTE_EXTENSIONS \in Nat
      /\ filed_at[c] \in Nat /\ r.dispute_extensions \in Nat
  <2>1. E \in Nat /\ MAX_DISPUTE_EXTENSIONS \in Nat /\ filed_at[c] \in Nat
    BY Zenon, <1>1, ExtensionBounds DEF TypeOK
  <2>2. channels[c].disputed_at \in Nat /\ channels[c].dispute_extensions \in Nat
    BY Zenon, <1>1, ChannelFields
  <2> HIDE DEF r
  <2> QED BY <1>2, <2>1, <2>2
<1>6. /\ r.dispute_extensions <= MAX_DISPUTE_EXTENSIONS
      /\ r.disputed_at = filed_at[c] + r.dispute_extensions * E
  BY Zenon, <1>1, <1>2 DEF RecordOK
<1>7. MayExtend(c) => n <= MAX_DISPUTE_EXTENSIONS
  BY <1>2, <1>5 DEF MayExtend
<1>8. at = filed_at[c] + n * E
  <2>1. n * E = r.dispute_extensions * E + E
    BY <1>5
  <2> QED BY <1>5, <1>6, <2>1
<1>9. ch = IF LateCounterProof(c)
           THEN [r EXCEPT !.disputed_at = at, !.dispute_extensions = n] ELSE r
  BY Zenon DEF extend_window_on_late_counter_proof
<1> HIDE DEF r, at, n, E, ch
<1>10. /\ ch \in Channel /\ ch.nonce_window = r.nonce_window
       /\ ch.dispute_extensions <= MAX_DISPUTE_EXTENSIONS
       /\ ch.disputed_at = filed_at[c] + ch.dispute_extensions * E
  <2>1. CASE LateCounterProof(c)
    <3>1. ch \in Channel /\ ch.nonce_window = r.nonce_window
          /\ ch.dispute_extensions = n /\ ch.disputed_at = at
      BY Zenon, <2>1, <1>2, <1>5, <1>9 DEF Channel
    <3> QED BY Zenon, <2>1, <3>1, <1>3, <1>7, <1>8
  <2>2. CASE ~LateCounterProof(c)
    BY Zenon, <2>2, <1>2, <1>6, <1>9
  <2> QED BY Zenon, <2>1, <2>2
<1>11. /\ channels' \in [Ids -> Channel \cup {None}]
       /\ uses' \in [Ids -> [Nonces -> Nat]]
       /\ \A d \in Ids : RecordOK(d)'
  <2>1. ch.nonce_window = Recorded(c, s, s.balance).nonce_window
    BY Zenon, <1>4, <1>10
  <2>2. filed_at' \in [Ids -> Nat] /\ \A d \in Ids : filed_at'[d] = filed_at[d]
    BY Zenon, <1>1, <1>3 DEF TypeOK
  <2> QED
    BY Zenon, <1>1, <1>3, <1>10, <2>1, <2>2, RecordStep DEF E
<1>12. TypeOK'
  BY Zenon, <1>1, <1>3, <1>11 DEF TypeOK
<1> QED
  BY Zenon, <1>3, <1>11, <1>12, LocksKept DEF ChanInv

\* Bounties change nothing else.
LEMMA BountyTyped ==
  ASSUME TypeOK, NEW c \in Ids
  PROVE  /\ \A r \in Nat : [bounties EXCEPT ![c].reward_bps = r] \in [Ids -> WatchtowerBounty]
         /\ \A w \in BOOLEAN : [bounties EXCEPT ![c].watchtower = w] \in [Ids -> WatchtowerBounty]
<1>1. bounties \in [Ids -> WatchtowerBounty] /\ bounties[c] \in WatchtowerBounty
  BY Zenon DEF TypeOK
<1>2. \A r \in Nat : [bounties[c] EXCEPT !.reward_bps = r] \in WatchtowerBounty
  BY Zenon, <1>1 DEF WatchtowerBounty
<1>3. \A w \in BOOLEAN : [bounties[c] EXCEPT !.watchtower = w] \in WatchtowerBounty
  BY Zenon, <1>1 DEF WatchtowerBounty
<1> QED
  BY Zenon, <1>1, <1>2, <1>3

\* Setting a bounty and registering a key.
LEMMA AsideKeeps ==
  ASSUME ChanInv, NEW c \in Ids,
         (\E r \in Rewards : set_watchtower_bounty(c, r)) \/ register_receiver_key(c)
  PROVE  ChanInv'
<1>1. bounties' \in [Ids -> WatchtowerBounty] /\ receiver_keys' \subseteq Ids
      /\ UNCHANGED <<now, count, channels, locks, pool, flows, uses, filed_at>>
  <2>0. TypeOK
    BY Zenon DEF ChanInv
  <2>1. ASSUME NEW r \in Rewards, set_watchtower_bounty(c, r) PROVE <1>1!:
    <3>1. r \in Nat
      BY Zenon, ChannelAssumption
    <3>2. [bounties EXCEPT ![c].reward_bps = r] \in [Ids -> WatchtowerBounty]
      BY Zenon, <2>0, <3>1, BountyTyped
    <3> QED BY Zenon, <2>0, <2>1, <3>2 DEF TypeOK, set_watchtower_bounty
  <2>2. ASSUME register_receiver_key(c) PROVE <1>1!:
    BY Zenon, <2>0, <2>2 DEF TypeOK, register_receiver_key
  <2> QED BY Zenon, <2>1, <2>2
<1>2. TypeOK'
  BY Zenon, <1>1 DEF ChanInv, TypeOK
<1>3. \A d \in Ids : RecordOK(d)'
  BY Zenon, <1>1 DEF ChanInv, RecordOK, Phase
<1> QED
  BY Zenon, <1>1, <1>2, <1>3, LocksKept DEF ChanInv

\* The reward is an integer.
LEMMA RewardTyped ==
  ASSUME TypeOK, NEW c \in Ids, NEW p \in Int PROVE Reward(c, p) \in Int
<1>1. bounties[c].reward_bps \in Nat
  BY Zenon DEF TypeOK, WatchtowerBounty
<1> DEFINE b == bounties[c].reward_bps
<1> HIDE DEF b
<1>2. p * b \in Int
  BY <1>1 DEF b
<1>3. \A x \in Int : x \div BPS \in Int
  BY RewardCap
<1>4. (p * b) \div BPS \in Int
  BY Zenon, <1>2, <1>3
<1> QED
  BY <1>4 DEF Reward, b

\* Settling pays tokens out and ends the channel.
LEMMA SettleKeeps ==
  ASSUME ChanInv, NEW c \in Ids, channels[c] # None,
         NEW s \in Int, NEW r \in Int, NEW w \in Int, PayOut(c, s, r, w),
         NEW ch \in Channel \cup {None}, channels' = [channels EXCEPT ![c] = ch],
         ch # None => ch.nonce_window = channels[c].nonce_window /\ ch.phase # "Disputed",
         bounties' \in [Ids -> WatchtowerBounty], receiver_keys' \subseteq Ids,
         UNCHANGED <<now, count, locks, uses, filed_at>>
  PROVE  ChanInv'
<1>1. TypeOK
  BY Zenon DEF ChanInv
<1>2. channels' \in [Ids -> Channel \cup {None}] /\ \A d \in Ids : RecordOK(d)'
  BY Zenon, RecordKept
<1>3. TypeOK'
  BY Zenon, <1>1, <1>2, PayOutTyped DEF TypeOK
<1> QED
  BY Zenon, <1>2, <1>3, LocksKept DEF ChanInv

\* Finalizing keeps the rest of the record.
LEMMA FinalizedTyped ==
  ASSUME TypeOK, NEW c \in Ids, channels[c] \in Channel, Finalize(c)
  PROVE  \E ch \in Channel :
           /\ channels' = [channels EXCEPT ![c] = ch]
           /\ ch.phase = "Finalized" /\ ch.nonce_window = channels[c].nonce_window
<1> DEFINE ch == [channels[c] EXCEPT !.phase = "Finalized"]
<1>1. ch \in Channel /\ ch.phase = "Finalized"
      /\ ch.nonce_window = channels[c].nonce_window
  BY Zenon DEF Channel, Phases
<1>2. channels' = [channels EXCEPT ![c] = ch]
  BY Zenon DEF Finalize
<1> QED BY Zenon, <1>1, <1>2

\* finalize_dispute, claim and reclaim.
LEMMA EndKeeps ==
  ASSUME ChanInv, NEW c \in Ids, finalize_dispute(c) \/ claim(c) \/ reclaim(c)
  PROVE  ChanInv'
<1>1. TypeOK /\ channels[c] \in Channel /\ channels[c] # None
  BY Zenon, LivePhase DEF ChanInv, finalize_dispute, claim, reclaim
<1>2. channels[c].amount \in Int /\ channels[c].balance \in Int
  BY Zenon, <1>1, ChannelFields
<1>3. Finalize(c)
  BY Zenon DEF finalize_dispute, claim, reclaim
<1>4. PICK ch \in Channel :
           /\ channels' = [channels EXCEPT ![c] = ch]
           /\ ch.phase = "Finalized" /\ ch.nonce_window = channels[c].nonce_window
  BY Zenon, <1>1, <1>3, FinalizedTyped
<1>5. bounties' \in [Ids -> WatchtowerBounty] /\ receiver_keys' \subseteq Ids
      /\ UNCHANGED <<now, count, locks, uses, filed_at>>
  BY ZenonT(30), <1>1, BountyTyped DEF TypeOK, finalize_dispute, claim, reclaim
<1>6. \E s \in Int, r \in Int, w \in Int : PayOut(c, s, r, w)
  <2>1. Reward(c, channels[c].balance) \in Int
    BY Zenon, <1>1, <1>2, RewardTyped
  <2>2. /\ Positive(channels[c].amount - channels[c].balance) \in Int
        /\ Positive(channels[c].balance) \in Int
        /\ take_reward(c, channels[c].balance).watchtower \in Int
        /\ Positive(take_reward(c, channels[c].balance).receiver) \in Int
    BY <1>2, <2>1 DEF Positive, take_reward
  <2>3. CASE finalize_dispute(c)
    BY Zenon, <2>2, <2>3 DEF finalize_dispute
  <2>4. CASE claim(c)
    BY SMTT(20), <2>2, <2>4 DEF claim
  <2>5. CASE reclaim(c)
    BY <2>2, <2>5 DEF reclaim
  <2> QED
    BY Zenon, <2>3, <2>4, <2>5
<1> QED
  BY Zenon, <1>1, <1>4, <1>5, <1>6, SettleKeeps

\* A mutual close.
LEMMA MutualKeeps ==
  ASSUME ChanInv, NEW c \in Ids, NEW r \in Int, NEW s \in Int, mutual_close(c, r, s)
  PROVE  ChanInv'
<1>1. TypeOK /\ channels[c] # None
  BY Zenon, LivePhase DEF ChanInv, mutual_close
<1>2. PayOut(c, s, r, 0) /\ channels' = [channels EXCEPT ![c] = None]
      /\ bounties' \in [Ids -> WatchtowerBounty] /\ receiver_keys' \subseteq Ids
      /\ UNCHANGED <<now, count, locks, uses, filed_at>>
  BY Zenon, <1>1 DEF mutual_close, TypeOK
<1>3. channels' \in [Ids -> Channel \cup {None}] /\ \A d \in Ids : RecordOK(d)'
  BY Zenon, <1>1, <1>2, RecordKept
<1>4. TypeOK'
  BY SMTT(20), <1>1, <1>2, <1>3, PayOutTyped DEF TypeOK
<1> QED
  BY Zenon, <1>2, <1>3, <1>4, LocksKept DEF ChanInv

\* The fields of the locks have their types.
LEMMA LockFields ==
  ASSUME TypeOK, NEW c \in Ids
  PROVE  /\ locks[c] \in Locks
         /\ locks[c].htlcs \in Seq(Htlc) /\ locks[c].htlc_reserved \in Int
         /\ locks[c].payments \in Seq(HashlockPayment)
         /\ locks[c].hashlock_reserved \in Int
BY Zenon DEF TypeOK, Locks

\* The step changes the locks of one channel and leaves them all in order.
LocksStep(c) ==
  /\ locks' \in [Ids -> Locks] /\ \A d \in Ids : LocksOK(d)'
  /\ \A d \in Ids : d # c => locks'[d] = locks[d]

\* The hops become H, reserving R; the payments stay.
HopsBecome(c, H, R) ==
  /\ LocksStep(c)
  /\ locks'[c].htlcs = H /\ locks'[c].htlc_reserved = R
  /\ locks'[c].hashlock_reserved = locks[c].hashlock_reserved

\* The payments reserve R; the hops stay.
PaymentsReserve(c, R) ==
  /\ LocksStep(c)
  /\ locks'[c].htlcs = locks[c].htlcs
  /\ locks'[c].htlc_reserved = locks[c].htlc_reserved
  /\ locks'[c].hashlock_reserved = R

\* New hops and their reservation keep the locks in order.
LEMMA HopsStep ==
  ASSUME ChanInv, NEW c \in Ids, NEW H \in Seq(Htlc), NEW R \in Int,
         locks' = [locks EXCEPT ![c].htlcs = H, ![c].htlc_reserved = R],
         \A i \in DOMAIN H : H[i].amount > 0, RunningTotal(H, R)
  PROVE  HopsBecome(c, H, R)
<1>1. TypeOK /\ locks[c] \in Locks
  BY Zenon, LockFields DEF ChanInv
<1> DEFINE l == [locks[c] EXCEPT !.htlcs = H, !.htlc_reserved = R]
<1>2. l \in Locks /\ l.htlcs = H /\ l.htlc_reserved = R
      /\ l.payments = locks[c].payments
      /\ l.hashlock_reserved = locks[c].hashlock_reserved
  BY Zenon, <1>1 DEF Locks
<1>3. locks'[c] = l /\ \A d \in Ids : d # c => locks'[d] = locks[d]
  BY Zenon, <1>1 DEF TypeOK, Locks
<1> HIDE DEF l
<1>4. locks' \in [Ids -> Locks]
  BY <1>1, <1>2, <1>3, Zenon DEF TypeOK
<1>5. ASSUME NEW d \in Ids PROVE LocksOK(d)'
  <2>1. LocksOK(d)
    BY Zenon DEF ChanInv
  <2>2. CASE d = c
    BY Zenon, <2>1, <2>2, <1>2, <1>3 DEF LocksOK
  <2>3. CASE d # c
    BY Zenon, <2>1, <2>3, <1>3 DEF LocksOK
  <2> QED BY Zenon, <2>2, <2>3
<1> QED
  BY Zenon, <1>2, <1>3, <1>4, <1>5 DEF HopsBecome, LocksStep

\* New payments and their reservation keep the locks in order.
LEMMA PaymentsStep ==
  ASSUME ChanInv, NEW c \in Ids, NEW P \in Seq(HashlockPayment), NEW R \in Int,
         locks' = [locks EXCEPT ![c].payments = P, ![c].hashlock_reserved = R],
         \A i \in DOMAIN P : P[i].amount > 0, RunningTotal(P, R)
  PROVE  PaymentsReserve(c, R)
<1>1. TypeOK /\ locks[c] \in Locks
  BY Zenon, LockFields DEF ChanInv
<1> DEFINE l == [locks[c] EXCEPT !.payments = P, !.hashlock_reserved = R]
<1>2. l \in Locks /\ l.payments = P /\ l.hashlock_reserved = R
      /\ l.htlcs = locks[c].htlcs /\ l.htlc_reserved = locks[c].htlc_reserved
  BY Zenon, <1>1 DEF Locks
<1>3. locks'[c] = l /\ \A d \in Ids : d # c => locks'[d] = locks[d]
  BY Zenon, <1>1 DEF TypeOK, Locks
<1> HIDE DEF l
<1>4. locks' \in [Ids -> Locks]
  BY <1>1, <1>2, <1>3, Zenon DEF TypeOK
<1>5. ASSUME NEW d \in Ids PROVE LocksOK(d)'
  <2>1. LocksOK(d)
    BY Zenon DEF ChanInv
  <2>2. CASE d = c
    BY ZenonT(30), <2>1, <2>2, <1>2, <1>3 DEF LocksOK
  <2>3. CASE d # c
    BY Zenon, <2>1, <2>3, <1>3 DEF LocksOK
  <2> QED BY Zenon, <2>2, <2>3
<1> QED
  BY Zenon, <1>2, <1>3, <1>4, <1>5 DEF PaymentsReserve, LocksStep

\* The pending hop made of the request hop.
NewHop(hop) == [ amount |-> hop.amount, parent |-> hop.parent,
                 timeout_ledger |-> hop.timeout_ledger, state |-> "Pending" ]

\* What adding a hop does to the locks.
HopAdded(c, hop) ==
  /\ LocksStep(c)
  /\ NewHop(hop) \in Htlc /\ locks'[c].htlcs = Append(locks[c].htlcs, NewHop(hop))
  /\ hop.amount \in Nat \ {0}
  /\ locks'[c].htlc_reserved = locks[c].htlc_reserved + hop.amount
  /\ locks'[c].hashlock_reserved = locks[c].hashlock_reserved

\* Adding a hop.
LEMMA AddHtlcLocks ==
  ASSUME ChanInv, NEW c \in Ids, NEW hop \in Hops, add_htlc(c, hop)
  PROVE  HopAdded(c, hop)
<1> DEFINE e == [ amount |-> hop.amount, parent |-> hop.parent,
                  timeout_ledger |-> hop.timeout_ledger, state |-> "Pending" ]
           h == locks[c].htlcs
           H == Append(h, e)
           R == locks[c].htlc_reserved + hop.amount
<1>1. TypeOK /\ h \in Seq(Htlc) /\ locks[c].htlc_reserved \in Int
      /\ RunningTotal(h, locks[c].htlc_reserved)
      /\ \A i \in DOMAIN h : h[i].amount > 0
  BY Zenon, LockFields DEF ChanInv, LocksOK
<1>2. hop.amount \in Nat \ {0} /\ hop.timeout_ledger \in Nat
      /\ hop.parent \in (Ids \X Nat) \cup {None}
  BY ChannelAssumption DEF add_htlc
<1>3. e \in Htlc /\ e.amount = hop.amount /\ e.state = "Pending"
  BY <1>2 DEF Htlc
<1>4. R \in Int
  BY <1>1, <1>2
<1>5. locks' = [locks EXCEPT ![c].htlcs = H, ![c].htlc_reserved = R]
  BY Zenon DEF add_htlc
<1> HIDE DEF e, h
<1>6. H \in Seq(Htlc) /\ \A i \in DOMAIN H : H[i].amount > 0
  <2>1. H \in Seq(Htlc) /\ Len(H) = Len(h) + 1 /\ H[Len(h) + 1] = e
        /\ Len(h) \in Nat /\ \A i \in 1..Len(h) : H[i] = h[i]
    BY <1>1, <1>3
  <2>2. DOMAIN H = 1..(Len(h) + 1) /\ DOMAIN h = 1..Len(h)
    BY <1>1, <2>1
  <2> HIDE DEF H
  <2> QED
    BY <1>1, <1>2, <1>3, <2>1, <2>2
<1>7. RunningTotal(H, R)
  BY Zenon, <1>1, <1>2, <1>3, TotalAppend
<1> HIDE DEF H, R
<1>8. HopsBecome(c, H, R)
  BY Zenon, <1>4, <1>5, <1>6, <1>7, HopsStep
<1> QED
  BY Zenon, <1>2, <1>3, <1>8 DEF H, R, e, h, HopsBecome, HopAdded, NewHop

\* What resolving or refunding a hop does to the locks.
HopSettled(c, i, st) ==
  /\ LocksStep(c)
  /\ locks[c].htlcs[i].amount \in Nat \ {0}
  /\ locks'[c].htlcs = [locks[c].htlcs EXCEPT ![i].state = st]
  /\ locks'[c].htlc_reserved = locks[c].htlc_reserved - locks[c].htlcs[i].amount
  /\ locks'[c].hashlock_reserved = locks[c].hashlock_reserved

\* A pending hop is resolved or refunded: st is its new state.
SettleHop(c, i, st) ==
  /\ Pending(c, i)
  /\ locks' = [locks EXCEPT ![c].htlcs[i].state = st,
                            ![c].htlc_reserved = @ - locks[c].htlcs[i].amount]

\* Resolving or refunding a pending hop.
LEMMA SettleHtlcLocks ==
  ASSUME ChanInv, NEW c \in Ids, NEW i, NEW st \in {"Resolved", "Refunded"},
         SettleHop(c, i, st)
  PROVE  HopSettled(c, i, st)
<1> DEFINE h == locks[c].htlcs
           a == h[i].amount
           H == [h EXCEPT ![i].state = st]
           R == locks[c].htlc_reserved - a
<1>1. TypeOK /\ h \in Seq(Htlc) /\ locks[c].htlc_reserved \in Int
      /\ RunningTotal(h, locks[c].htlc_reserved)
      /\ \A j \in DOMAIN h : h[j].amount > 0
  BY Zenon, LockFields DEF ChanInv, LocksOK
<1>2. i \in DOMAIN h /\ h[i].state = "Pending"
  BY Zenon DEF SettleHop, Pending
<1>3. Len(h) \in Nat /\ DOMAIN h = 1..Len(h) /\ i \in 1..Len(h) /\ h[i] \in Htlc
  BY <1>1, <1>2
<1>4. \A j \in 1..Len(h) : h[j] \in Htlc /\ h[j].amount \in Int
  <2>1. \A j \in 1..Len(h) : h[j] \in Htlc
    BY <1>1, <1>3
  <2> QED BY Zenon, <2>1 DEF Htlc
<1>5. a \in Nat \ {0} /\ R \in Int
  BY SMTT(30), <1>1, <1>3, <1>4
<1> DEFINE x == [h[i] EXCEPT !.state = st]
<1>6. x \in Htlc /\ x.amount = a /\ x.state = st /\ st # "Pending"
  BY Zenon, <1>3 DEF Htlc
<1>7. locks' = [locks EXCEPT ![c].htlcs = H, ![c].htlc_reserved = R]
  BY Zenon DEF SettleHop
<1>8. H = [h EXCEPT ![i] = x]
  BY Zenon
<1> HIDE DEF h, x
<1>9. H \in Seq(Htlc) /\ Len(H) = Len(h) /\ DOMAIN H = 1..Len(h) /\ H[i] = x
      /\ \A j \in 1..Len(h) : j # i => H[j] = h[j]
  BY <1>1, <1>3, <1>6, <1>8
<1> HIDE DEF H
<1>10. \A j \in DOMAIN H : H[j].amount > 0
  BY Zenon, <1>1, <1>3, <1>5, <1>6, <1>9
<1>11. RunningTotal(H, R)
  BY Zenon, <1>1, <1>2, <1>3, <1>4, <1>5, <1>6, <1>9, TotalSettle
<1> HIDE DEF R
<1>12. HopsBecome(c, H, R)
  BY Zenon, <1>5, <1>7, <1>9, <1>10, <1>11, HopsStep
<1> QED
  BY Zenon, <1>5, <1>12 DEF H, R, h, HopsBecome, HopSettled

\* What adding a payment does to the locks.
PaymentAdded(c, a) ==
  /\ LocksStep(c)
  /\ \A d \in Ids : locks'[d].htlcs = locks[d].htlcs
  /\ a \in Nat \ {0}
  /\ locks'[c].htlc_reserved = locks[c].htlc_reserved
  /\ locks'[c].hashlock_reserved = locks[c].hashlock_reserved + a

\* Adding a hashlock payment.
LEMMA AddPaymentLocks ==
  ASSUME ChanInv, NEW c \in Ids, NEW a \in Payments, add_hashlock_payment(c, a)
  PROVE  PaymentAdded(c, a)
<1> DEFINE e == [amount |-> a, state |-> "Pending"]
           h == locks[c].payments
           H == Append(h, e)
           R == locks[c].hashlock_reserved + a
<1>1. TypeOK /\ h \in Seq(HashlockPayment) /\ locks[c].hashlock_reserved \in Int
      /\ RunningTotal(h, locks[c].hashlock_reserved)
      /\ \A i \in DOMAIN h : h[i].amount > 0
  BY Zenon, LockFields DEF ChanInv, LocksOK
<1>2. a \in Nat \ {0}
  BY ChannelAssumption DEF add_hashlock_payment
<1>3. e \in HashlockPayment /\ e.amount = a /\ e.state = "Pending"
  BY <1>2 DEF HashlockPayment
<1>4. R \in Int
  BY <1>1, <1>2
<1>5. locks' = [locks EXCEPT ![c].payments = H, ![c].hashlock_reserved = R]
  BY Zenon DEF add_hashlock_payment
<1> HIDE DEF e, h
<1>6. H \in Seq(HashlockPayment) /\ \A i \in DOMAIN H : H[i].amount > 0
  <2>1. H \in Seq(HashlockPayment) /\ Len(H) = Len(h) + 1 /\ H[Len(h) + 1] = e
        /\ Len(h) \in Nat /\ \A i \in 1..Len(h) : H[i] = h[i]
    BY <1>1, <1>3
  <2>2. DOMAIN H = 1..(Len(h) + 1) /\ DOMAIN h = 1..Len(h)
    BY <1>1, <2>1
  <2> HIDE DEF H
  <2> QED
    BY <1>1, <1>2, <1>3, <2>1, <2>2
<1>7. RunningTotal(H, R)
  BY Zenon, <1>1, <1>2, <1>3, TotalAppend
<1> HIDE DEF H, R
<1>8. PaymentsReserve(c, R)
  BY Zenon, <1>4, <1>5, <1>6, <1>7, PaymentsStep
<1> QED
  BY Zenon, <1>2, <1>8 DEF R, PaymentsReserve, PaymentAdded, LocksStep

\* What revealing a payment does to the locks.
PaymentSettled(c, i) ==
  /\ LocksStep(c)
  /\ \A d \in Ids : locks'[d].htlcs = locks[d].htlcs
  /\ locks[c].payments[i].amount \in Nat \ {0}
  /\ locks'[c].htlc_reserved = locks[c].htlc_reserved
  /\ locks'[c].hashlock_reserved = locks[c].hashlock_reserved - locks[c].payments[i].amount

\* Revealing the preimage of a pending payment.
LEMMA ResolvePaymentLocks ==
  ASSUME ChanInv, NEW c \in Ids, NEW i, resolve_payment(c, i)
  PROVE  PaymentSettled(c, i)
<1> DEFINE h == locks[c].payments
           a == h[i].amount
           H == [h EXCEPT ![i].state = "Resolved"]
           R == locks[c].hashlock_reserved - a
<1>1. TypeOK /\ h \in Seq(HashlockPayment) /\ locks[c].hashlock_reserved \in Int
      /\ RunningTotal(h, locks[c].hashlock_reserved)
      /\ \A j \in DOMAIN h : h[j].amount > 0
  BY Zenon, LockFields DEF ChanInv, LocksOK
<1>2. i \in DOMAIN h /\ h[i].state = "Pending"
  BY Zenon DEF resolve_payment
<1>3. Len(h) \in Nat /\ DOMAIN h = 1..Len(h) /\ i \in 1..Len(h) /\ h[i] \in HashlockPayment
  BY <1>1, <1>2
<1>4. \A j \in 1..Len(h) : h[j] \in HashlockPayment /\ h[j].amount \in Int
  <2>1. \A j \in 1..Len(h) : h[j] \in HashlockPayment
    BY <1>1, <1>3
  <2> QED BY Zenon, <2>1 DEF HashlockPayment
<1>5. a \in Nat \ {0} /\ R \in Int
  BY <1>1, <1>3, <1>4
<1> DEFINE x == [h[i] EXCEPT !.state = "Resolved"]
<1>6. x \in HashlockPayment /\ x.amount = a /\ x.state # "Pending"
  BY Zenon, <1>3 DEF HashlockPayment
<1>7. locks' = [locks EXCEPT ![c].payments = H, ![c].hashlock_reserved = R]
  BY Zenon DEF resolve_payment
<1>8. H = [h EXCEPT ![i] = x]
  BY Zenon
<1> HIDE DEF h, x
<1>9. H \in Seq(HashlockPayment) /\ Len(H) = Len(h) /\ DOMAIN H = 1..Len(h) /\ H[i] = x
      /\ \A j \in 1..Len(h) : j # i => H[j] = h[j]
  BY <1>1, <1>3, <1>6, <1>8
<1> HIDE DEF H
<1>10. \A j \in DOMAIN H : H[j].amount > 0
  BY Zenon, <1>1, <1>3, <1>5, <1>6, <1>9
<1>11. RunningTotal(H, R)
  BY Zenon, <1>1, <1>2, <1>3, <1>4, <1>5, <1>6, <1>9, TotalSettle
<1> HIDE DEF R
<1>12. PaymentsReserve(c, R)
  <2>1. R \in Int /\ H \in Seq(HashlockPayment)
    BY Zenon, <1>5, <1>9
  <2> HIDE DEF a
  <2> QED BY Zenon, <1>7, <1>10, <1>11, <2>1, PaymentsStep
<1> QED
  BY Zenon, <1>5, <1>12 DEF R, h, PaymentsReserve, PaymentSettled, LocksStep

\* A step that changes locks only.
LEMMA OnlyLocksKeeps ==
  ASSUME ChanInv, OnlyLocksChange, locks' \in [Ids -> Locks], \A d \in Ids : LocksOK(d)'
  PROVE  ChanInv'
<1>1. TypeOK'
  BY Zenon DEF ChanInv, TypeOK, OnlyLocksChange
<1>2. \A d \in Ids : RecordOK(d)'
  BY Zenon DEF ChanInv, RecordOK, Phase, OnlyLocksChange
<1> QED
  BY Zenon, <1>1, <1>2 DEF ChanInv

\* A resolved lock is credited to the balance of an open channel.
LEMMA CreditKeeps ==
  ASSUME ChanInv, NEW c \in Ids, Phase(c) = "Open", NEW a \in Int,
         channels' = [channels EXCEPT ![c].balance = @ + a],
         UNCHANGED <<now, count, receiver_keys, bounties, pool, flows, uses, filed_at>>,
         locks' \in [Ids -> Locks], \A d \in Ids : LocksOK(d)'
  PROVE  ChanInv'
<1> DEFINE b == channels[c].balance + a
           ch == [channels[c] EXCEPT !.balance = b]
<1>1. TypeOK /\ channels[c] \in Channel /\ channels[c] # None /\ channels[c].phase = "Open"
  BY Zenon, LivePhase DEF ChanInv
<1>2. b \in Int
  BY <1>1, ChannelFields
<1>3. channels' = [channels EXCEPT ![c] = ch]
  BY Zenon
<1> HIDE DEF b
<1>4. ch \in Channel /\ ch.phase = "Open" /\ ch.nonce_window = channels[c].nonce_window
  BY Zenon, <1>1, <1>2 DEF Channel
<1> HIDE DEF ch
<1>5. channels' \in [Ids -> Channel \cup {None}] /\ \A d \in Ids : RecordOK(d)'
  BY Zenon, <1>1, <1>3, <1>4, RecordKept
<1>6. TypeOK'
  BY Zenon, <1>1, <1>5 DEF TypeOK
<1> QED
  BY Zenon, <1>5, <1>6 DEF ChanInv

\* Splices resize an open channel.
LEMMA SpliceKeeps ==
  ASSUME ChanInv, NEW c \in Ids, NEW a \in Splices, splice_in(c, a) \/ splice_out(c, a)
  PROVE  ChanInv'
<1>1. TypeOK /\ channels[c] \in Channel /\ channels[c] # None /\ channels[c].phase = "Open"
      /\ a \in Nat
  BY LivePhase, ChannelAssumption DEF ChanInv, splice_in, splice_out
<1>2. PICK delta \in Int : Resize(c, delta)
  BY <1>1 DEF splice_in, splice_out
<1> DEFINE m == channels[c].amount + delta
           ch == [channels[c] EXCEPT !.amount = m]
<1>3. m \in Int
  BY <1>1, ChannelFields
<1>4. channels' = [channels EXCEPT ![c] = ch]
      /\ UNCHANGED <<now, count, receiver_keys, locks, bounties, uses, filed_at>>
  BY Zenon, <1>2 DEF Resize
<1> HIDE DEF m
<1>5. ch \in Channel /\ ch.phase = "Open" /\ ch.nonce_window = channels[c].nonce_window
  BY Zenon, <1>1, <1>3 DEF Channel
<1> HIDE DEF ch
<1>6. channels' \in [Ids -> Channel \cup {None}] /\ \A d \in Ids : RecordOK(d)'
  BY Zenon, <1>1, <1>4, <1>5, RecordKept
<1>7. pool' \in Nat /\ flows' \in [Ids -> Flows]
  <2>1. CASE splice_in(c, a)
    BY Zenon, <2>1, <1>1, PayInTyped DEF splice_in
  <2>2. CASE splice_out(c, a)
    BY <2>2, <1>1, PayOutTyped DEF splice_out
  <2> QED BY Zenon, <2>1, <2>2
<1>8. TypeOK'
  BY Zenon, <1>1, <1>4, <1>6, <1>7 DEF TypeOK
<1> QED
  BY Zenon, <1>4, <1>6, <1>8, LocksKept DEF ChanInv

\* Every step of a channel preserves the invariant.
LEMMA ChannelStepKeeps ==
  ASSUME ChanInv, NEW c \in Ids, ChannelStep(c) PROVE ChanInv'
<1>0. TypeOK
  BY Zenon DEF ChanInv
<1>1. ASSUME NEW s \in Signed[c], close_channel(c, s) PROVE ChanInv'
  <2>1. s.balance \in Int /\ Phase(c) = "Open" /\ RecordClose(c, s, s.balance)
        /\ locks' \in [Ids -> Locks] /\ \A d \in Ids : LocksOK(d)'
    BY Zenon, <1>1, SignedTyped, LocksKept DEF close_channel
  <2> QED BY Zenon, <2>1, CloseKeeps
<1>2. ASSUME NEW s \in Signed[c], watchtower_counter_evidence(c, s) PROVE ChanInv'
  <2>1. CounterEvidence(c, s) /\ bounties' = [bounties EXCEPT ![c].watchtower = TRUE]
    BY Zenon, <1>2 DEF watchtower_counter_evidence
  <2>2. bounties' \in [Ids -> WatchtowerBounty]
    BY Zenon, <1>0, <2>1, BountyTyped
  <2> QED BY Zenon, <2>1, <2>2, CounterEvidenceKeeps
<1>3. ASSUME NEW s \in Signed[c], submit_counter_evidence(c, s) PROVE ChanInv'
  <2>1. CounterEvidence(c, s) /\ bounties' \in [Ids -> WatchtowerBounty]
    BY Zenon, <1>0, <1>3 DEF submit_counter_evidence, TypeOK
  <2> QED BY Zenon, <2>1, CounterEvidenceKeeps
<1>4. CASE LifeCycle(c)
  BY Zenon, <1>1, <1>2, <1>3, <1>4, UpdateKeeps, DisputeKeeps, EndKeeps DEF LifeCycle
<1>5. CASE Delegation(c)
  BY Zenon, <1>1, <1>5, UpdateKeeps
     DEF Delegation, update_state_delegated, close_channel_delegated
<1>6. CASE BountyStep(c)
  BY Zenon, <1>6, AsideKeeps DEF BountyStep
<1>7. CASE MutualStep(c)
  <2>1. CASE register_receiver_key(c)
    BY Zenon, <2>1, AsideKeeps
  <2>2. ASSUME Phase(c) # "none", NEW r \in 0..channels[c].amount,
               mutual_close(c, r, channels[c].amount - r)
        PROVE  ChanInv'
    <3>1. channels[c].amount \in Int
      BY Zenon, <1>0, <2>2, LivePhase, ChannelFields
    <3>2. r \in Int /\ channels[c].amount - r \in Int
      BY <3>1
    <3> QED BY Zenon, <2>2, <3>2, MutualKeeps
  <2> QED BY Zenon, <1>7, <2>1, <2>2 DEF MutualStep
<1>8. CASE HtlcStep(c)
  <2>1. ASSUME NEW hop \in Hops, add_htlc(c, hop) PROVE ChanInv'
    <3>1. OnlyLocksChange
      BY Zenon, <2>1 DEF add_htlc
    <3>2. HopAdded(c, hop)
      BY Zenon, <2>1, AddHtlcLocks
    <3> QED BY Zenon, <3>1, <3>2, OnlyLocksKeeps DEF HopAdded, LocksStep
  <2>2. ASSUME NEW i \in 1..MaxLocks, resolve_htlc(c, i) PROVE ChanInv'
    <3>1. SettleHop(c, i, "Resolved") /\ Phase(c) = "Open"
          /\ channels' = [channels EXCEPT ![c].balance = @ + locks[c].htlcs[i].amount]
          /\ UNCHANGED <<now, count, receiver_keys, bounties, pool, flows, uses, filed_at>>
      BY Zenon, <2>2 DEF resolve_htlc, SettleHop
    <3>2. /\ locks' \in [Ids -> Locks] /\ \A d \in Ids : LocksOK(d)'
          /\ locks[c].htlcs[i].amount \in Nat \ {0}
      <4>1. HopSettled(c, i, "Resolved")
        BY Zenon, <3>1, SettleHtlcLocks
      <4> QED BY Zenon, <4>1 DEF HopSettled, LocksStep
    <3>3. locks[c].htlcs[i].amount \in Int
      BY <3>2
    <3> QED BY Zenon, <3>1, <3>2, <3>3, CreditKeeps
  <2>3. ASSUME NEW i \in 1..MaxLocks, refund_htlc(c, i) PROVE ChanInv'
    <3>1. SettleHop(c, i, "Refunded") /\ OnlyLocksChange
      BY Zenon, <2>3 DEF refund_htlc, SettleHop
    <3>2. HopSettled(c, i, "Refunded")
      BY Zenon, <3>1, SettleHtlcLocks
    <3> QED BY Zenon, <3>1, <3>2, OnlyLocksKeeps DEF HopSettled, LocksStep
  <2> QED BY Zenon, <1>8, <2>1, <2>2, <2>3 DEF HtlcStep
<1>9. CASE HashlockStep(c)
  <2>1. ASSUME NEW a \in Payments, add_hashlock_payment(c, a) PROVE ChanInv'
    <3>1. OnlyLocksChange
      BY Zenon, <2>1 DEF add_hashlock_payment
    <3>2. PaymentAdded(c, a)
      BY Zenon, <2>1, AddPaymentLocks
    <3> QED BY Zenon, <3>1, <3>2, OnlyLocksKeeps DEF PaymentAdded, LocksStep
  <2>2. ASSUME NEW i \in 1..MaxLocks, reveal_preimage(c, i) PROVE ChanInv'
    <3>1. resolve_payment(c, i) /\ Phase(c) = "Open"
          /\ channels' = [channels EXCEPT ![c].balance = @ + locks[c].payments[i].amount]
          /\ UNCHANGED <<now, count, receiver_keys, bounties, pool, flows, uses, filed_at>>
      BY Zenon, <2>2 DEF reveal_preimage
    <3>2. /\ locks' \in [Ids -> Locks] /\ \A d \in Ids : LocksOK(d)'
          /\ locks[c].payments[i].amount \in Int
      <4>1. PaymentSettled(c, i)
        BY ZenonT(30), <3>1, ResolvePaymentLocks
      <4> QED BY <4>1 DEF PaymentSettled, LocksStep
    <3> QED BY Zenon, <3>1, <3>2, CreditKeeps
  <2>3. ASSUME NEW i \in 1..MaxLocks, NEW s \in Signed[c],
               close_channel_with_preimage(c, s, i)
        PROVE  ChanInv'
    <3>1. resolve_payment(c, i) /\ Phase(c) = "Open"
          /\ RecordClose(c, s, s.balance + locks[c].payments[i].amount)
      BY Zenon, <2>3 DEF close_channel_with_preimage
    <3>2. /\ locks' \in [Ids -> Locks] /\ \A d \in Ids : LocksOK(d)'
          /\ locks[c].payments[i].amount \in Int
      <4>1. PaymentSettled(c, i)
        BY Zenon, <3>1, ResolvePaymentLocks
      <4> QED BY <4>1 DEF PaymentSettled, LocksStep
    <3>3. s.balance + locks[c].payments[i].amount \in Int
      BY <3>2, SignedTyped
    <3> QED BY Zenon, <3>1, <3>2, <3>3, CloseKeeps
  <2> QED BY Zenon, <1>9, <2>1, <2>2, <2>3 DEF HashlockStep
<1>10. CASE SpliceStep(c)
  BY Zenon, <1>10, SpliceKeeps DEF SpliceStep
<1> QED
  BY Zenon, <1>4, <1>5, <1>6, <1>7, <1>8, <1>9, <1>10 DEF ChannelStep

\* The invariant holds initially.
LEMMA ChanInvInit == ASSUME Init PROVE ChanInv
<1>1. NoLocks \in Locks /\ NoLocks.htlcs = <<>> /\ NoLocks.payments = <<>>
      /\ NoLocks.htlc_reserved = 0 /\ NoLocks.hashlock_reserved = 0
  BY DEF NoLocks, Locks
<1>2. TypeOK
  <2>1. now \in 0..MaxLedger
    BY LedgerBound DEF Init
  <2> QED BY <1>1, <2>1 DEF Init, TypeOK, WatchtowerBounty, Flows
<1>3. \A c \in Ids : RecordOK(c)
  BY SMTT(20) DEF Init, RecordOK, Phase
<1>4. \A c \in Ids : LocksOK(c)
  BY <1>1, TotalEmpty DEF Init, LocksOK
<1> QED BY Zenon, <1>2, <1>3, <1>4 DEF ChanInv

\* Every step preserves the invariant.
LEMMA ChanInvNext == ASSUME ChanInv, [Next]_vars PROVE ChanInv'
<1>1. CASE Tick
  BY Zenon, <1>1, TickKeeps
<1>2. CASE OpenStep
  BY Zenon, <1>2, OpenKeeps DEF OpenStep
<1>3. CASE \E c \in Ids : ChannelStep(c)
  BY Zenon, <1>3, ChannelStepKeeps
<1>4. CASE UNCHANGED vars
  BY Zenon, <1>4 DEF vars, ChanInv, TypeOK, RecordOK, LocksOK, Phase
<1> QED
  BY Zenon, <1>1, <1>2, <1>3, <1>4 DEF Next

\* The invariant holds throughout.
THEOREM ChannelInvariant == Spec => []ChanInv
<1>1. Init => ChanInv
  BY Zenon, ChanInvInit
<1>2. ChanInv /\ [Next]_vars => ChanInv'
  BY Zenon, ChanInvNext
<1> QED BY <1>1, <1>2, PTL DEF Spec

\* Every record keeps its type, whatever is submitted in whatever order.
THEOREM ChannelTypes == Spec => []TypeOK
<1>1. ChanInv => TypeOK
  BY Zenon DEF ChanInv
<1> QED BY <1>1, ChannelInvariant, PTL

\* No nonce is accepted as fresh twice in the life of a channel.
THEOREM NoncesOnce == Spec => []NonceAcceptedOnce
<1>1. ChanInv => NonceAcceptedOnce
  BY Zenon DEF ChanInv, RecordOK, NonceAcceptedOnce
<1> QED BY <1>1, ChannelInvariant, PTL

\* Counter-evidence never stretches a dispute beyond the capped extensions.
THEOREM DisputesEnd == Spec => []DisputeBounded
<1>1. ChanInv => DisputeBounded
  <2> SUFFICES ASSUME ChanInv, NEW c \in Ids, Phase(c) = "Disputed"
               PROVE  channels[c].disputed_at <= filed_at[c]
                        + MAX_DISPUTE_EXTENSIONS * COUNTER_PROOF_EXTENSION_LEDGERS
    BY Zenon DEF DisputeBounded
  <2> DEFINE n == channels[c].dispute_extensions
             M == MAX_DISPUTE_EXTENSIONS
             E == COUNTER_PROOF_EXTENSION_LEDGERS
  <2>1. TypeOK /\ RecordOK(c)
    BY Zenon DEF ChanInv
  <2>2. n \in Nat /\ M \in Nat /\ E \in Nat /\ filed_at[c] \in Nat
    <3>1. filed_at[c] \in Nat
      BY Zenon, <2>1 DEF TypeOK
    <3> QED BY Zenon, <2>1, <3>1, LivePhase, ChannelFields, ExtensionBounds
  <2>3. n <= M /\ channels[c].disputed_at = filed_at[c] + n * E
    BY Zenon, <2>1 DEF RecordOK
  <2> HIDE DEF n, M, E
  <2>4. n * E <= M * E
    BY <2>2, <2>3
  <2>5. n * E \in Nat /\ M * E \in Nat
    BY <2>2
  <2>6. filed_at[c] + n * E <= filed_at[c] + M * E
    BY <2>2, <2>4, <2>5
  <2> QED BY Zenon, <2>3, <2>6 DEF M, E
<1> QED BY <1>1, ChannelInvariant, PTL

\* The reservations are the totals of what is pending.
THEOREM ReservationsAreTotals == Spec => []ReservationsExact
<1>1. ChanInv => ReservationsExact
  <2> SUFFICES ASSUME ChanInv, NEW c \in Ids
               PROVE  /\ PendingTotal(locks[c].htlcs, locks[c].htlc_reserved)
                      /\ PendingTotal(locks[c].payments, locks[c].hashlock_reserved)
    BY Zenon DEF ReservationsExact
  <2>1. TypeOK /\ LocksOK(c)
    BY Zenon DEF ChanInv
  <2>2. Len(locks[c].htlcs) \in Nat /\ Len(locks[c].payments) \in Nat
        /\ locks[c].htlc_reserved \in Int /\ locks[c].hashlock_reserved \in Int
    BY <2>1, LockFields
  <2> QED
    BY Zenon, <2>1, <2>2, RunningIsTotal DEF LocksOK
<1> QED BY <1>1, ChannelInvariant, PTL

-----------------------------------------------------------------------------
(* The escrow.                                                             *)

Live == {"Open", "Closed", "Disputed"}

\* The escrow of a live channel covers its balance and reservations.
Fits(c) ==
  0 <= channels[c].balance /\ channels[c].balance + Reserved(c) <= channels[c].amount

\* What the contract still holds on account of a channel.
Held(c) == flows[c].in - PaidOut(flows[c])

\* EscrowCovers and EscrowBacked for one channel, with the cap on the bounty.
EscrowOK(c) ==
  /\ bounties[c].reward_bps <= MAX_REWARD_BPS
  /\ Held(c) >= 0
  /\ c > count => Held(c) = 0 /\ Reserved(c) = 0
  /\ Phase(c) \in Live => Fits(c) /\ Held(c) = channels[c].amount

\* BalanceNeverRegresses for one channel.
BalanceKept(c) ==
  Phase(c) # "none" /\ Phase(c)' # "none" =>
    \/ channels'[c].balance >= channels[c].balance
    \/ Phase(c) = "Open" /\ Phase(c)' = "Closed"

\* SettlesInFull for one channel.
SettledInFull(c) ==
  \/ Phase(c) = "Disputed" /\ Phase(c)' = "Finalized"
  \/ Phase(c) # "none" /\ Phase(c)' = "none"
  => /\ PaidOut(flows'[c]) = flows'[c].in
     /\ Phase(c)' = "Finalized" =>
          flows'[c].sender - flows[c].sender = channels[c].amount - channels[c].balance

\* Only channel c changes.
Alone(c) ==
  /\ count' = count
  /\ \A d \in Ids : d # c => /\ channels'[d] = channels[d] /\ locks'[d] = locks[d]
                             /\ flows'[d] = flows[d] /\ bounties'[d] = bounties[d]

\* What every step of channel c does to its balance and its escrow.
StepOK(c) ==
  /\ Alone(c)
  /\ BalanceKept(c)
  /\ EscrowOK(c) /\ Exclusive => EscrowOK(c)' /\ SettledInFull(c)

\* The numbers of a channel are integers and its reservations not negative.
NumbersAt(c) ==
  /\ flows[c].in \in Int /\ flows[c].sender \in Int /\ PaidOut(flows[c]) \in Int
  /\ Held(c) \in Int /\ Reserved(c) \in Int /\ Reserved(c) >= 0
  /\ locks[c].htlc_reserved \in Nat /\ locks[c].hashlock_reserved \in Nat
  /\ bounties[c].reward_bps \in Nat
  /\ Phase(c) # "none" => /\ channels[c].amount \in Int
                          /\ channels[c].balance \in Int
                          /\ ~(c > count)

NumbersOK == \A c \in Ids : NumbersAt(c)

\* The invariant gives the numbers their types.
LEMMA Numbers == ChanInv => NumbersOK
<1> SUFFICES ASSUME ChanInv, NEW c \in Ids PROVE NumbersAt(c)
  BY Zenon DEF NumbersOK
<1>1. TypeOK /\ RecordOK(c) /\ LocksOK(c)
  BY Zenon DEF ChanInv
<1>2. flows[c] \in Flows
  BY Zenon, <1>1 DEF TypeOK
<1>3. flows[c].in \in Int /\ flows[c].sender \in Int /\ flows[c].receiver \in Int
      /\ flows[c].watchtower \in Int
  BY Zenon, <1>2 DEF Flows
<1>4. PaidOut(flows[c]) \in Int
  BY <1>3 DEF PaidOut
<1>5. Held(c) \in Int
  BY <1>3, <1>4 DEF Held
<1>6. locks[c].htlc_reserved \in Nat /\ locks[c].hashlock_reserved \in Nat
  <2>1. /\ locks[c].htlc_reserved \in Int /\ locks[c].hashlock_reserved \in Int
        /\ Len(locks[c].htlcs) \in Nat /\ Len(locks[c].payments) \in Nat
    BY <1>1, LockFields
  <2>2. locks[c].htlc_reserved >= 0 /\ locks[c].hashlock_reserved >= 0
    BY Zenon, <1>1, <2>1, RunningIsTotal DEF LocksOK
  <2> QED BY <2>1, <2>2
<1>7. Reserved(c) \in Int /\ Reserved(c) >= 0
  BY <1>6 DEF Reserved
<1>8. bounties[c].reward_bps \in Nat
  BY Zenon, <1>1 DEF TypeOK, WatchtowerBounty
<1>9. Phase(c) # "none" => /\ channels[c].amount \in Int
                           /\ channels[c].balance \in Int
                           /\ ~(c > count)
  <2>1. Phase(c) # "none" => ~(c > count)
    BY Zenon, <1>1 DEF RecordOK, Phase
  <2> QED BY Zenon, <1>1, <2>1, LivePhase, ChannelFields
<1> QED
  BY Zenon, <1>3, <1>4, <1>5, <1>6, <1>7, <1>8, <1>9 DEF NumbersAt

\* The numbers before and after a step.
LEMMA NumbersBoth ==
  ASSUME ChanInv, ChanInv', NEW c \in Ids PROVE NumbersAt(c) /\ NumbersAt(c)'
<1>1. NumbersOK /\ NumbersOK'
  BY Numbers, PTL
<1> QED BY Zenon, <1>1 DEF NumbersOK

\* A step after which the channel is still live.
LEMMA LiveStep ==
  ASSUME ChanInv, ChanInv', NEW c \in Ids, Alone(c), Phase(c) \in Live, Phase(c)' \in Live,
         bounties'[c].reward_bps <= MAX_REWARD_BPS
           \/ bounties'[c].reward_bps = bounties[c].reward_bps,
         \/ channels'[c].balance >= channels[c].balance
         \/ Phase(c) = "Open" /\ Phase(c)' = "Closed",
         Held(c)' - channels'[c].amount = Held(c) - channels[c].amount,
         Fits(c) /\ Exclusive => Fits(c)'
  PROVE  StepOK(c)
<1>1. Phase(c) # "none" /\ Phase(c)' # "none"
      /\ Phase(c)' # "Finalized"
  BY Zenon DEF Live
<1>2. BalanceKept(c)
  BY Zenon DEF BalanceKept
<1>3. SettledInFull(c)
  BY Zenon, <1>1 DEF SettledInFull
<1>4. ASSUME EscrowOK(c), Exclusive PROVE EscrowOK(c)'
  <2>1. Fits(c)' /\ Fits(c) /\ Held(c) = channels[c].amount
    BY Zenon, <1>4 DEF EscrowOK
  <2>2. Held(c) \in Int /\ channels[c].amount \in Int
    BY Zenon, <1>1, NumbersBoth DEF NumbersAt
  <2>3. Held(c)' \in Int /\ channels'[c].amount \in Int /\ channels'[c].balance \in Int
        /\ Reserved(c)' \in Int /\ Reserved(c)' >= 0 /\ ~(c > count')
    BY Zenon, <1>1, NumbersBoth DEF NumbersAt
  <2>4. Held(c)' = channels'[c].amount
    BY <2>1, <2>2, <2>3
  <2>5. Held(c)' >= 0
    BY <2>1, <2>3, <2>4 DEF Fits
  <2> QED
    BY Zenon, <1>4, <2>1, <2>3, <2>4, <2>5 DEF EscrowOK
<1> QED
  BY Zenon, <1>2, <1>3, <1>4 DEF StepOK

\* A step that records a state within the ceiling.
LEMMA RecordedStep ==
  ASSUME ChanInv, ChanInv', NEW c \in Ids, Phase(c) \in Live,
         NEW ch \in Channel, channels' = [channels EXCEPT ![c] = ch], ch.phase \in Live,
         ch.amount = channels[c].amount,
         0 <= ch.balance, ch.balance + Reserved(c)' <= ch.amount,
         ch.balance >= channels[c].balance \/ (Phase(c) = "Open" /\ ch.phase = "Closed"),
         UNCHANGED <<count, flows>>, \A d \in Ids : d # c => locks'[d] = locks[d],
         \A d \in Ids : d # c => bounties'[d] = bounties[d],
         bounties'[c].reward_bps = bounties[c].reward_bps
  PROVE  StepOK(c)
<1>1. channels'[c] = ch /\ \A d \in Ids : d # c => channels'[d] = channels[d]
  BY Zenon DEF ChanInv, TypeOK
<1>2. Phase(c)' = ch.phase
  BY Zenon, <1>1, ChannelAssumption DEF Phase
<1>3. Alone(c)
  BY Zenon, <1>1 DEF Alone
<1>4. Held(c)' = Held(c)
  BY Zenon DEF Held
<1>5. Fits(c)'
  BY Zenon, <1>1 DEF Fits
<1>6. NumbersAt(c) /\ NumbersAt(c)'
  BY Zenon, NumbersBoth
<1>7. Held(c)' - channels'[c].amount = Held(c) - channels[c].amount
  BY Zenon, <1>1, <1>4
<1> QED
  BY Zenon, <1>1, <1>2, <1>3, <1>5, <1>7, LiveStep

\* update_state, dispute and both forms of counter-evidence.
LEMMA SubmitStep ==
  ASSUME ChanInv, ChanInv', NEW c \in Ids, NEW s \in Signed[c],
         \/ update_state(c, s) \/ dispute(c, s)
         \/ submit_counter_evidence(c, s) \/ watchtower_counter_evidence(c, s)
  PROVE  StepOK(c)
<1> DEFINE r == Recorded(c, s, s.balance)
<1>1. TypeOK /\ RecordOK(c) /\ s.balance \in Int /\ now \in Nat
      /\ channels[c] \in Channel /\ channels[c] # None /\ Phase(c) \in Live
  <2>1. TypeOK /\ RecordOK(c)
    BY Zenon DEF ChanInv
  <2>2. now \in Nat
    BY Zenon, <2>1, NowNat
  <2>3. Phase(c) \in Live
    BY Zenon DEF Live, update_state, dispute, CounterEvidence,
           submit_counter_evidence, watchtower_counter_evidence
  <2> QED BY <2>1, <2>2, <2>3, LivePhase, SignedTyped, Zenon DEF Live
<1>2. r \in Channel /\ r.balance = s.balance /\ r.amount = channels[c].amount
      /\ r.phase = Phase(c)
  BY Zenon, <1>1, RecordedTyped, LivePhase DEF Live
<1>3. FitsEscrow(c, s.balance) /\ NotStale(c, s) /\ UNCHANGED <<count, flows, locks>>
  BY Zenon DEF update_state, dispute, CounterEvidence,
         submit_counter_evidence, watchtower_counter_evidence
<1>4. 0 <= r.balance /\ r.balance + Reserved(c)' <= r.amount
      /\ r.balance >= channels[c].balance
  BY Zenon, <1>2, <1>3 DEF FitsEscrow, NotStale, Reserved
<1>5. \E ch \in Channel :
        /\ channels' = [channels EXCEPT ![c] = ch] /\ ch.phase \in Live
        /\ ch.amount = r.amount /\ ch.balance = r.balance
  <2> HIDE DEF r
  <2>1. CASE update_state(c, s)
    BY Zenon, <2>1, <1>1, <1>2 DEF update_state, r
  <2>2. CASE dispute(c, s)
    <3> DEFINE ch == [r EXCEPT !.phase = "Disputed", !.disputed_at = now,
                               !.dispute_extensions = 0]
    <3>1. ch \in Channel /\ ch.phase \in Live /\ ch.amount = r.amount
          /\ ch.balance = r.balance
      BY Zenon, <1>1, <1>2 DEF Channel, Phases, Live
    <3>2. channels' = [channels EXCEPT ![c] = ch]
      BY Zenon, <2>2 DEF dispute, r
    <3> QED BY Zenon, <3>1, <3>2
  <2>3. CASE CounterEvidence(c, s)
    <3> DEFINE ch == extend_window_on_late_counter_proof(c, r)
               at == r.disputed_at + COUNTER_PROOF_EXTENSION_LEDGERS
               n == r.dispute_extensions + 1
    <3>1. at \in Nat /\ n \in Nat
      <4>1. r.disputed_at \in Nat /\ r.dispute_extensions \in Nat
        BY Zenon, <1>2 DEF Channel
      <4> HIDE DEF r
      <4> QED BY <4>1, ExtensionBounds
    <3>2. ch = IF LateCounterProof(c)
               THEN [r EXCEPT !.disputed_at = at, !.dispute_extensions = n] ELSE r
      BY Zenon DEF extend_window_on_late_counter_proof
    <3>3. channels' = [channels EXCEPT ![c] = ch]
      BY Zenon, <2>3 DEF CounterEvidence, r
    <3> HIDE DEF at, n, ch
    <3>4. ch \in Channel /\ ch.phase = r.phase /\ ch.amount = r.amount
          /\ ch.balance = r.balance
      BY Zenon, <1>2, <3>1, <3>2 DEF Channel
    <3> QED BY Zenon, <1>1, <1>2, <3>3, <3>4
  <2> QED
    BY Zenon, <2>1, <2>2, <2>3 DEF submit_counter_evidence, watchtower_counter_evidence
<1>6. /\ \A d \in Ids : d # c => bounties'[d] = bounties[d]
      /\ bounties'[c].reward_bps = bounties[c].reward_bps
  <2>1. CASE watchtower_counter_evidence(c, s)
    <3>1. bounties' = [bounties EXCEPT ![c].watchtower = TRUE]
      BY Zenon, <2>1 DEF watchtower_counter_evidence
    <3> QED BY Zenon, <3>1, <1>1 DEF TypeOK, WatchtowerBounty
  <2>2. CASE ~watchtower_counter_evidence(c, s)
    BY Zenon, <2>2 DEF update_state, dispute, submit_counter_evidence
  <2> QED BY Zenon, <2>1, <2>2
<1> HIDE DEF r
<1>7. PICK ch \in Channel :
        /\ channels' = [channels EXCEPT ![c] = ch] /\ ch.phase \in Live
        /\ ch.amount = r.amount /\ ch.balance = r.balance
  BY Zenon, <1>5
<1> QED
  BY Zenon, <1>1, <1>2, <1>3, <1>4, <1>6, <1>7, RecordedStep

\* Both forms of close.
LEMMA CloseStep ==
  ASSUME ChanInv, ChanInv', NEW c \in Ids, NEW s \in Signed[c], NEW b \in Int,
         Phase(c) = "Open", RecordClose(c, s, b), b >= 0,
         b + Reserved(c)' <= channels[c].amount,
         \A d \in Ids : d # c => locks'[d] = locks[d]
  PROVE  StepOK(c)
<1> DEFINE r == Recorded(c, s, b)
           ch == [r EXCEPT !.phase = "Closed", !.closed_at = now]
<1>1. TypeOK /\ RecordOK(c) /\ now \in Nat /\ Phase(c) \in Live
      /\ channels[c] \in Channel /\ channels[c] # None
  <2>1. TypeOK /\ RecordOK(c)
    BY Zenon DEF ChanInv
  <2>2. now \in Nat
    BY Zenon, <2>1, NowNat
  <2> QED BY Zenon, <2>1, <2>2, LivePhase DEF Live
<1>2. r \in Channel /\ r.balance = b /\ r.amount = channels[c].amount
  BY Zenon, <1>1, RecordedTyped
<1>3. channels' = [channels EXCEPT ![c] = ch] /\ UNCHANGED <<count, flows, bounties>>
  BY Zenon DEF RecordClose
<1> HIDE DEF r
<1>4. ch \in Channel /\ ch.phase = "Closed" /\ ch.balance = b
      /\ ch.amount = channels[c].amount
  BY Zenon, <1>1, <1>2 DEF Channel, Phases
<1> HIDE DEF ch
<1> QED
  BY Zenon, <1>1, <1>3, <1>4, RecordedStep DEF Live

\* Setting a bounty within the cap and registering a key.
LEMMA AsideStep ==
  ASSUME ChanInv, ChanInv', NEW c \in Ids,
         (\E r \in Rewards : set_watchtower_bounty(c, r)) \/ register_receiver_key(c)
  PROVE  StepOK(c)
<1>1. Phase(c) \in Live /\ UNCHANGED <<count, channels, locks, flows>>
  BY Zenon DEF Live, set_watchtower_bounty, register_receiver_key
<1>2. /\ \A d \in Ids : d # c => bounties'[d] = bounties[d]
      /\ \/ bounties'[c].reward_bps <= MAX_REWARD_BPS
         \/ bounties'[c].reward_bps = bounties[c].reward_bps
  <2>1. ASSUME NEW r \in Rewards, set_watchtower_bounty(c, r) PROVE <1>2!:
    <3>1. bounties' = [bounties EXCEPT ![c].reward_bps = r] /\ r <= MAX_REWARD_BPS
      BY Zenon, <2>1 DEF set_watchtower_bounty
    <3> QED BY <3>1 DEF ChanInv, TypeOK, WatchtowerBounty
  <2>2. CASE register_receiver_key(c)
    BY Zenon, <2>2 DEF register_receiver_key
  <2> QED BY Zenon, <2>1, <2>2
<1>3. Alone(c)
  BY Zenon, <1>1, <1>2 DEF Alone
<1>4. Phase(c)' = Phase(c) /\ Held(c)' = Held(c) /\ (Fits(c) => Fits(c)')
  BY Zenon, <1>1 DEF Phase, Held, Fits, Reserved
<1>5. channels'[c].balance >= channels[c].balance
  BY <1>1, NumbersBoth DEF NumbersAt, Live
<1>6. Held(c)' - channels'[c].amount = Held(c) - channels[c].amount
  BY Zenon, <1>1, <1>4
<1> QED
  BY Zenon, <1>1, <1>2, <1>3, <1>4, <1>5, <1>6, LiveStep

\* Adding and refunding hops and adding payments: only the locks change.
LEMMA LockStep ==
  ASSUME ChanInv, ChanInv', NEW c \in Ids, Phase(c) \in Live, OnlyLocksChange,
         \A d \in Ids : d # c => locks'[d] = locks[d],
         Fits(c) /\ Exclusive => channels[c].balance + Reserved(c)' <= channels[c].amount
  PROVE  StepOK(c)
<1>1. UNCHANGED <<count, channels, bounties, flows>>
  BY Zenon DEF OnlyLocksChange
<1>2. Alone(c) /\ Phase(c)' = Phase(c) /\ Held(c)' = Held(c)
  BY Zenon, <1>1 DEF Alone, Phase, Held
<1>3. Fits(c) /\ Exclusive => Fits(c)'
  BY Zenon, <1>1 DEF Fits
<1>4. channels'[c].balance >= channels[c].balance
  BY <1>1, NumbersBoth DEF NumbersAt, Live
<1>5. Held(c)' - channels'[c].amount = Held(c) - channels[c].amount
  BY Zenon, <1>1, <1>2
<1> QED
  BY Zenon, <1>1, <1>2, <1>3, <1>4, <1>5, LiveStep

\* Resolving a hop and revealing a payment: what was reserved is credited.
LEMMA CreditStep ==
  ASSUME ChanInv, ChanInv', NEW c \in Ids, Phase(c) = "Open", NEW a \in Nat,
         channels' = [channels EXCEPT ![c].balance = @ + a],
         \A d \in Ids : d # c => locks'[d] = locks[d],
         Reserved(c)' = Reserved(c) - a, UNCHANGED <<count, bounties, flows>>
  PROVE  StepOK(c)
<1> DEFINE b == channels[c].balance + a
           ch == [channels[c] EXCEPT !.balance = b]
<1>1. TypeOK /\ channels[c] \in Channel /\ channels[c] # None /\ channels[c].phase = "Open"
  BY Zenon, LivePhase DEF ChanInv
<1>2. b \in Int /\ channels[c].balance \in Int /\ channels[c].amount \in Int
      /\ b >= channels[c].balance
  BY <1>1, ChannelFields
<1>3. channels' = [channels EXCEPT ![c] = ch]
  BY Zenon
<1>4. b = channels[c].balance + a
  BY Zenon
<1> HIDE DEF b
<1>5. ch \in Channel /\ ch.phase = "Open" /\ ch.balance = b /\ ch.amount = channels[c].amount
  BY Zenon, <1>1, <1>2 DEF Channel
<1> HIDE DEF ch
<1>6. channels'[c] = ch /\ \A d \in Ids : d # c => channels'[d] = channels[d]
  BY Zenon, <1>1, <1>3 DEF TypeOK
<1>7. Alone(c) /\ Held(c)' = Held(c)
  BY Zenon, <1>6 DEF Alone, Held
<1>8. Phase(c)' = "Open"
  BY Zenon, <1>5, <1>6, ChannelAssumption DEF Phase
<1>9. Reserved(c) \in Int
  BY Zenon, NumbersBoth DEF NumbersAt
<1>10. Fits(c) => Fits(c)'
  BY <1>2, <1>4, <1>5, <1>6, <1>9 DEF Fits
<1>11. Held(c)' - channels'[c].amount = Held(c) - channels[c].amount
  BY Zenon, <1>5, <1>6, <1>7
<1>12. Phase(c) \in Live /\ Phase(c)' \in Live /\ channels'[c].balance >= channels[c].balance
  BY Zenon, <1>2, <1>5, <1>6, <1>8 DEF Live
<1> QED
  BY Zenon, <1>7, <1>10, <1>11, <1>12, LiveStep

\* A step that ends the channel.
LEMMA EndStep ==
  ASSUME ChanInv, ChanInv', NEW c \in Ids, Alone(c), Phase(c) \in Live,
         \/ Phase(c)' = "none"
         \/ Phase(c)' = "Finalized" /\ channels'[c].balance = channels[c].balance,
         bounties'[c].reward_bps = bounties[c].reward_bps,
         EscrowOK(c) => Held(c)' >= 0 /\ SettledInFull(c)
  PROVE  StepOK(c)
<1>1. Phase(c) # "none" /\ Phase(c)' \notin Live
  BY Zenon DEF Live
<1>2. NumbersAt(c) /\ NumbersAt(c)'
  BY Zenon, NumbersBoth
<1>3. BalanceKept(c)
  <2>1. channels[c].balance \in Int
    BY Zenon, <1>1, <1>2 DEF NumbersAt
  <2>2. channels[c].balance >= channels[c].balance
    BY <2>1
  <2> QED BY Zenon, <2>2 DEF BalanceKept
<1>4. ~(c > count) /\ count' = count
  BY Zenon, <1>1, <1>2 DEF NumbersAt, Alone
<1>5. ASSUME EscrowOK(c) PROVE EscrowOK(c)'
  BY Zenon, <1>1, <1>4, <1>5 DEF EscrowOK
<1> QED
  BY Zenon, <1>3, <1>5 DEF StepOK

\* A share of at most k of k parts is a part of the whole.
LEMMA Share ==
  ASSUME NEW k \in Nat \ {0}, NEW b \in Nat, b <= k, NEW p \in Nat
  PROVE  (p * b) \div k \in 0..p
<1> DEFINE x == p * b  q == x \div k  r == x % k
<1>1. x \in Nat /\ x <= p * k
  OBVIOUS
<1> HIDE DEF x
<1>2. q \in Nat /\ r \in 0..(k - 1) /\ x = k * q + r
  BY <1>1
<1> HIDE DEF q, r
<1>3. SUFFICES ASSUME q >= p + 1 PROVE FALSE
  BY <1>2 DEF q, x
<1>4. k * q >= k * (p + 1)
  BY <1>2, <1>3
<1> QED
  BY <1>1, <1>2, <1>4

\* The bounty is a part of the payout.
LEMMA RewardBounded ==
  ASSUME ChanInv, NEW c \in Ids, bounties[c].reward_bps <= MAX_REWARD_BPS, NEW p \in Nat
  PROVE  Reward(c, p) \in 0..p
<1> DEFINE b == bounties[c].reward_bps
<1>1. b \in Nat
  BY Zenon DEF ChanInv, TypeOK, WatchtowerBounty
<1>2. b <= MAX_REWARD_BPS
  BY Zenon
<1> HIDE DEF b
<1>3. b <= BPS
  BY <1>1, <1>2, RewardCap
<1>4. (p * b) \div BPS \in 0..p
  BY Zenon, <1>1, <1>3, RewardCap, Share
<1>5. 0 \in 0..p
  OBVIOUS
<1> QED
  BY Zenon, <1>4, <1>5 DEF Reward, b

\* What settling does to the record.
LEMMA FinalizedAlone ==
  ASSUME ChanInv, NEW c \in Ids, Phase(c) \in Live, Finalize(c), count' = count,
         locks' = locks, \A d \in Ids : d # c => flows'[d] = flows[d],
         \A d \in Ids : d # c => bounties'[d] = bounties[d]
  PROVE  Alone(c) /\ Phase(c)' = "Finalized" /\ channels'[c].balance = channels[c].balance
<1>1. TypeOK /\ channels[c] \in Channel
  BY Zenon, LivePhase DEF ChanInv, Live
<1> DEFINE ch == [channels[c] EXCEPT !.phase = "Finalized"]
<1>2. ch \in Channel /\ ch.phase = "Finalized" /\ ch.balance = channels[c].balance
  BY Zenon, <1>1 DEF Channel, Phases
<1>3. channels' = [channels EXCEPT ![c] = ch]
  BY Zenon DEF Finalize
<1> HIDE DEF ch
<1>4. channels'[c] = ch /\ \A d \in Ids : d # c => channels'[d] = channels[d]
  BY Zenon, <1>1, <1>3 DEF TypeOK
<1> QED
  BY Zenon, <1>2, <1>4, ChannelAssumption DEF Alone, Phase

\* Finalizing a dispute pays out the whole escrow.
LEMMA FinalizeStep ==
  ASSUME ChanInv, ChanInv', NEW c \in Ids, finalize_dispute(c) PROVE StepOK(c)
<1> DEFINE A == channels[c].amount  B == channels[c].balance  W == Reward(c, B)
<1>1. TypeOK /\ Phase(c) = "Disputed" /\ NumbersAt(c) /\ NumbersAt(c)'
  BY Zenon, NumbersBoth DEF ChanInv, finalize_dispute
<1>2. A \in Int /\ B \in Int
  BY Zenon, <1>1 DEF NumbersAt
<1>3. W \in Int
  BY Zenon, <1>1, <1>2, RewardTyped
<1> DEFINE s == Positive(A - B)  r == Positive(B - W)
<1>4. s \in Int /\ r \in Int
  BY <1>2, <1>3 DEF Positive
<1>5. PayOut(c, s, r, W)
  BY Zenon DEF finalize_dispute, take_reward
<1>6. /\ \A d \in Ids : d # c => flows'[d] = flows[d]
      /\ flows'[c].in = flows[c].in /\ flows'[c].sender = flows[c].sender + s
      /\ PaidOut(flows'[c]) = PaidOut(flows[c]) + (s + r + W)
  BY <1>1, <1>3, <1>4, <1>5, PayOutTyped
<1>7. /\ \A d \in Ids : d # c => bounties'[d] = bounties[d]
      /\ bounties'[c].reward_bps = bounties[c].reward_bps
  <2>1. bounties' = [bounties EXCEPT ![c].watchtower = FALSE]
    BY Zenon DEF finalize_dispute
  <2> QED BY Zenon, <2>1, <1>1 DEF TypeOK, WatchtowerBounty
<1>8. Alone(c) /\ Phase(c)' = "Finalized" /\ channels'[c].balance = channels[c].balance
  <2>1. Phase(c) \in Live /\ Finalize(c) /\ count' = count /\ locks' = locks
    BY Zenon DEF finalize_dispute, Live
  <2> QED BY Zenon, <1>6, <1>7, <2>1, FinalizedAlone
<1>9. ASSUME EscrowOK(c) PROVE Held(c)' >= 0 /\ SettledInFull(c)
  <2>1. Fits(c) /\ Held(c) = A /\ bounties[c].reward_bps <= MAX_REWARD_BPS
    BY Zenon, <1>1, <1>9 DEF EscrowOK, Live
  <2>2. 0 <= B /\ B <= A
    BY <1>1, <1>2, <2>1 DEF Fits, NumbersAt
  <2>3. W \in 0..B
    BY <1>2, <2>1, <2>2, RewardBounded
  <2> HIDE DEF A, B, W
  <2>4. s = A - B /\ r = B - W
    BY <1>2, <1>3, <2>2, <2>3 DEF Positive
  <2> HIDE DEF s, r
  <2>5. s + r + W = A
    BY <1>2, <1>3, <2>4
  <2>6. flows[c].in \in Int /\ PaidOut(flows[c]) \in Int /\ flows[c].sender \in Int
        /\ flows[c].in - PaidOut(flows[c]) = A
    BY Zenon, <1>1, <2>1 DEF NumbersAt, Held
  <2>7. PaidOut(flows'[c]) = flows'[c].in
    BY <1>2, <1>6, <2>5, <2>6
  <2>8. flows'[c].sender - flows[c].sender = A - B
    BY <1>2, <1>6, <2>4, <2>6
  <2>9. Held(c)' >= 0
    BY <1>6, <2>6, <2>7 DEF Held
  <2> QED
    BY Zenon, <2>7, <2>8, <2>9 DEF SettledInFull, A, B
<1> QED
  BY Zenon, <1>1, <1>7, <1>8, <1>9, EndStep DEF Live

\* claim and reclaim pay out no more than the escrow.
LEMMA ClaimStep ==
  ASSUME ChanInv, ChanInv', NEW c \in Ids, claim(c) \/ reclaim(c) PROVE StepOK(c)
<1> DEFINE A == channels[c].amount  B == channels[c].balance
<1>1. TypeOK /\ Phase(c) \in {"Open", "Closed"} /\ NumbersAt(c) /\ NumbersAt(c)'
  BY Zenon, NumbersBoth DEF ChanInv, claim, reclaim
<1>2. A \in Int /\ B \in Int
  BY Zenon, <1>1 DEF NumbersAt
<1>3. PICK s \in Int, r \in Int :
        /\ PayOut(c, s, r, 0)
        /\ 0 <= B /\ B <= A => s + r <= A
  <2>1. Positive(B) \in Int /\ Positive(A - B) \in Int
        /\ (0 <= B /\ B <= A => Positive(B) <= A /\ Positive(A - B) <= A)
    BY <1>2 DEF Positive
  <2>2. CASE claim(c)
    BY <2>1, <2>2 DEF claim
  <2>3. CASE reclaim(c)
    BY <2>1, <2>3 DEF reclaim
  <2> QED BY Zenon, <2>2, <2>3
<1>4. /\ \A d \in Ids : d # c => flows'[d] = flows[d]
      /\ flows'[c].in = flows[c].in
      /\ PaidOut(flows'[c]) = PaidOut(flows[c]) + (s + r + 0)
  BY <1>1, <1>3, PayOutTyped
<1>5. Alone(c) /\ Phase(c)' = "Finalized" /\ channels'[c].balance = channels[c].balance
      /\ bounties' = bounties
  <2>1. Phase(c) \in Live /\ Finalize(c) /\ UNCHANGED <<count, locks, bounties>>
    BY Zenon DEF claim, reclaim, Live
  <2> QED BY Zenon, <1>4, <2>1, FinalizedAlone
<1>6. SettledInFull(c)
  BY Zenon, <1>1, <1>5 DEF SettledInFull
<1>7. ASSUME EscrowOK(c) PROVE Held(c)' >= 0
  <2>1. Fits(c) /\ Held(c) = A
    BY Zenon, <1>1, <1>7 DEF EscrowOK, Live
  <2>2. 0 <= B /\ B <= A
    BY SMTT(60), <1>1, <1>2, <2>1 DEF Fits, NumbersAt
  <2>3. flows[c].in \in Int /\ PaidOut(flows[c]) \in Int
        /\ flows[c].in - PaidOut(flows[c]) = A
    BY Zenon, <1>1, <2>1 DEF NumbersAt, Held
  <2> HIDE DEF A, B
  <2> QED
    BY <1>2, <1>3, <1>4, <2>2, <2>3 DEF Held
<1> QED
  BY Zenon, <1>1, <1>5, <1>6, <1>7, EndStep DEF Live

\* A refund on a settled channel moves no money.
LEMMA SettledChannelStep ==
  ASSUME ChanInv, ChanInv', NEW c \in Ids, Phase(c) = "Finalized", OnlyLocksChange,
         \A d \in Ids : d # c => locks'[d] = locks[d]
  PROVE  StepOK(c)
<1>1. UNCHANGED <<count, channels, bounties, flows>>
  BY Zenon DEF OnlyLocksChange
<1>2. Alone(c) /\ Phase(c)' = "Finalized" /\ Held(c)' = Held(c)
  BY Zenon, <1>1 DEF Alone, Phase, Held
<1>3. channels[c].balance \in Int /\ ~(c > count)
  BY Zenon, NumbersBoth DEF NumbersAt
<1>4. BalanceKept(c) /\ SettledInFull(c)
  <2>1. channels'[c].balance >= channels[c].balance
    BY <1>1, <1>3
  <2> QED BY Zenon, <1>2, <2>1 DEF BalanceKept, SettledInFull
<1>5. EscrowOK(c) => EscrowOK(c)'
  BY <1>1, <1>2, <1>3, Zenon DEF EscrowOK, Live
<1> QED
  BY Zenon, <1>2, <1>4, <1>5 DEF StepOK

\* A mutual close pays out the whole escrow.
LEMMA MutualCloseStep ==
  ASSUME ChanInv, ChanInv', NEW c \in Ids, NEW r \in Int, NEW s \in Int,
         mutual_close(c, r, s)
  PROVE  StepOK(c)
<1>1. TypeOK /\ Phase(c) \in Live /\ NumbersAt(c) /\ NumbersAt(c)'
  BY Zenon, NumbersBoth DEF ChanInv, mutual_close, Live
<1>2. PayOut(c, s, r, 0) /\ r + s = channels[c].amount
      /\ channels' = [channels EXCEPT ![c] = None] /\ UNCHANGED <<count, locks, bounties>>
  BY Zenon DEF mutual_close
<1>3. /\ \A d \in Ids : d # c => flows'[d] = flows[d]
      /\ flows'[c].in = flows[c].in
      /\ PaidOut(flows'[c]) = PaidOut(flows[c]) + (s + r + 0)
  BY SMTT(30), <1>1, <1>2, PayOutTyped
<1>4. channels'[c] = None /\ \A d \in Ids : d # c => channels'[d] = channels[d]
  BY Zenon, <1>1, <1>2 DEF TypeOK
<1>5. Alone(c) /\ Phase(c)' = "none"
  BY Zenon, <1>2, <1>3, <1>4 DEF Alone, Phase
<1>6. ASSUME EscrowOK(c) PROVE Held(c)' >= 0 /\ SettledInFull(c)
  <2>1. Held(c) = channels[c].amount
    BY Zenon, <1>1, <1>6 DEF EscrowOK
  <2>2. flows[c].in \in Int /\ PaidOut(flows[c]) \in Int /\ channels[c].amount \in Int
        /\ flows[c].in - PaidOut(flows[c]) = channels[c].amount
    BY Zenon, <1>1, <2>1 DEF NumbersAt, Held, Live
  <2>3. PaidOut(flows'[c]) = flows'[c].in
    BY <1>2, <1>3, <2>2
  <2>4. Held(c)' >= 0
    BY <1>3, <2>2, <2>3 DEF Held
  <2> QED
    BY Zenon, <1>5, <2>3, <2>4 DEF SettledInFull
<1> QED
  BY Zenon, <1>1, <1>2, <1>5, <1>6, EndStep

\* A splice moves the escrow by what it pays, a splice out within what is free.
LEMMA SpliceStepOK ==
  ASSUME ChanInv, ChanInv', NEW c \in Ids, NEW a \in Splices,
         splice_in(c, a) \/ splice_out(c, a)
  PROVE  StepOK(c)
<1>1. TypeOK /\ Phase(c) = "Open" /\ channels[c] \in Channel /\ a \in Nat \ {0}
      /\ NumbersAt(c) /\ NumbersAt(c)'
  BY LivePhase, NumbersBoth, ChannelAssumption DEF ChanInv, splice_in, splice_out
<1>2. channels[c].amount \in Int /\ channels[c].balance \in Int /\ Reserved(c) \in Int
      /\ flows[c].in \in Int /\ PaidOut(flows[c]) \in Int
  BY Zenon, <1>1 DEF NumbersAt
<1>3. PICK delta \in Int :
        /\ Resize(c, delta)
        /\ \A d \in Ids : d # c => flows'[d] = flows[d]
        /\ Held(c)' = Held(c) + delta
        /\ delta >= 0 \/ -delta <= free_balance(c)
  <2>1. CASE splice_in(c, a)
    <3>1. PayIn(c, a) /\ Resize(c, a)
      BY Zenon, <2>1 DEF splice_in
    <3>2. (\A d \in Ids : d # c => flows'[d] = flows[d]) /\ Held(c)' = Held(c) + a
      BY <1>1, <1>2, <3>1, PayInTyped DEF Held
    <3> QED BY <1>1, <3>1, <3>2
  <2>2. CASE splice_out(c, a)
    <3>1. PayOut(c, a, 0, 0) /\ Resize(c, -a) /\ a <= free_balance(c)
      BY Zenon, <2>2 DEF splice_out
    <3>2. /\ \A d \in Ids : d # c => flows'[d] = flows[d]
          /\ flows'[c].in = flows[c].in
          /\ PaidOut(flows'[c]) = PaidOut(flows[c]) + (a + 0 + 0)
      BY <1>1, <3>1, PayOutTyped
    <3>3. Held(c)' = Held(c) + (-a)
      BY <1>1, <1>2, <3>2 DEF Held
    <3>4. -a \in Int /\ -(-a) = a
      BY <1>1
    <3> QED BY Zenon, <3>1, <3>2, <3>3, <3>4
  <2> QED BY Zenon, <2>1, <2>2
<1> DEFINE m == channels[c].amount + delta
           ch == [channels[c] EXCEPT !.amount = m]
<1>4. m \in Int /\ m = channels[c].amount + delta
  BY <1>2
<1>5. channels' = [channels EXCEPT ![c] = ch] /\ UNCHANGED <<count, locks, bounties>>
  BY Zenon, <1>3 DEF Resize
<1> HIDE DEF m
<1>6. ch \in Channel /\ ch.phase = "Open" /\ ch.amount = m
      /\ ch.balance = channels[c].balance
  BY Zenon, <1>1, <1>4, LivePhase DEF Channel
<1> HIDE DEF ch
<1>7. channels'[c] = ch /\ \A d \in Ids : d # c => channels'[d] = channels[d]
  BY Zenon, <1>1, <1>5 DEF TypeOK
<1>8. Phase(c)' = "Open" /\ Alone(c) /\ Reserved(c)' = Reserved(c)
  BY <1>3, <1>5, <1>6, <1>7, ChannelAssumption DEF Phase, Alone, Reserved
<1>9. Fits(c) => Fits(c)'
  BY <1>2, <1>3, <1>4, <1>6, <1>7, <1>8 DEF Fits, free_balance
<1>10. Held(c)' - channels'[c].amount = Held(c) - channels[c].amount
  BY <1>1, <1>2, <1>3, <1>4, <1>6, <1>7, SMTT(30) DEF NumbersAt
<1>11. channels'[c].balance >= channels[c].balance
  BY <1>2, <1>6, <1>7
<1> QED
  BY Zenon, <1>1, <1>5, <1>8, <1>9, <1>10, <1>11, LiveStep DEF Live

\* Every step of a hop keeps the channel's balance and escrow.
LEMMA HtlcStepOK ==
  ASSUME ChanInv, ChanInv', NEW c \in Ids, HtlcStep(c) PROVE StepOK(c)
<1>0. TypeOK /\ NumbersAt(c) /\ NumbersAt(c)'
  BY Zenon, NumbersBoth DEF ChanInv
<1>1. ASSUME NEW hop \in Hops, add_htlc(c, hop) PROVE StepOK(c)
  <2>1. /\ \A d \in Ids : d # c => locks'[d] = locks[d]
        /\ hop.amount \in Nat \ {0}
        /\ locks'[c].htlc_reserved = locks[c].htlc_reserved + hop.amount
        /\ locks'[c].hashlock_reserved = locks[c].hashlock_reserved
    <3>1. HopAdded(c, hop)
      BY Zenon, <1>1, AddHtlcLocks
    <3> QED BY Zenon, <3>1 DEF HopAdded, LocksStep
  <2>2. OnlyLocksChange /\ Phase(c) = "Open"
        /\ channels[c].balance + locks[c].htlc_reserved + hop.amount <= channels[c].amount
    BY Zenon, <1>1 DEF add_htlc
  <2>3. locks[c].htlc_reserved \in Nat /\ channels[c].balance \in Int
    BY Zenon, <1>0, <2>2 DEF NumbersAt
  <2>4. Exclusive => locks[c].hashlock_reserved = 0
    BY <2>1, <2>3 DEF Exclusive
  <2>5. Exclusive => channels[c].balance + Reserved(c)' <= channels[c].amount
    BY <2>1, <2>2, <2>3, <2>4 DEF Reserved
  <2> QED BY Zenon, <2>1, <2>2, <2>5, LockStep DEF Live
<1>2. ASSUME NEW i \in 1..MaxLocks, resolve_htlc(c, i) PROVE StepOK(c)
  <2>1. SettleHop(c, i, "Resolved") /\ Phase(c) = "Open"
        /\ channels' = [channels EXCEPT ![c].balance = @ + locks[c].htlcs[i].amount]
        /\ UNCHANGED <<count, bounties, flows>>
    BY Zenon, <1>2 DEF resolve_htlc, SettleHop
  <2> DEFINE a == locks[c].htlcs[i].amount
  <2>2. /\ \A d \in Ids : d # c => locks'[d] = locks[d]
        /\ a \in Nat \ {0}
        /\ locks'[c].htlc_reserved = locks[c].htlc_reserved - a
        /\ locks'[c].hashlock_reserved = locks[c].hashlock_reserved
    <3>1. HopSettled(c, i, "Resolved")
      BY Zenon, <2>1, SettleHtlcLocks
    <3> QED BY Zenon, <3>1 DEF HopSettled, LocksStep
  <2>3. a \in Nat /\ channels' = [channels EXCEPT ![c].balance = @ + a]
    BY Zenon, <2>1, <2>2
  <2> HIDE DEF a
  <2>4. Reserved(c)' = Reserved(c) - a
    BY <1>0, <2>2 DEF Reserved, NumbersAt
  <2> QED BY Zenon, <2>1, <2>2, <2>3, <2>4, CreditStep
<1>3. ASSUME NEW i \in 1..MaxLocks, refund_htlc(c, i) PROVE StepOK(c)
  <2>1. SettleHop(c, i, "Refunded") /\ OnlyLocksChange /\ channels[c] # None
    BY Zenon, <1>3 DEF refund_htlc, SettleHop
  <2> DEFINE a == locks[c].htlcs[i].amount
  <2>2. /\ \A d \in Ids : d # c => locks'[d] = locks[d]
        /\ a \in Nat \ {0}
        /\ locks'[c].htlc_reserved = locks[c].htlc_reserved - a
        /\ locks'[c].hashlock_reserved = locks[c].hashlock_reserved
    <3>1. HopSettled(c, i, "Refunded")
      BY Zenon, <2>1, SettleHtlcLocks
    <3> QED BY Zenon, <3>1 DEF HopSettled, LocksStep
  <2> HIDE DEF a
  <2>3. Reserved(c)' <= Reserved(c) /\ Reserved(c)' \in Int /\ Reserved(c) \in Int
    BY <1>0, <2>2 DEF Reserved, NumbersAt
  <2>4. Phase(c) # "none" /\ (Phase(c) \in Live \/ Phase(c) = "Finalized")
    BY Zenon, <1>0, <2>1 DEF Phase, TypeOK, Channel, Phases, Live
  <2>5. CASE Phase(c) \in Live
    <3>1. channels[c].balance \in Int /\ channels[c].amount \in Int
      BY Zenon, <1>0, <2>4 DEF NumbersAt
    <3>2. Fits(c) => channels[c].balance + Reserved(c)' <= channels[c].amount
      BY <2>3, <3>1 DEF Fits
    <3> QED BY Zenon, <2>1, <2>2, <2>5, <3>2, LockStep
  <2>6. CASE Phase(c) = "Finalized"
    BY Zenon, <2>1, <2>2, <2>6, SettledChannelStep
  <2> QED BY Zenon, <2>4, <2>5, <2>6
<1> QED BY Zenon, <1>1, <1>2, <1>3 DEF HtlcStep

\* Every step of a hashlock payment keeps the channel's balance and escrow.
LEMMA HashlockStepOK ==
  ASSUME ChanInv, ChanInv', NEW c \in Ids, HashlockStep(c) PROVE StepOK(c)
<1>0. TypeOK /\ NumbersAt(c) /\ NumbersAt(c)'
  BY Zenon, NumbersBoth DEF ChanInv
<1>1. ASSUME NEW a \in Payments, add_hashlock_payment(c, a) PROVE StepOK(c)
  <2>1. /\ \A d \in Ids : d # c => locks'[d] = locks[d]
        /\ a \in Nat \ {0}
        /\ locks'[c].htlc_reserved = locks[c].htlc_reserved
        /\ locks'[c].hashlock_reserved = locks[c].hashlock_reserved + a
    <3>1. PaymentAdded(c, a)
      BY Zenon, <1>1, AddPaymentLocks
    <3> QED BY Zenon, <3>1 DEF PaymentAdded, LocksStep
  <2>2. OnlyLocksChange /\ Phase(c) = "Open"
        /\ channels[c].balance + Reserved(c) + a <= channels[c].amount
    BY Zenon, <1>1 DEF add_hashlock_payment
  <2>3. channels[c].balance \in Int
    BY Zenon, <1>0, <2>2 DEF NumbersAt
  <2>4. channels[c].balance + Reserved(c)' <= channels[c].amount
    BY <1>0, <2>1, <2>2, <2>3 DEF Reserved, NumbersAt
  <2> QED BY Zenon, <2>1, <2>2, <2>4, LockStep DEF Live
<1>2. ASSUME NEW i \in 1..MaxLocks, resolve_payment(c, i)
      PROVE  /\ \A d \in Ids : d # c => locks'[d] = locks[d]
             /\ locks[c].payments[i].amount \in Nat
             /\ Reserved(c)' = Reserved(c) - locks[c].payments[i].amount
  <2> DEFINE a == locks[c].payments[i].amount
  <2>1. /\ \A d \in Ids : d # c => locks'[d] = locks[d]
        /\ a \in Nat \ {0}
        /\ locks'[c].htlc_reserved = locks[c].htlc_reserved
        /\ locks'[c].hashlock_reserved = locks[c].hashlock_reserved - a
    <3>1. PaymentSettled(c, i)
      BY Zenon, <1>2, ResolvePaymentLocks
    <3> QED BY Zenon, <3>1 DEF PaymentSettled, LocksStep
  <2> HIDE DEF a
  <2>2. Reserved(c)' = Reserved(c) - a
    BY <1>0, <2>1 DEF Reserved, NumbersAt
  <2> QED BY Zenon, <2>1, <2>2 DEF a
<1>3. ASSUME NEW i \in 1..MaxLocks, reveal_preimage(c, i) PROVE StepOK(c)
  <2>1. resolve_payment(c, i) /\ Phase(c) = "Open"
        /\ channels' = [channels EXCEPT ![c].balance = @ + locks[c].payments[i].amount]
        /\ UNCHANGED <<count, bounties, flows>>
    BY Zenon, <1>3 DEF reveal_preimage
  <2> QED BY Zenon, <1>2, <2>1, CreditStep
<1>4. ASSUME NEW i \in 1..MaxLocks, NEW s \in Signed[c],
             close_channel_with_preimage(c, s, i)
      PROVE  StepOK(c)
  <2> DEFINE a == locks[c].payments[i].amount
             b == s.balance + a
  <2>1. resolve_payment(c, i) /\ Phase(c) = "Open" /\ RecordClose(c, s, b)
        /\ FitsEscrow(c, s.balance)
    BY Zenon, <1>4 DEF close_channel_with_preimage
  <2>2. /\ \A d \in Ids : d # c => locks'[d] = locks[d]
        /\ a \in Nat /\ Reserved(c)' = Reserved(c) - a
    BY Zenon, <1>2, <2>1
  <2>3. s.balance \in Int /\ Reserved(c) \in Int
    BY Zenon, <1>0, SignedTyped DEF NumbersAt
  <2> HIDE DEF a
  <2>4. b \in Int /\ b >= 0 /\ b + Reserved(c)' <= channels[c].amount
    BY <2>1, <2>2, <2>3 DEF FitsEscrow
  <2> HIDE DEF b
  <2> QED BY Zenon, <2>1, <2>2, <2>4, CloseStep
<1> QED BY Zenon, <1>1, <1>3, <1>4 DEF HashlockStep

\* Every step of a channel keeps its balance and its escrow.
LEMMA ChannelStepOK ==
  ASSUME ChanInv, ChanInv', NEW c \in Ids, ChannelStep(c) PROVE StepOK(c)
<1>0. TypeOK /\ NumbersAt(c) /\ NumbersAt(c)'
  BY Zenon, NumbersBoth DEF ChanInv
<1>1. ASSUME NEW s \in Signed[c], close_channel(c, s) PROVE StepOK(c)
  <2>1. s.balance \in Int /\ Phase(c) = "Open" /\ RecordClose(c, s, s.balance)
        /\ s.balance >= 0 /\ s.balance + Reserved(c)' <= channels[c].amount
        /\ locks' = locks
    BY Zenon, <1>1, SignedTyped DEF close_channel, FitsEscrow, Reserved
  <2> QED BY Zenon, <2>1, CloseStep
<1>2. CASE LifeCycle(c)
  BY Zenon, <1>1, <1>2, SubmitStep, FinalizeStep, ClaimStep DEF LifeCycle
<1>3. CASE Delegation(c)
  BY Zenon, <1>1, <1>3, SubmitStep
     DEF Delegation, update_state_delegated, close_channel_delegated
<1>4. CASE BountyStep(c)
  BY Zenon, <1>4, AsideStep DEF BountyStep
<1>5. CASE MutualStep(c)
  <2>1. CASE register_receiver_key(c)
    BY Zenon, <2>1, AsideStep
  <2>2. ASSUME Phase(c) # "none", NEW r \in 0..channels[c].amount,
               mutual_close(c, r, channels[c].amount - r)
        PROVE  StepOK(c)
    <3>1. channels[c].amount \in Int
      BY Zenon, <1>0, <2>2 DEF NumbersAt
    <3>2. r \in Int /\ channels[c].amount - r \in Int
      BY <3>1
    <3> QED BY Zenon, <2>2, <3>2, MutualCloseStep
  <2> QED BY Zenon, <1>5, <2>1, <2>2 DEF MutualStep
<1>6. CASE HtlcStep(c)
  BY Zenon, <1>6, HtlcStepOK
<1>7. CASE HashlockStep(c)
  BY Zenon, <1>7, HashlockStepOK
<1>8. CASE SpliceStep(c)
  BY Zenon, <1>8, SpliceStepOK DEF SpliceStep
<1> QED
  BY <1>2, <1>3, <1>4, <1>5, <1>6, <1>7, <1>8, Zenon DEF ChannelStep

\* Opening a channel touches an id without a record.
LEMMA OpenedUnused ==
  ASSUME ChanInv, NEW a, NEW p, open_channel(a, p), NEW d \in Ids
  PROVE  Phase(d) = "none" \/ (channels'[d] = channels[d] /\ Phase(d)' = Phase(d))
<1> DEFINE c == count + 1
<1>1. c \in Ids /\ TypeOK /\ RecordOK(c) /\ c > count
  BY ChannelAssumption, SMTT(30) DEF ChanInv, TypeOK, open_channel
<1>2. channels[c] = None
  BY Zenon, <1>1 DEF RecordOK
<1>3. d # c => channels'[d] = channels[d]
  BY Zenon, <1>1 DEF open_channel, TypeOK
<1> QED
  BY Zenon, <1>2, <1>3 DEF Phase

\* Steps of no channel: a ledger closes or a channel is opened.
LEMMA OtherSteps ==
  ASSUME ChanInv, ChanInv', \A c \in Ids : EscrowOK(c),
         Tick \/ OpenStep \/ UNCHANGED vars
  PROVE  \A c \in Ids : EscrowOK(c)'
<1>1. CASE Tick \/ UNCHANGED vars
  BY Zenon, <1>1 DEF Tick, vars, EscrowOK, Held, Fits, Phase, Reserved
<1>2. ASSUME NEW a \in Amounts, NEW p \in ChallengePeriods, open_channel(a, p)
      PROVE  \A c \in Ids : EscrowOK(c)'
  <2>0. PICK c \in Ids : c = count + 1
    BY Zenon, <1>2 DEF open_channel
  <2>1. c \in Ids /\ a \in Nat /\ count \in Nat /\ TypeOK /\ c > count
    BY <1>2, <2>0, ChannelAssumption DEF ChanInv, TypeOK, open_channel
  <2>2. PayIn(c, a) /\ count' = c /\ UNCHANGED <<locks, bounties>>
    BY Zenon, <1>2, <2>0 DEF open_channel
  <2>3. channels'[c].amount = a /\ channels'[c].balance = 0
        /\ \A d \in Ids : d # c => channels'[d] = channels[d]
    BY Zenon, <1>2, <2>0, <2>1 DEF open_channel, TypeOK
  <2>4. /\ \A d \in Ids : d # c => flows'[d] = flows[d]
        /\ flows'[c].in = flows[c].in + a /\ PaidOut(flows'[c]) = PaidOut(flows[c])
    BY Zenon, <2>1, <2>2, PayInTyped
  <2>5. Held(c) = 0 /\ Reserved(c) = 0 /\ bounties[c].reward_bps <= MAX_REWARD_BPS
    BY Zenon, <2>1 DEF EscrowOK
  <2>6. Held(c)' = a
    <3>1. flows[c].in \in Int /\ PaidOut(flows[c]) \in Int
      BY Zenon, <2>1, NumbersBoth DEF NumbersAt
    <3> QED BY <2>1, <2>4, <2>5, <3>1 DEF Held
  <2>7. Reserved(c)' = 0
    BY Zenon, <2>2, <2>5 DEF Reserved
  <2>8. EscrowOK(c)'
    <3>1. ~(c > count')
      BY <2>0, <2>1, <2>2
    <3>2. Fits(c)' /\ Held(c)' >= 0
      BY SMTT(20), <2>1, <2>3, <2>6, <2>7 DEF Fits
    <3> QED BY Zenon, <2>2, <2>3, <2>5, <2>6, <3>1, <3>2 DEF EscrowOK
  <2>9. ASSUME NEW d \in Ids, d # c PROVE EscrowOK(d)'
    <3>1. EscrowOK(d)
      BY Zenon
    <3>2. d > count' => d > count
      BY <2>0, <2>1, <2>2, ChannelAssumption
    <3> QED
      BY Zenon, <2>2, <2>3, <2>4, <2>9, <3>1, <3>2 DEF EscrowOK, Held, Fits, Phase, Reserved
  <2> QED BY Zenon, <2>8, <2>9
<1> QED
  BY Zenon, <1>1, <1>2 DEF OpenStep

\* The inductive invariant of the escrow.
EscrowInv == ChanInv /\ \A c \in Ids : EscrowOK(c)

\* Nothing is escrowed initially.
LEMMA EscrowInvInit == ASSUME Init PROVE EscrowInv
<1>1. ASSUME NEW c \in Ids PROVE EscrowOK(c)
  <2>1. /\ bounties[c].reward_bps = 0 /\ Phase(c) = "none"
        /\ flows[c].in = 0 /\ PaidOut(flows[c]) = 0
    BY DEF Init, Phase, PaidOut
  <2>2. Reserved(c) = 0
    BY DEF Init, Reserved, NoLocks
  <2>3. MAX_REWARD_BPS >= 0
    BY RewardCap
  <2>4. Held(c) = 0
    BY <2>1 DEF Held
  <2> HIDE DEF Live
  <2>5. Phase(c) \notin Live
    BY Zenon, <2>1 DEF Live
  <2> QED BY <2>1, <2>2, <2>3, <2>4, <2>5 DEF EscrowOK
<1> QED BY Zenon, <1>1, ChanInvInit DEF EscrowInv

\* Every exclusive step keeps the escrow of every channel.
LEMMA EscrowInvNext ==
  ASSUME EscrowInv, [Next /\ Exclusive]_vars PROVE EscrowInv'
<1>1. ChanInv /\ ChanInv' /\ \A c \in Ids : EscrowOK(c)
  BY Zenon, ChanInvNext DEF EscrowInv
<1>2. ASSUME NEW c \in Ids, ChannelStep(c), Exclusive
      PROVE  \A d \in Ids : EscrowOK(d)'
  <2>1. StepOK(c)
    BY Zenon, <1>1, <1>2, ChannelStepOK
  <2>2. EscrowOK(c)'
    BY Zenon, <1>1, <1>2, <2>1 DEF StepOK
  <2>3. ASSUME NEW d \in Ids, d # c PROVE EscrowOK(d)'
    <3>1. EscrowOK(d)
      BY Zenon, <1>1
    <3> QED
      BY Zenon, <2>1, <2>3, <3>1 DEF StepOK, Alone, EscrowOK, Held, Fits, Phase, Reserved
  <2> QED BY Zenon, <2>2, <2>3
<1>3. \A c \in Ids : EscrowOK(c)'
  BY Zenon, <1>1, <1>2, OtherSteps DEF Next
<1> QED BY Zenon, <1>1, <1>3 DEF EscrowInv

\* The strengthened escrow invariant holds throughout.
THEOREM EscrowInvariant == ExclusiveSpec => []EscrowInv
<1>1. Init => EscrowInv
  BY Zenon, EscrowInvInit
<1>2. EscrowInv /\ [Next /\ Exclusive]_vars => EscrowInv'
  BY Zenon, EscrowInvNext
<1> QED BY <1>1, <1>2, PTL DEF ExclusiveSpec

\* As long as hops are added only while no hashlock payment is pending, the
\* escrow of a live channel covers its balance and everything reserved.
THEOREM EscrowAlwaysCovers == ExclusiveSpec => []EscrowCovers
<1>1. EscrowInv => EscrowCovers
  BY Zenon DEF EscrowInv, EscrowOK, Fits, Live, EscrowCovers
<1> QED BY <1>1, EscrowInvariant, PTL

\* Then no channel is ever paid out more than was paid in for it, so that the
\* escrow of the other channels stays in the contract.
THEOREM EscrowAlwaysBacked == ExclusiveSpec => []EscrowBacked
<1>1. EscrowInv => EscrowBacked
  <2> SUFFICES ASSUME EscrowInv, NEW c \in Ids
               PROVE  /\ PaidOut(flows[c]) <= flows[c].in
                      /\ Phase(c) \in {"Open", "Closed", "Disputed"} =>
                           flows[c].in - PaidOut(flows[c]) = channels[c].amount
    BY Zenon DEF EscrowBacked
  <2>1. EscrowOK(c) /\ NumbersAt(c)
    BY Zenon, Numbers DEF EscrowInv, NumbersOK
  <2> QED BY SMTT(20), <2>1 DEF EscrowOK, Held, Live, NumbersAt
<1> QED BY <1>1, EscrowInvariant, PTL

\* And finalize_dispute and mutual_close pay out everything that was paid in.
THEOREM EndsPayInFull == ExclusiveSpec => SettlesInFull
<1>1. ASSUME EscrowInv, EscrowInv', [Next /\ Exclusive]_vars
      PROVE  [\A c \in Ids : SettledInFull(c)]_vars
  <2>0. ChanInv /\ ChanInv' /\ \A c \in Ids : EscrowOK(c)
    BY Zenon, <1>1 DEF EscrowInv
  <2>1. ASSUME NEW c \in Ids, ChannelStep(c), Exclusive
        PROVE  \A d \in Ids : SettledInFull(d)
    <3>1. StepOK(c)
      BY Zenon, <2>0, <2>1, ChannelStepOK
    <3>2. SettledInFull(c)
      BY Zenon, <2>0, <2>1, <3>1 DEF StepOK
    <3>3. ASSUME NEW d \in Ids, d # c PROVE SettledInFull(d)
      BY Zenon, <3>1, <3>3 DEF StepOK, Alone, SettledInFull, Phase
    <3> QED BY Zenon, <3>2, <3>3
  <2>2. ASSUME Tick \/ OpenStep PROVE \A d \in Ids : SettledInFull(d)
    <3>1. ASSUME NEW d \in Ids
          PROVE  Phase(d)' = Phase(d) \/ Phase(d) = "none"
      <4>1. CASE Tick
        BY Zenon, <4>1 DEF Tick, Phase
      <4>2. ASSUME NEW a \in Amounts, NEW p \in ChallengePeriods, open_channel(a, p)
            PROVE  Phase(d)' = Phase(d) \/ Phase(d) = "none"
        BY Zenon, <4>2, <2>0, OpenedUnused
      <4> QED BY Zenon, <2>2, <4>1, <4>2 DEF OpenStep
    <3> QED BY Zenon, <3>1 DEF SettledInFull
  <2> QED BY Zenon, <1>1, <2>1, <2>2 DEF Next
<1>2. [\A c \in Ids : SettledInFull(c)]_vars
      => [ \A c \in Ids :
             \/ Phase(c) = "Disputed" /\ Phase(c)' = "Finalized"
             \/ Phase(c) # "none" /\ Phase(c)' = "none"
             => /\ PaidOut(flows'[c]) = flows'[c].in
                /\ Phase(c)' = "Finalized" =>
                     flows'[c].sender - flows[c].sender
                       = channels[c].amount - channels[c].balance ]_vars
  BY Zenon DEF SettledInFull
<1>3. ExclusiveSpec => [][Next /\ Exclusive]_vars
  BY PTL DEF ExclusiveSpec
<1> QED BY <1>1, <1>2, <1>3, EscrowInvariant, PTL DEF SettlesInFull

\* Submitted states arrive in any order and any number of times, and the
\* recorded balance of a channel falls only when an open channel is closed.
THEOREM BalancesNeverRegress == Spec => BalanceNeverRegresses
<1>1. ASSUME ChanInv, ChanInv', [Next]_vars PROVE [\A c \in Ids : BalanceKept(c)]_vars
  <2>1. ASSUME NEW c \in Ids, ChannelStep(c) PROVE \A d \in Ids : BalanceKept(d)
    <3>1. StepOK(c)
      BY Zenon, <1>1, <2>1, ChannelStepOK
    <3>2. ASSUME NEW d \in Ids, d # c PROVE BalanceKept(d)
      <4>1. channels'[d] = channels[d]
        BY Zenon, <3>1, <3>2 DEF StepOK, Alone
      <4>2. Phase(d) # "none" => channels[d].balance >= channels[d].balance
        BY <1>1, NumbersBoth DEF NumbersAt
      <4> QED BY Zenon, <4>1, <4>2 DEF BalanceKept
    <3> QED BY Zenon, <3>1, <3>2 DEF StepOK
  <2>2. ASSUME Tick \/ OpenStep PROVE \A d \in Ids : BalanceKept(d)
    <3>1. ASSUME NEW d \in Ids
          PROVE  channels'[d] = channels[d] \/ Phase(d) = "none"
      <4>1. CASE Tick
        BY Zenon, <4>1 DEF Tick
      <4>2. ASSUME NEW a \in Amounts, NEW p \in ChallengePeriods, open_channel(a, p)
            PROVE  channels'[d] = channels[d] \/ Phase(d) = "none"
        BY Zenon, <4>2, <1>1, OpenedUnused
      <4> QED BY Zenon, <2>2, <4>1, <4>2 DEF OpenStep
    <3>2. \A d \in Ids : Phase(d) # "none" => channels[d].balance >= channels[d].balance
      BY <1>1, NumbersBoth DEF NumbersAt
    <3> QED BY Zenon, <3>1, <3>2 DEF BalanceKept
  <2> QED BY Zenon, <1>1, <2>1, <2>2 DEF Next
<1>2. [\A c \in Ids : BalanceKept(c)]_vars
      => [ \A c \in Ids : Phase(c) # "none" /\ Phase(c)' # "none" =>
             \/ channels'[c].balance >= channels[c].balance
             \/ Phase(c) = "Open" /\ Phase(c)' = "Closed" ]_vars
  BY Zenon DEF BalanceKept
<1>3. Spec => [][Next]_vars
  BY PTL DEF Spec
<1> QED BY <1>1, <1>2, <1>3, ChannelInvariant, PTL DEF BalanceNeverRegresses

-----------------------------------------------------------------------------
(* Routes.                                                                 *)

\* The hop outlived by its parent, which exists.
Linked(hop) ==
  hop.parent # None =>
    HopExists(hop.parent) /\ hop.timeout_ledger < HopAt(hop.parent).timeout_ledger

\* Every hop is linked, and refunded only after its timeout.
RouteOK(c) ==
  \A i \in DOMAIN locks[c].htlcs :
    /\ Linked(locks[c].htlcs[i])
    /\ locks[c].htlcs[i].state = "Refunded" => now > locks[c].htlcs[i].timeout_ledger

\* The hops that were there keep their terms and are refunded in time.
HopsKept(c) ==
  /\ DOMAIN locks[c].htlcs \subseteq DOMAIN locks'[c].htlcs
  /\ \A i \in DOMAIN locks[c].htlcs :
       LET g == locks[c].htlcs[i]  h == locks'[c].htlcs[i]
       IN  /\ h.parent = g.parent /\ h.timeout_ledger = g.timeout_ledger
           /\ h.state = "Refunded" => g.state = "Refunded" \/ now > g.timeout_ledger

\* The hops that are added are linked.
HopsLinked(c) ==
  \A i \in DOMAIN locks'[c].htlcs \ DOMAIN locks[c].htlcs :
    Linked(locks'[c].htlcs[i]) /\ locks'[c].htlcs[i].state # "Refunded"

\* The inductive invariant of the routes.
RouteInv == ChanInv /\ \A c \in Ids : RouteOK(c)

\* The parts of a hop.
LEMMA HopParts ==
  ASSUME TypeOK, NEW c \in Ids, NEW i \in DOMAIN locks[c].htlcs
  PROVE  /\ locks[c].htlcs[i].timeout_ledger \in Nat
         /\ locks[c].htlcs[i].parent # None => locks[c].htlcs[i].parent \in Ids \X Nat
<1>1. locks[c].htlcs \in Seq(Htlc)
  BY Zenon, LockFields
<1>2. locks[c].htlcs[i] \in Htlc
  BY <1>1
<1> QED BY Zenon, <1>2 DEF Htlc

\* A step that keeps the hops and links the new ones keeps the routes.
LEMMA RouteStep ==
  ASSUME RouteInv, ChanInv', now' >= now,
         \A c \in Ids : HopsKept(c) /\ HopsLinked(c)
  PROVE  RouteInv'
<1>0. TypeOK /\ TypeOK' /\ now \in Nat /\ now' \in Nat
  <2>1. TypeOK /\ TypeOK'
    BY Zenon DEF RouteInv, ChanInv
  <2>2. now' \in 0..MaxLedger
    BY Zenon, <2>1 DEF TypeOK
  <2> QED BY <2>1, <2>2, NowNat, LedgerBound
<1> DEFINE Later(p, t) == /\ p[2] \in DOMAIN locks'[p[1]].htlcs
                         /\ t < locks'[p[1]].htlcs[p[2]].timeout_ledger
<1>1. ASSUME NEW p \in Ids \X Nat, HopExists(p),
             NEW t, t < HopAt(p).timeout_ledger
      PROVE  Later(p, t)
  <2>1. p[1] \in Ids
    BY Zenon
  <2> QED BY Zenon, <1>1, <2>1 DEF HopExists, HopAt, HopsKept
<1>2. ASSUME NEW c \in Ids, NEW i \in DOMAIN locks'[c].htlcs
      PROVE  /\ Linked(locks[c].htlcs[i])'
             /\ locks'[c].htlcs[i].state = "Refunded" => now' > locks'[c].htlcs[i].timeout_ledger
  <2> DEFINE g == locks[c].htlcs[i]  h == locks'[c].htlcs[i]
  <2>1. CASE i \in DOMAIN locks[c].htlcs
    <3>1. /\ h.parent = g.parent /\ h.timeout_ledger = g.timeout_ledger
          /\ h.state = "Refunded" => g.state = "Refunded" \/ now > g.timeout_ledger
      BY Zenon, <2>1 DEF HopsKept
    <3>2. Linked(g) /\ (g.state = "Refunded" => now > g.timeout_ledger)
      BY Zenon, <2>1 DEF RouteInv, RouteOK
    <3>3. g.timeout_ledger \in Nat /\ (g.parent # None => g.parent \in Ids \X Nat)
      BY Zenon, <1>0, <2>1, HopParts
    <3>4. h.parent # None => Later(h.parent, h.timeout_ledger)
      <4> HIDE DEF Later
      <4> QED BY Zenon, <1>1, <3>1, <3>2, <3>3 DEF Linked
    <3>5. h.state = "Refunded" => now' > h.timeout_ledger
      BY <1>0, <3>1, <3>2, <3>3
    <3> QED BY Zenon, <3>4, <3>5 DEF Linked, HopExists, HopAt
  <2>2. CASE i \notin DOMAIN locks[c].htlcs
    <3>1. Linked(h) /\ h.state # "Refunded"
      BY Zenon, <2>2 DEF HopsLinked
    <3>2. h.parent # None => h.parent \in Ids \X Nat
      <4>1. locks' \in [Ids -> Locks]
        BY Zenon, <1>0 DEF TypeOK
      <4>2. locks'[c].htlcs \in Seq(Htlc)
        BY Zenon, <4>1 DEF Locks
      <4>3. h \in Htlc
        BY <4>2
      <4> QED BY Zenon, <4>3 DEF Htlc
    <3>3. h.parent # None => Later(h.parent, h.timeout_ledger)
      <4> HIDE DEF Later
      <4> QED BY Zenon, <1>1, <3>1, <3>2 DEF Linked
    <3> QED BY Zenon, <3>1, <3>3 DEF Linked, HopExists, HopAt
  <2> QED BY Zenon, <2>1, <2>2
<1> QED
  BY Zenon, <1>2 DEF RouteInv, RouteOK

\* A step that leaves the hops of a channel alone.
LEMMA SameHops ==
  ASSUME NEW c \in Ids, locks'[c].htlcs = locks[c].htlcs
  PROVE  HopsKept(c) /\ HopsLinked(c)
BY Zenon DEF HopsKept, HopsLinked

\* Every step keeps the hops.
LEMMA HopsNext ==
  ASSUME ChanInv, Next
  PROVE  now' >= now /\ \A c \in Ids : HopsKept(c) /\ HopsLinked(c)
<1>0. TypeOK /\ now \in Nat
  BY Zenon, NowNat DEF ChanInv
<1>1. CASE Tick
  <2>1. now' >= now /\ locks' = locks
    BY <1>0, <1>1 DEF Tick
  <2> QED BY Zenon, <2>1, SameHops
<1>2. CASE OpenStep
  <2>1. now' >= now /\ locks' = locks
    BY <1>0, <1>2 DEF OpenStep, open_channel
  <2> QED BY Zenon, <2>1, SameHops
<1>3. ASSUME NEW c \in Ids,
             LifeCycle(c) \/ Delegation(c) \/ BountyStep(c) \/ MutualStep(c) \/ SpliceStep(c)
      PROVE  now' = now /\ locks' = locks
  <2>1. CASE LifeCycle(c)
    BY Zenon, <2>1 DEF LifeCycle, update_state, close_channel, RecordClose, dispute,
         submit_counter_evidence, watchtower_counter_evidence, CounterEvidence,
         finalize_dispute, claim, reclaim
  <2>2. CASE Delegation(c)
    BY Zenon, <2>2 DEF Delegation, update_state_delegated, close_channel_delegated,
         update_state, close_channel, RecordClose
  <2>3. CASE BountyStep(c) \/ MutualStep(c) \/ SpliceStep(c)
    BY Zenon, <2>3 DEF BountyStep, MutualStep, SpliceStep, set_watchtower_bounty,
         register_receiver_key, mutual_close, splice_in, splice_out, Resize
  <2> QED BY Zenon, <1>3, <2>1, <2>2, <2>3
<1>4. ASSUME NEW c \in Ids, HashlockStep(c)
      PROVE  now' = now /\ \A d \in Ids : locks'[d].htlcs = locks[d].htlcs
  <2>1. now' = now
    BY Zenon, <1>4 DEF HashlockStep, add_hashlock_payment, OnlyLocksChange, reveal_preimage,
         close_channel_with_preimage, RecordClose
  <2>2. \/ \E a \in Payments : add_hashlock_payment(c, a)
        \/ \E i \in 1..MaxLocks : resolve_payment(c, i)
    BY Zenon, <1>4 DEF HashlockStep, reveal_preimage, close_channel_with_preimage
  <2>3. \/ \E a \in Payments : PaymentAdded(c, a)
        \/ \E i \in 1..MaxLocks : PaymentSettled(c, i)
    BY Zenon, <2>2, AddPaymentLocks, ResolvePaymentLocks
  <2> QED BY Zenon, <2>1, <2>3 DEF PaymentAdded, PaymentSettled
<1>5. ASSUME NEW c \in Ids, NEW hop \in Hops, add_htlc(c, hop)
      PROVE  now' = now /\ \A d \in Ids : HopsKept(d) /\ HopsLinked(d)
  <2> DEFINE e == NewHop(hop)
             h == locks[c].htlcs
  <2>1. now' = now /\ ParentOutlives(hop)
    BY Zenon, <1>5 DEF add_htlc, OnlyLocksChange
  <2>2. (\A d \in Ids : d # c => locks'[d] = locks[d]) /\ e \in Htlc
        /\ locks'[c].htlcs = Append(h, e)
    <3>1. HopAdded(c, hop)
      BY Zenon, <1>5, AddHtlcLocks
    <3> QED BY Zenon, <3>1 DEF HopAdded, LocksStep
  <2>3. h \in Seq(Htlc)
    BY Zenon, <1>0, LockFields
  <2>4. Linked(e) /\ e.state = "Pending"
    BY Zenon, <2>1 DEF Linked, ParentOutlives, NewHop
  <2> HIDE DEF e
  <2>5. DOMAIN h \subseteq DOMAIN Append(h, e) /\ \A i \in DOMAIN h : Append(h, e)[i] = h[i]
    BY <2>2, <2>3
  <2>6. \A i \in DOMAIN Append(h, e) \ DOMAIN h : Append(h, e)[i] = e
    BY <2>2, <2>3
  <2>7. HopsKept(c) /\ HopsLinked(c)
    BY Zenon, <2>2, <2>4, <2>5, <2>6 DEF HopsKept, HopsLinked
  <2> QED BY Zenon, <2>1, <2>2, <2>7, SameHops
<1>6. ASSUME NEW c \in Ids, NEW i, NEW st \in {"Resolved", "Refunded"}, SettleHop(c, i, st),
             st = "Refunded" => now > locks[c].htlcs[i].timeout_ledger
      PROVE  \A d \in Ids : HopsKept(d) /\ HopsLinked(d)
  <2> DEFINE h == locks[c].htlcs
             x == [h[i] EXCEPT !.state = st]
  <2>1. (\A d \in Ids : d # c => locks'[d] = locks[d])
        /\ locks'[c].htlcs = [h EXCEPT ![i] = x]
    <3>1. HopSettled(c, i, st)
      BY Zenon, <1>6, SettleHtlcLocks
    <3>2. (\A d \in Ids : d # c => locks'[d] = locks[d])
          /\ locks'[c].htlcs = [locks[c].htlcs EXCEPT ![i].state = st]
      BY Zenon, <3>1 DEF HopSettled, LocksStep
    <3> QED BY Zenon, <3>2
  <2>2. h \in Seq(Htlc) /\ i \in DOMAIN h
    BY Zenon, <1>0, <1>6, LockFields DEF SettleHop, Pending
  <2>3. h[i] \in Htlc
    BY <2>2
  <2>4. x.parent = h[i].parent /\ x.timeout_ledger = h[i].timeout_ledger /\ x.state = st
    BY Zenon, <2>3 DEF Htlc
  <2> HIDE DEF x
  <2>5. DOMAIN locks'[c].htlcs = DOMAIN h /\ locks'[c].htlcs[i] = x
        /\ \A j \in DOMAIN h : j # i => locks'[c].htlcs[j] = h[j]
    BY Zenon, <2>1, <2>2
  <2>6. HopsKept(c) /\ HopsLinked(c)
    BY Zenon, <1>6, <2>4, <2>5 DEF HopsKept, HopsLinked
  <2> QED BY Zenon, <2>1, <2>6, SameHops
<1>7. ASSUME NEW c \in Ids, HtlcStep(c)
      PROVE  now' = now /\ \A d \in Ids : HopsKept(d) /\ HopsLinked(d)
  <2>1. ASSUME NEW i \in 1..MaxLocks, resolve_htlc(c, i) \/ refund_htlc(c, i)
        PROVE  /\ now' = now
               /\ \E st \in {"Resolved", "Refunded"} :
                    /\ SettleHop(c, i, st)
                    /\ st = "Refunded" => now > locks[c].htlcs[i].timeout_ledger
    BY Zenon, <2>1 DEF resolve_htlc, refund_htlc, SettleHop, OnlyLocksChange
  <2> QED BY Zenon, <1>5, <1>6, <1>7, <2>1 DEF HtlcStep
<1>8. ASSUME NEW c \in Ids, ChannelStep(c)
      PROVE  now' = now /\ \A d \in Ids : HopsKept(d) /\ HopsLinked(d)
  BY Zenon, <1>3, <1>4, <1>7, <1>8, SameHops DEF ChannelStep
<1> QED
  BY <1>0, <1>1, <1>2, <1>8 DEF Next

\* The routes stay linked throughout.
THEOREM RouteInvariant == Spec => []RouteInv
<1>1. Init => RouteInv
  <2>1. Init => \A c \in Ids : locks[c].htlcs = <<>>
    BY DEF Init, NoLocks
  <2> QED BY <2>1, ChanInvInit DEF RouteInv, RouteOK
<1>2. ASSUME RouteInv, [Next]_vars PROVE RouteInv'
  <2>1. ChanInv /\ ChanInv'
    BY Zenon, <1>2, ChanInvNext DEF RouteInv
  <2>2. CASE Next
    BY Zenon, <1>2, <2>1, <2>2, HopsNext, RouteStep
  <2>3. CASE UNCHANGED vars
    BY ZenonT(30), <1>2, <2>1, <2>3 DEF vars, RouteInv, RouteOK, Linked, HopExists, HopAt
  <2> QED BY Zenon, <1>2, <2>2, <2>3
<1> QED BY <1>1, <1>2, PTL DEF Spec

\* A hop that is resolved in time is resolved while its upstream hop is not
\* refunded and cannot be: the order of the timeouts along a route.
THEOREM UpstreamOutlives == Spec => UpstreamOutlivesDownstream
<1>1. RouteInv /\ [Next]_vars
      => [ \A c \in Ids : \A i \in DOMAIN locks[c].htlcs :
             LET hop == locks[c].htlcs[i]
             IN  (/\ hop.state = "Pending" /\ locks'[c].htlcs[i].state = "Resolved"
                  /\ now <= hop.timeout_ledger /\ hop.parent # None)
                 => /\ HopAt(hop.parent).state # "Refunded"
                    /\ now < HopAt(hop.parent).timeout_ledger ]_vars
  <2> SUFFICES ASSUME RouteInv, NEW c \in Ids, NEW i \in DOMAIN locks[c].htlcs,
                      now <= locks[c].htlcs[i].timeout_ledger,
                      locks[c].htlcs[i].parent # None
               PROVE  LET p == locks[c].htlcs[i].parent
                      IN  HopAt(p).state # "Refunded" /\ now < HopAt(p).timeout_ledger
    BY Zenon
  <2> DEFINE g == locks[c].htlcs[i]  p == g.parent
  <2>1. TypeOK /\ now \in Nat
    BY Zenon, NowNat DEF RouteInv, ChanInv
  <2>2. HopExists(p) /\ g.timeout_ledger < HopAt(p).timeout_ledger
    BY Zenon DEF RouteInv, RouteOK, Linked
  <2>3. g.timeout_ledger \in Nat /\ p \in Ids \X Nat
    BY Zenon, <2>1, HopParts
  <2>4. p[1] \in Ids /\ p[2] \in DOMAIN locks[p[1]].htlcs
    BY Zenon, <2>2, <2>3 DEF HopExists
  <2>5. HopAt(p).timeout_ledger \in Nat
    BY Zenon, <2>1, <2>4, HopParts DEF HopAt
  <2>6. HopAt(p).state = "Refunded" => now > HopAt(p).timeout_ledger
    BY Zenon, <2>4 DEF RouteInv, RouteOK, HopAt
  <2> QED BY <2>1, <2>2, <2>3, <2>5, <2>6
<1>2. Spec => [][Next]_vars
  BY PTL DEF Spec
<1> QED BY <1>1, <1>2, RouteInvariant, PTL DEF UpstreamOutlivesDownstream
=============================================================================
