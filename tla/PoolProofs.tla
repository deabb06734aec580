----------------------------- MODULE PoolProofs -----------------------------
(***************************************************************************)
(* Contracts that hold tokens for many, for every value of their constants: *)
(* streams pay for the ledgers they ran, channels of several assets and    *)
(* stealth deposits are backed by the balances held, and stakes are kept.  *)
(***************************************************************************)
EXTENDS StreamVault, MultiAssetChannel, StealthDeposits, LiquidStaking, SumTheorems

-----------------------------------------------------------------------------
(* Streams.                                                                *)

\* The ledger up to which a stream has run.
RunUntil(s, n) == IF s.paused_at # None THEN s.paused_at ELSE n

\* A stored stream against the ledgers it ran: its start was shifted by the
\* ledgers it stood still and by no more, whatever happened before the start.
RunsAsCounted(s, r, n) ==
  /\ r \in [since : Nat, ledgers : Nat]
  /\ RunUntil(s, n) <= n
  /\ r.since <= s.start_ledger
  /\ s.start_ledger = r.since \/ s.start_ledger <= RunUntil(s, n)
  /\ r.ledgers = Larger(RunUntil(s, n) - s.start_ledger, 0)
  /\ s.start_ledger < s.stop_ledger
  /\ s.deposit <= s.rate_per_ledger * (s.stop_ledger - s.start_ledger)
  /\ s.claimed < s.deposit
  /\ s.claimed <= s.rate_per_ledger * r.ledgers

\* The types and the counts, without the escrow.
StreamsCounted ==
  /\ now \in Nat
  /\ stream_count \in 0..MaxStreams
  /\ stream \in [StreamIds -> Stream \union {None}]
  /\ ran \in [StreamIds -> [since : Nat, ledgers : Nat] \union {None}]
  /\ \A i \in StreamIds : i >= stream_count => stream[i] = None
  /\ \A i \in StreamIds : stream[i] # None => RunsAsCounted(stream[i], ran[i], now)

\* The inductive invariant.
StreamInv == StreamsCounted /\ EscrowIsUnclaimedPrincipal

\* What a stream that runs as counted has streamed.
LEMMA StreamedByLedgers ==
  ASSUME now \in Nat, NEW s \in Stream, NEW r, RunsAsCounted(s, r, now)
  PROVE  /\ streamed_amount(s) = Smaller(s.deposit, s.rate_per_ledger * r.ledgers)
         /\ streamed_amount(s) \in Nat /\ streamed_amount(s) <= s.deposit
         /\ s.claimed <= streamed_amount(s)
         /\ s.paused_at = None /\ now >= s.stop_ledger => streamed_amount(s) = s.deposit
<1> DEFINE a == s.start_ledger
           b == s.stop_ledger
           c == RunUntil(s, now)
           k == s.rate_per_ledger
           d == s.deposit
           l == r.ledgers
<1>1. a \in Nat /\ b \in Nat /\ k \in Nat /\ d \in Nat /\ l \in Nat /\ s.claimed \in Nat /\ c \in Nat
  BY StreamAssumption, Zenon DEF Stream, RunsAsCounted, RunUntil
<1>2. a < b /\ d <= k * (b - a) /\ l = Larger(c - a, 0) /\ s.claimed < d /\ s.claimed <= k * l
  BY Zenon DEF RunsAsCounted
<1>3. streamed_amount(s) = Smaller(Larger(Smaller(c, b) - a, 0) * k, d)
  BY Zenon DEF streamed_amount, RunUntil
<1>4. s.paused_at = None => c = now
  BY Zenon DEF RunUntil
<1> HIDE DEF a, b, c, k, d, l
<1>5. k * l \in Nat
  BY <1>1
<1>6. CASE c <= b
  <2>1. Larger(Smaller(c, b) - a, 0) = l
    BY <1>1, <1>2, <1>6, Zenon DEF Larger, Smaller
  <2>2. l * k = k * l
    BY <1>1
  <2>3. streamed_amount(s) = Smaller(d, k * l)
    BY <1>1, <1>3, <1>5, <2>1, <2>2 DEF Smaller
  <2>4. c = b => d <= k * l
    BY <1>1, <1>2 DEF Larger
  <2> QED
    BY <1>1, <1>2, <1>4, <1>5, <1>6, <2>3, <2>4 DEF Smaller, a, b, c, k, d, l
<1>7. CASE c > b
  <2>1. Larger(Smaller(c, b) - a, 0) = b - a
    BY <1>1, <1>2, <1>7 DEF Larger, Smaller
  <2>2. l = c - a /\ b - a \in Nat /\ l >= b - a
    BY <1>1, <1>2, <1>7 DEF Larger
  <2>3. (b - a) * k = k * (b - a) /\ k * (b - a) \in Nat /\ k * l >= k * (b - a)
    BY <1>1, <2>2
  <2>4. d <= k * l /\ d <= (b - a) * k
    BY <1>1, <1>2, <1>5, <2>3
  <2>5. streamed_amount(s) = d /\ Smaller(d, k * l) = d
    BY <1>1, <1>3, <1>5, <2>1, <2>3, <2>4 DEF Smaller
  <2> QED
    BY <1>1, <1>2, <2>5 DEF a, b, c, k, d, l
<1> QED
  BY <1>1, <1>6, <1>7

\* The properties follow from the inductive invariant.
LEMMA StreamsFollow ==
  ASSUME StreamInv
  PROVE  StreamsSound
<1>1. \A i \in Open : stream[i] \in Stream /\ RunsAsCounted(stream[i], ran[i], now) /\ i \in StreamIds
  BY Zenon DEF StreamInv, StreamsCounted, Open
<1>2. now \in Nat
  BY Zenon DEF StreamInv, StreamsCounted
<1>3. ASSUME NEW i \in Open
      PROVE  /\ streamed_amount(stream[i]) = Smaller(stream[i].deposit, stream[i].rate_per_ledger * ran[i].ledgers)
             /\ stream[i].claimed <= streamed_amount(stream[i])
             /\ stream[i].paused_at = None /\ now >= stream[i].stop_ledger
                  => streamed_amount(stream[i]) = stream[i].deposit
  BY <1>1, <1>2, StreamedByLedgers, Zenon
<1>4. ASSUME NEW i \in Open
      PROVE  stream[i].claimed \in 0..(stream[i].deposit - 1) /\ stream[i].start_ledger < stream[i].stop_ledger
  <2>1. stream[i] \in Stream /\ RunsAsCounted(stream[i], ran[i], now)
    BY <1>1, Zenon
  <2>2. stream[i].claimed \in Nat /\ stream[i].deposit \in Nat
    BY <2>1, Zenon DEF Stream
  <2> QED
    BY <2>1, <2>2 DEF RunsAsCounted
<1>5. StrTypeOK
  BY <1>3, <1>4, Zenon DEF StreamInv, StreamsCounted, StrTypeOK
<1>6. ChargedForLedgersRun /\ PaidOutAtStop
  BY <1>3, Zenon DEF ChargedForLedgersRun, PaidOutAtStop
<1> QED
  BY <1>5, <1>6, Zenon DEF StreamInv, StreamsSound

\* What is left to claim of each stream of st, nothing where there is none.
UnclaimedOf(st) ==
  [i \in StreamIds |-> IF st[i] = None THEN 0 ELSE st[i].deposit - st[i].claimed]

\* The sum over the open streams is the sum over all ids.
LEMMA UnclaimedSum ==
  ASSUME NEW st \in [StreamIds -> Stream \union {None}]
  PROVE  /\ IsFiniteSet(StreamIds) /\ IntOn(UnclaimedOf(st), StreamIds)
         /\ SumFunction([i \in {j \in StreamIds : st[j] # None} |-> st[i].deposit - st[i].claimed])
              = SumFunctionOnSet(UnclaimedOf(st), StreamIds)
<1> DEFINE T == {j \in StreamIds : st[j] # None}
           f == [i \in T |-> st[i].deposit - st[i].claimed]
           g == UnclaimedOf(st)
<1>1. IsFiniteSet(StreamIds)
  BY StreamAssumption, FS_Interval DEF StreamIds
<1>2. \A i \in T : st[i] \in Stream /\ st[i].deposit \in Nat /\ st[i].claimed \in Nat
  BY Zenon DEF Stream
<1>3. IntOn(g, StreamIds)
  BY <1>2 DEF UnclaimedOf, IntOn
<1>4. (\A i \in T : f[i] = g[i]) /\ (\A i \in StreamIds \ T : g[i] = 0) /\ T \in SUBSET StreamIds
  BY Zenon DEF UnclaimedOf
<1>5. SumFunction(f) = SumFunctionOnSet(f, T)
  BY Zenon DEF SumFunction
<1> HIDE DEF T, f, g
<1>6. SumFunctionOnSet(f, T) = SumFunctionOnSet(g, StreamIds)
  BY <1>1, <1>3, <1>4, SumSupport
<1> QED
  BY <1>1, <1>3, <1>5, <1>6, Zenon DEF T, f, g

\* When one stream changes, the unclaimed principal changes by its change.
LEMMA OneStreamChanges ==
  ASSUME StreamInv, NEW i \in StreamIds, NEW s \in Stream \union {None},
         stream' = [stream EXCEPT ![i] = s],
         escrow' = escrow + (IF s = None THEN 0 ELSE s.deposit - s.claimed)
                          - (IF stream[i] = None THEN 0 ELSE stream[i].deposit - stream[i].claimed)
  PROVE  EscrowIsUnclaimedPrincipal' /\ stream' \in [StreamIds -> Stream \union {None}]
<1> DEFINE f == UnclaimedOf(stream)
           g == UnclaimedOf(stream')
<1>1. stream \in [StreamIds -> Stream \union {None}] /\ stream' \in [StreamIds -> Stream \union {None}]
  BY Zenon DEF StreamInv, StreamsCounted
<1>2. stream'[i] = s /\ \A j \in StreamIds \ {i} : stream'[j] = stream[j]
  BY <1>1, Zenon
<1>3. /\ f[i] = (IF stream[i] = None THEN 0 ELSE stream[i].deposit - stream[i].claimed)
      /\ g[i] = (IF s = None THEN 0 ELSE s.deposit - s.claimed)
      /\ \A j \in StreamIds \ {i} : g[j] = f[j]
  BY <1>2 DEF UnclaimedOf
<1>4. IsFiniteSet(StreamIds) /\ IntOn(f, StreamIds) /\ IntOn(g, StreamIds)
  BY <1>1, UnclaimedSum, Zenon
<1>5. f[i] \in Int /\ g[i] \in Int
  BY <1>4, Zenon DEF IntOn
<1>6. escrow = SumFunctionOnSet(f, StreamIds)
  BY <1>1, UnclaimedSum, Zenon DEF StreamInv, EscrowIsUnclaimedPrincipal, Open
<1> HIDE DEF f, g
<1>7. SumFunctionOnSet(g, StreamIds) = SumFunctionOnSet(f, StreamIds) - f[i] + g[i]
  BY <1>3, <1>4, <1>5, SumChange
<1>8. SumFunctionOnSet(f, StreamIds) \in Int
  BY <1>4, SumInt, Zenon
<1>9. escrow' = escrow + g[i] - f[i]
  BY <1>3, Zenon
<1>10. escrow' = SumFunctionOnSet(g, StreamIds)
  BY <1>5, <1>6, <1>7, <1>8, <1>9
<1>11. EscrowIsUnclaimedPrincipal'
  BY <1>1, <1>10, UnclaimedSum, Zenon DEF EscrowIsUnclaimedPrincipal, Open, g
<1> QED
  BY <1>1, <1>11, Zenon

\* A call that replaces one stream by one that runs as counted, or removes it.
LEMMA OneStreamStays ==
  ASSUME StreamInv, NEW i \in StreamIds, NEW s \in Stream \union {None},
         stream' = [stream EXCEPT ![i] = s], now' = now, ran' = ran,
         stream_count' = stream_count, stream[i] # None,
         s # None => RunsAsCounted(s, ran[i], now)
  PROVE  StreamsCounted'
<1>1. stream \in [StreamIds -> Stream \union {None}] /\ stream' \in [StreamIds -> Stream \union {None}]
  BY Zenon DEF StreamInv, StreamsCounted
<1>2. stream'[i] = s /\ \A j \in StreamIds \ {i} : stream'[j] = stream[j]
  BY <1>1, Zenon
<1>3. ASSUME NEW j \in StreamIds, stream'[j] # None  PROVE RunsAsCounted(stream'[j], ran'[j], now')
  BY <1>2, <1>3, Zenon DEF StreamInv, StreamsCounted
<1>4. ASSUME NEW j \in StreamIds, j >= stream_count'  PROVE stream'[j] = None
  BY <1>2, <1>4, Zenon DEF StreamInv, StreamsCounted
<1> QED
  BY <1>1, <1>3, <1>4, Zenon DEF StreamInv, StreamsCounted

\* create_stream
LEMMA CreateStream ==
  ASSUME StreamInv, NEW t \in Terms, create_stream(t), now' = now
  PROVE  StreamInv'
<1> DEFINE c == stream_count
           s == [start_ledger |-> t.from, stop_ledger |-> t.from + t.length,
                 rate_per_ledger |-> t.rate, deposit |-> t.deposit, claimed |-> 0, paused_at |-> None]
           r == [since |-> t.from, ledgers |-> 0]
<1>1. now \in Nat /\ t.from \in Nat /\ t.length \in Nat /\ t.rate \in Nat /\ t.deposit \in Nat
        /\ t.deposit > 0 /\ t.length > 0 /\ t.from >= now /\ t.length * t.rate >= t.deposit
  BY StreamAssumption DEF create_stream, StreamInv, StreamsCounted
<1>2. c \in StreamIds /\ c \in Nat /\ c + 1 \in 0..MaxStreams /\ stream[c] = None
  BY StreamAssumption DEF create_stream, StreamInv, StreamsCounted, StreamIds
<1>3. s \in Stream /\ s # None
  BY <1>1, StreamAssumption DEF Stream
<1>4. RunsAsCounted(s, r, now)
  <2>1. t.rate * (t.from + t.length - t.from) = t.length * t.rate /\ t.rate * 0 = 0
    BY <1>1
  <2> QED
    BY <1>1, <2>1 DEF RunsAsCounted, RunUntil, Larger
<1>5. stream' = [stream EXCEPT ![c] = s] /\ ran' = [ran EXCEPT ![c] = r]
        /\ stream_count' = c + 1 /\ escrow' = escrow + t.deposit
  BY Zenon DEF create_stream
<1> HIDE DEF s, r
<1>6. EscrowIsUnclaimedPrincipal' /\ stream' \in [StreamIds -> Stream \union {None}]
  <2>1. s.deposit = t.deposit /\ s.claimed = 0
    BY Zenon DEF s
  <2>2. escrow \in Int
    BY UnclaimedSum, SumInt DEF StreamInv, StreamsCounted, EscrowIsUnclaimedPrincipal, Open
  <2>3. escrow' = escrow + (s.deposit - s.claimed) - 0
    BY <1>1, <1>5, <2>1, <2>2
  <2> QED
    BY <1>2, <1>3, <1>5, <2>3, OneStreamChanges, Zenon
<1>7. stream \in [StreamIds -> Stream \union {None}] /\ ran \in [StreamIds -> [since : Nat, ledgers : Nat] \union {None}]
  BY Zenon DEF StreamInv, StreamsCounted
<1>8. ran' \in [StreamIds -> [since : Nat, ledgers : Nat] \union {None}]
  BY <1>1, <1>5, <1>7, Zenon DEF r
<1>9. ASSUME NEW i \in StreamIds, stream'[i] # None  PROVE RunsAsCounted(stream'[i], ran'[i], now')
  BY <1>2, <1>4, <1>5, <1>7, <1>9, Zenon DEF StreamInv, StreamsCounted
<1>10. ASSUME NEW i \in StreamIds, i >= stream_count'  PROVE stream'[i] = None
  <2>1. i \in Nat /\ i # c /\ i >= c
    BY <1>2, <1>5, <1>10, StreamAssumption DEF StreamIds
  <2> QED
    BY <1>5, <1>7, <2>1, Zenon DEF StreamInv, StreamsCounted
<1> QED
  BY <1>1, <1>2, <1>5, <1>6, <1>8, <1>9, <1>10, Zenon DEF StreamInv, StreamsCounted

\* The facts of an open stream a call starts from.
LEMMA OpenStream ==
  ASSUME StreamInv, NEW i \in StreamIds, stream[i] # None
  PROVE  /\ stream[i] \in Stream /\ RunsAsCounted(stream[i], ran[i], now) /\ now \in Nat
         /\ streamed_amount(stream[i]) \in Nat
         /\ streamed_amount(stream[i]) <= stream[i].deposit
         /\ streamed_amount(stream[i]) <= stream[i].rate_per_ledger * ran[i].ledgers
         /\ stream[i].claimed <= streamed_amount(stream[i])
         /\ escrow \in Int
<1>1. stream[i] \in Stream /\ RunsAsCounted(stream[i], ran[i], now) /\ now \in Nat
  BY Zenon DEF StreamInv, StreamsCounted
<1>2. escrow \in Int
  BY UnclaimedSum, SumInt, ZenonT(30) DEF StreamInv, StreamsCounted, EscrowIsUnclaimedPrincipal, Open
<1>3. /\ streamed_amount(stream[i]) = Smaller(stream[i].deposit, stream[i].rate_per_ledger * ran[i].ledgers)
      /\ streamed_amount(stream[i]) \in Nat /\ streamed_amount(stream[i]) <= stream[i].deposit
      /\ stream[i].claimed <= streamed_amount(stream[i])
  BY <1>1, StreamedByLedgers, Zenon
<1>4. stream[i].rate_per_ledger * ran[i].ledgers \in Nat /\ stream[i].deposit \in Nat
  BY <1>1 DEF Stream, RunsAsCounted
<1>5. streamed_amount(stream[i]) <= stream[i].rate_per_ledger * ran[i].ledgers
  BY <1>3, <1>4 DEF Smaller
<1> QED
  BY <1>1, <1>2, <1>3, <1>5, Zenon

\* claim_stream: what is paid is what is no longer owed, and a stream claimed in
\* full is removed.
LEMMA ClaimStream ==
  ASSUME StreamInv, NEW i \in StreamIds, claim_stream(i), now' = now
  PROVE  StreamInv'
<1> DEFINE o == stream[i]
           v == streamed_amount(o)
           p == [o EXCEPT !.claimed = v]
           s == IF v = o.deposit THEN None ELSE p
<1>1. /\ o # None /\ o \in Stream /\ RunsAsCounted(o, ran[i], now) /\ escrow \in Int
      /\ v \in Nat /\ v <= o.deposit /\ v <= o.rate_per_ledger * ran[i].ledgers
      /\ o.claimed \in Nat /\ o.deposit \in Nat
  BY OpenStream, Zenon DEF claim_stream, Stream
<1>2. o.claimed + (v - o.claimed) = v
  BY <1>1
<1>3. stream' = [stream EXCEPT ![i] = s] /\ escrow' = escrow - (v - o.claimed) /\ ran' = ran
        /\ stream_count' = stream_count
  <2>1. [o EXCEPT !.claimed = @ + (v - o.claimed)] = p
    BY <1>1, <1>2, Zenon
  <2>2. stream \in [StreamIds -> Stream \union {None}]
    BY Zenon DEF StreamInv, StreamsCounted
  <2> QED
    BY <1>2, <2>1, <2>2, Zenon DEF claim_stream
<1> HIDE DEF v
<1>4. /\ p \in Stream /\ p # None /\ p.deposit = o.deposit /\ p.claimed = v /\ p.start_ledger = o.start_ledger
      /\ p.stop_ledger = o.stop_ledger /\ p.rate_per_ledger = o.rate_per_ledger
      /\ p.paused_at = o.paused_at
  BY <1>1, StreamAssumption, Zenon DEF Stream
<1>5. v # o.deposit => RunsAsCounted(p, ran[i], now)
  <2>1. RunUntil(p, now) = RunUntil(o, now)
    BY <1>4, Zenon DEF RunUntil
  <2> QED
    BY <1>1, <1>4, <2>1 DEF RunsAsCounted
<1>6. s \in Stream \union {None} /\ (s # None => RunsAsCounted(s, ran[i], now))
  BY <1>4, <1>5, Zenon
<1>7. escrow' = escrow + (IF s = None THEN 0 ELSE s.deposit - s.claimed) - (o.deposit - o.claimed)
  BY <1>1, <1>3, <1>4
<1> HIDE DEF s, o
<1>8. EscrowIsUnclaimedPrincipal'
  BY <1>1, <1>3, <1>6, <1>7, OneStreamChanges, Zenon DEF o
<1>9. StreamsCounted'
  BY <1>1, <1>3, <1>6, OneStreamStays, Zenon DEF o
<1> QED
  BY <1>8, <1>9, Zenon DEF StreamInv

\* A call that changes only the ledgers of a stream leaves the escrow as it is.
LEMMA SamePrincipal ==
  ASSUME StreamInv, NEW i \in StreamIds, stream[i] # None, NEW s \in Stream,
         s.deposit = stream[i].deposit, s.claimed = stream[i].claimed,
         stream' = [stream EXCEPT ![i] = s], RunsAsCounted(s, ran[i], now),
         now' = now, UNCHANGED <<stream_count, escrow, ran>>
  PROVE  StreamInv'
<1>1. s # None
  BY StreamAssumption, Zenon
<1>2. escrow \in Int /\ s.deposit \in Nat /\ s.claimed \in Nat
  BY OpenStream, Zenon DEF Stream
<1>3. escrow' = escrow + (s.deposit - s.claimed) - (stream[i].deposit - stream[i].claimed)
  BY <1>2
<1>4. EscrowIsUnclaimedPrincipal'
  BY <1>1, <1>3, OneStreamChanges, Zenon
<1>5. StreamsCounted'
  BY <1>1, OneStreamStays, Zenon
<1> QED
  BY <1>4, <1>5, Zenon DEF StreamInv

\* pause_stream
LEMMA PauseStream ==
  ASSUME StreamInv, NEW i \in StreamIds, pause_stream(i), now' = now
  PROVE  StreamInv'
<1> DEFINE o == stream[i]
           s == [o EXCEPT !.paused_at = now]
<1>1. o # None /\ o \in Stream /\ RunsAsCounted(o, ran[i], now) /\ now \in Nat /\ o.paused_at = None
  BY OpenStream, Zenon DEF pause_stream
<1>2. /\ s \in Stream /\ s.deposit = o.deposit /\ s.claimed = o.claimed /\ s.paused_at = now
      /\ s.start_ledger = o.start_ledger /\ s.stop_ledger = o.stop_ledger
      /\ s.rate_per_ledger = o.rate_per_ledger
  BY <1>1, Zenon DEF Stream
<1>3. RunUntil(s, now) = RunUntil(o, now)
  BY <1>1, <1>2, Zenon DEF RunUntil
<1>4. RunsAsCounted(s, ran[i], now)
  BY <1>1, <1>2, <1>3, Zenon DEF RunsAsCounted
<1>5. stream' = [stream EXCEPT ![i] = s] /\ UNCHANGED <<stream_count, escrow, ran>>
  BY Zenon DEF pause_stream
<1> HIDE DEF s
<1> QED
  BY <1>1, <1>2, <1>4, <1>5, SamePrincipal, Zenon

\* resume_stream: the shift is the ledgers after the start that passed in the
\* pause, so that the stream has run as many ledgers as before.
LEMMA ResumeStream ==
  ASSUME StreamInv, NEW i \in StreamIds, resume_stream(i), now' = now
  PROVE  StreamInv'
<1> DEFINE o == stream[i]
           a == o.start_ledger
           b == o.stop_ledger
           q == o.paused_at
           h == Larger(now, a) - Larger(q, a)
           s == [o EXCEPT !.start_ledger = a + h, !.stop_ledger = b + h, !.paused_at = None]
<1>1. o # None /\ o \in Stream /\ RunsAsCounted(o, ran[i], now) /\ now \in Nat /\ q # None
  BY OpenStream, Zenon DEF resume_stream
<1>2. a \in Nat /\ b \in Nat /\ q \in Nat
  BY <1>1, Zenon DEF Stream
<1>3. q <= now /\ ran[i].since \in Nat /\ ran[i].since <= a /\ (a = ran[i].since \/ a <= q)
        /\ ran[i].ledgers = Larger(q - a, 0)
  BY <1>1, Zenon DEF RunsAsCounted, RunUntil
<1>4. stream' = [stream EXCEPT ![i] = s] /\ UNCHANGED <<stream_count, escrow, ran>>
  <2>1. stream \in [StreamIds -> Stream \union {None}]
    BY DEF StreamInv, StreamsCounted
  <2> QED
    BY <1>1, <2>1, Zenon DEF resume_stream, Stream
<1>5. h \in Nat /\ ran[i].ledgers = Larger(now - (a + h), 0) /\ (a + h = ran[i].since \/ a + h <= now)
        /\ (b + h) - (a + h) = b - a
  BY <1>1, <1>2, <1>3 DEF Larger
<1> DEFINE a1 == a + h
           b1 == b + h
           t == [o EXCEPT !.start_ledger = a1, !.stop_ledger = b1, !.paused_at = None]
<1>6. /\ s \in Stream /\ s.deposit = o.deposit /\ s.claimed = o.claimed /\ s.paused_at = None
      /\ s.start_ledger = a + h /\ s.stop_ledger = b + h
      /\ s.rate_per_ledger = o.rate_per_ledger
  <2>1. a1 \in Nat /\ b1 \in Nat
    BY <1>2, <1>5
  <2>2. s = t
    BY Zenon
  <2> HIDE DEF a1, b1, s, o
  <2>3. /\ t \in Stream /\ t.deposit = o.deposit /\ t.claimed = o.claimed /\ t.paused_at = None
        /\ t.start_ledger = a1 /\ t.stop_ledger = b1 /\ t.rate_per_ledger = o.rate_per_ledger
    BY <1>1, <2>1, Zenon DEF Stream
  <2> QED
    BY <2>2, <2>3, Zenon DEF a1, b1
<1> HIDE DEF h
<1>7. RunUntil(s, now) = now
  BY <1>6, Zenon DEF RunUntil
<1> HIDE DEF s
<1>8. RunsAsCounted(s, ran[i], now)
  <2>1. s.start_ledger < s.stop_ledger /\ s.stop_ledger - s.start_ledger = b - a
    BY <1>1, <1>2, <1>5, <1>6 DEF RunsAsCounted
  <2>2. ran[i].since <= s.start_ledger
    BY <1>2, <1>3, <1>5, <1>6
  <2> QED
    BY <1>1, <1>5, <1>6, <1>7, <2>1, <2>2 DEF RunsAsCounted
<1> HIDE DEF a, b, q
<1> QED
  BY <1>1, <1>4, <1>6, <1>8, SamePrincipal, Zenon

\* cancel_stream pays out all that is left of the stream.
LEMMA CancelStream ==
  ASSUME StreamInv, NEW i \in StreamIds, cancel_stream(i), now' = now
  PROVE  StreamInv'
<1> DEFINE o == stream[i]
           v == streamed_amount(o)
<1>1. o # None /\ o \in Stream /\ escrow \in Int /\ v \in Nat /\ o.claimed \in Nat /\ o.deposit \in Nat
  BY OpenStream, Zenon DEF cancel_stream, Stream
<1>2. stream' = [stream EXCEPT ![i] = None] /\ escrow' = escrow - (v - o.claimed) - (o.deposit - v)
        /\ ran' = ran /\ stream_count' = stream_count
  BY Zenon DEF cancel_stream
<1> HIDE DEF v
<1>3. escrow' = escrow + 0 - (o.deposit - o.claimed)
  BY <1>1, <1>2
<1>4. EscrowIsUnclaimedPrincipal'
  BY <1>1, <1>2, <1>3, OneStreamChanges, Zenon
<1>5. StreamsCounted'
  BY <1>1, <1>2, OneStreamStays, Zenon
<1> QED
  BY <1>4, <1>5 DEF StreamInv

\* A ledger closes: the streams that run have run one ledger more.
LEMMA StreamLedger ==
  ASSUME StreamInv, StreamTick
  PROVE  StreamInv'
<1>1. now \in Nat /\ now' = now + 1 /\ stream' = stream /\ escrow' = escrow /\ stream_count' = stream_count
  BY Zenon DEF StreamInv, StreamsCounted, StreamTick, NextLedger
<1>2. \A i \in StreamIds : ran'[i] =
        IF stream[i] # None /\ stream[i].paused_at = None /\ now >= ran[i].since
        THEN [ran[i] EXCEPT !.ledgers = @ + 1] ELSE ran[i]
  BY Zenon DEF StreamTick
<1>3. ASSUME NEW i \in StreamIds, stream[i] # None
      PROVE  RunsAsCounted(stream[i], ran'[i], now + 1)
  <2> DEFINE o == stream[i]
             r == ran[i]
  <2>1. o \in Stream /\ RunsAsCounted(o, r, now)
    BY <1>3, Zenon DEF StreamInv, StreamsCounted
  <2>2. r \in [since : Nat, ledgers : Nat] /\ o.rate_per_ledger \in Nat /\ o.start_ledger \in Nat /\ o.claimed \in Nat
    BY <2>1, Zenon DEF RunsAsCounted, Stream
  <2>3. CASE o.paused_at # None
    <3>1. ran'[i] = r
      BY <1>2, <2>3, Zenon
    <3>2. RunUntil(o, now + 1) = RunUntil(o, now) /\ RunUntil(o, now) \in Nat
      BY <2>1, <2>3, Zenon DEF RunUntil, Stream
    <3> QED
      BY <1>1, <2>1, <3>1, <3>2 DEF RunsAsCounted
  <2>4. CASE o.paused_at = None /\ now >= r.since
    <3> DEFINE q == [r EXCEPT !.ledgers = @ + 1]
    <3>1. ran'[i] = q /\ q.ledgers = r.ledgers + 1 /\ q.since = r.since /\ q \in [since : Nat, ledgers : Nat]
      BY <1>2, <1>3, <2>2, <2>4
    <3>2. RunUntil(o, now + 1) = now + 1 /\ RunUntil(o, now) = now
      BY <1>1, <2>4, Zenon DEF RunUntil
    <3>3. o.start_ledger <= now /\ r.ledgers = now - o.start_ledger
      BY <1>1, <2>1, <2>2, <2>4, <3>2 DEF RunsAsCounted, Larger
    <3>4. o.rate_per_ledger * (r.ledgers + 1) = o.rate_per_ledger * r.ledgers + o.rate_per_ledger
            /\ o.rate_per_ledger * r.ledgers \in Nat
      BY <2>2
    <3>5. o.claimed <= o.rate_per_ledger * q.ledgers
      BY <2>1, <2>2, <3>1, <3>4 DEF RunsAsCounted
    <3>6. q.ledgers = Larger(now + 1 - o.start_ledger, 0) /\ o.start_ledger <= now + 1
      BY <1>1, <2>2, <3>1, <3>3 DEF Larger
    <3>7. RunUntil(o, now + 1) <= now + 1 /\ q.since <= o.start_ledger /\ o.start_ledger <= RunUntil(o, now + 1)
            /\ q.ledgers = Larger(RunUntil(o, now + 1) - o.start_ledger, 0)
      <4>1. r.since <= o.start_ledger
        BY <2>1, Zenon DEF RunsAsCounted
      <4> HIDE DEF q, r, o
      <4> QED
        BY <1>1, <2>2, <3>1, <3>2, <3>6, <4>1
    <3>8. o.start_ledger < o.stop_ledger /\ o.claimed < o.deposit
            /\ o.deposit <= o.rate_per_ledger * (o.stop_ledger - o.start_ledger)
      BY <2>1, Zenon DEF RunsAsCounted
    <3>9. RunsAsCounted(o, q, now + 1)
      BY ZenonT(30), <3>1, <3>5, <3>7, <3>8 DEF RunsAsCounted
    <3> QED
      BY <3>1, <3>9, Zenon
  <2>5. CASE o.paused_at = None /\ ~ (now >= r.since)
    <3>1. ran'[i] = r
      BY <1>2, <2>5, Zenon
    <3>2. RunUntil(o, now + 1) = now + 1 /\ RunUntil(o, now) = now
      BY <1>1, <2>5, Zenon DEF RunUntil
    <3>3. o.start_ledger = r.since /\ r.ledgers = 0 /\ Larger(now + 1 - o.start_ledger, 0) = 0
      BY <1>1, <2>1, <2>2, <2>5, <3>2 DEF RunsAsCounted, Larger
    <3> QED
      BY <1>1, <2>1, <3>1, <3>2, <3>3 DEF RunsAsCounted
  <2> QED
    BY <2>3, <2>4, <2>5, Zenon
<1>4. ran' \in [StreamIds -> [since : Nat, ledgers : Nat] \union {None}]
  <2>1. ASSUME NEW i \in StreamIds  PROVE ran'[i] \in [since : Nat, ledgers : Nat] \union {None}
    <3>1. CASE stream[i] # None
      BY <1>3, <3>1, Zenon DEF RunsAsCounted
    <3>2. CASE stream[i] = None
      BY <1>2, <3>2, Zenon DEF StreamInv, StreamsCounted
    <3> QED
      BY <3>1, <3>2, Zenon
  <2> QED
    BY <2>1, Zenon DEF StreamTick
<1>5. EscrowIsUnclaimedPrincipal'
  BY <1>1, Zenon DEF StreamInv, EscrowIsUnclaimedPrincipal, Open
<1> QED
  BY <1>1, <1>3, <1>4, <1>5 DEF StreamInv, StreamsCounted

\* stream-vault: every stream is charged for exactly the ledgers it ran since
\* the start that was asked for, however it was paused and resumed, pays out its
\* deposit at its stop, and the contract holds exactly what is not claimed yet.
THEOREM StreamsAlwaysSound == StreamSpec => []StreamsSound
<1>1. ClockInit /\ StrInit => StreamInv
  <2>1. SUFFICES ASSUME ClockInit, StrInit  PROVE StreamInv
    BY Zenon
  <2>2. StreamsCounted
    BY <2>1, StreamAssumption DEF ClockInit, StrInit, StreamsCounted
  <2>3. Open = {}
    BY <2>1, Zenon DEF StrInit, Open
  <2>4. SumFunction([i \in Open |-> stream[i].deposit - stream[i].claimed]) = 0
    BY <2>3, SumEmpty, Zenon DEF SumFunction
  <2> QED
    BY <2>1, <2>2, <2>4, Zenon DEF StreamInv, EscrowIsUnclaimedPrincipal, StrInit
<1>2. StreamInv /\ [StreamNext]_<<streamVars, now>> => StreamInv'
  <2>1. SUFFICES ASSUME StreamInv, [StreamNext]_<<streamVars, now>>  PROVE StreamInv'
    BY Zenon
  <2>2. CASE StreamStep /\ UNCHANGED now
    BY <2>1, <2>2, CreateStream, ClaimStream, PauseStream, ResumeStream, CancelStream, Zenon DEF StreamStep
  <2>3. CASE StreamTick
    BY <2>1, <2>3, StreamLedger, Zenon
  <2>4. CASE UNCHANGED <<streamVars, now>>
    BY <2>1, <2>4, Zenon DEF streamVars, StreamInv, StreamsCounted, EscrowIsUnclaimedPrincipal, Open
  <2> QED
    BY <2>1, <2>2, <2>3, <2>4, Zenon DEF StreamNext
<1>3. StreamInv => StreamsSound
  BY StreamsFollow, Zenon
<1> QED
  BY <1>1, <1>2, <1>3, PTL DEF StreamSpec

-----------------------------------------------------------------------------
(* Channels of several assets.                                             *)

\* What the contract holds of an asset for a channel, none included.
HeldFor(c, a) ==
  IF c # None /\ c.phase # "Finalized" /\ a \in DOMAIN c.deposit THEN c.deposit[a] ELSE 0

\* What a settled channel paid its receiver of an asset.
PaidFor(c, a) ==
  IF c # None /\ c.phase = "Finalized" /\ a \in DOMAIN c.deposit THEN c.balance[a] ELSE 0

\* The two over all channels of ch.
HeldOver(ch, a) == [i \in ChannelIds |-> HeldFor(ch[i], a)]
PaidOver(ch, a) == [i \in ChannelIds |-> PaidFor(ch[i], a)]

\* A stored channel: every balance is within the deposit of its asset, and the
\* balances are those of one signed state, or of none.
ChannelGood(i, c) ==
  /\ DOMAIN c.balance = DOMAIN c.deposit
  /\ \A a \in DOMAIN c.deposit : c.balance[a] \in 0..c.deposit[a]
  /\ c.challenge_period \in 1..MAX_CHALLENGE_PERIOD
  /\ \/ c.nonce = 0 /\ \A a \in DOMAIN c.balance : c.balance[a] = 0
     \/ \E s \in States[i] : s.nonce = c.nonce /\ s.balances = c.balance

\* The inductive invariant.
MaInv ==
  /\ now \in Nat
  /\ maChannels \in [ChannelIds -> MaChannel \union {None}]
  /\ channelCount \in 0..Cardinality(ChannelIds)
  /\ MaOpened = 1..channelCount
  /\ \A i \in MaOpened : ChannelGood(i, maChannels[i])
  /\ held \in [Collateral -> Int] /\ senderHas \in [Collateral -> Int] /\ receiverHas \in [Collateral -> Int]
  /\ AssetsConserved

\* Amounts of a channel are naturals of assets of the contract.
LEMMA AmountsTyped ==
  ASSUME NEW d \in AssetAmounts
  PROVE  DOMAIN d \subseteq Collateral /\ d \in [DOMAIN d -> Nat] /\ \A a \in DOMAIN d : d[a] \in Nat
BY Zenon DEF AssetAmounts

\* Amounts within those of a channel are amounts.
LEMMA AmountsMade ==
  ASSUME NEW d, NEW A \in SUBSET Collateral, d \in [A -> Nat]
  PROVE  d \in AssetAmounts
BY Zenon DEF AssetAmounts

\* A channel's amounts are integers.
LEMMA ForTyped ==
  ASSUME NEW c \in MaChannel \union {None}, NEW a
  PROVE  /\ HeldFor(c, a) \in Int
         /\ (c # None => DOMAIN c.balance = DOMAIN c.deposit) => PaidFor(c, a) \in Int
<1>1. CASE c = None
  BY <1>1 DEF HeldFor, PaidFor
<1>2. CASE c \in MaChannel /\ c # None
  <2>1. c.deposit \in AssetAmounts /\ c.balance \in AssetAmounts
    BY <1>2, Zenon DEF MaChannel
  <2>2. (\A x \in DOMAIN c.deposit : c.deposit[x] \in Nat) /\ (\A x \in DOMAIN c.balance : c.balance[x] \in Nat)
    BY <2>1, AmountsTyped, Zenon
  <2> QED
    BY <1>2, <2>2 DEF HeldFor, PaidFor
<1> QED
  BY <1>1, <1>2, Zenon

\* The sums over the live and over the settled channels are sums over all ids.
LEMMA AssetSums ==
  ASSUME NEW ch \in [ChannelIds -> MaChannel \union {None}], NEW a,
         \A i \in ChannelIds : ch[i] # None => DOMAIN ch[i].balance = DOMAIN ch[i].deposit
  PROVE  LET opened == {i \in ChannelIds : ch[i] # None}
             live == {i \in opened : ch[i].phase # "Finalized"}
             with(S) == {i \in S : a \in DOMAIN ch[i].deposit}
         IN  /\ IsFiniteSet(ChannelIds)
             /\ IntOn(HeldOver(ch, a), ChannelIds) /\ IntOn(PaidOver(ch, a), ChannelIds)
             /\ SumFunction([i \in with(live) |-> ch[i].deposit[a]])
                  = SumFunctionOnSet(HeldOver(ch, a), ChannelIds)
             /\ SumFunction([i \in with(opened \ live) |-> ch[i].balance[a]])
                  = SumFunctionOnSet(PaidOver(ch, a), ChannelIds)
<1> DEFINE opened == {i \in ChannelIds : ch[i] # None}
           live == {i \in opened : ch[i].phase # "Finalized"}
           H == {i \in live : a \in DOMAIN ch[i].deposit}
           P == {i \in opened \ live : a \in DOMAIN ch[i].deposit}
           f == [i \in H |-> ch[i].deposit[a]]
           g == [i \in P |-> ch[i].balance[a]]
           hs == HeldOver(ch, a)
           ps == PaidOver(ch, a)
<1>1. IsFiniteSet(ChannelIds)
  BY MultiAssetAssumption, Zenon
<1>2. IntOn(hs, ChannelIds) /\ IntOn(ps, ChannelIds)
  BY ForTyped, Zenon DEF HeldOver, PaidOver, IntOn
<1>3. H \in SUBSET ChannelIds /\ (\A i \in H : f[i] = hs[i]) /\ (\A i \in ChannelIds \ H : hs[i] = 0)
  BY Zenon DEF HeldOver, HeldFor
<1>4. P \in SUBSET ChannelIds /\ (\A i \in P : g[i] = ps[i]) /\ (\A i \in ChannelIds \ P : ps[i] = 0)
  BY Zenon DEF PaidOver, PaidFor
<1>5. SumFunction(f) = SumFunctionOnSet(f, H) /\ SumFunction(g) = SumFunctionOnSet(g, P)
  BY Zenon DEF SumFunction
<1> HIDE DEF H, P, f, g, hs, ps
<1>6. SumFunctionOnSet(f, H) = SumFunctionOnSet(hs, ChannelIds)
  BY <1>1, <1>2, <1>3, SumSupport
<1>7. SumFunctionOnSet(g, P) = SumFunctionOnSet(ps, ChannelIds)
  BY <1>1, <1>2, <1>4, SumSupport
<1> QED
  BY <1>1, <1>2, <1>5, <1>6, <1>7, Zenon DEF H, P, f, g, hs, ps

\* One channel replaced by c: every asset stays conserved when the balances move
\* by what that channel holds and has paid.
LEMMA OneChannelChanges ==
  ASSUME MaInv, NEW id \in ChannelIds, NEW c \in MaChannel, ChannelGood(id, c),
         maChannels' = [maChannels EXCEPT ![id] = c],
         held' \in [Collateral -> Int], senderHas' \in [Collateral -> Int], receiverHas' \in [Collateral -> Int],
         \A a \in Collateral :
           /\ held'[a] = held[a] - HeldFor(maChannels[id], a) + HeldFor(c, a)
           /\ receiverHas'[a] = receiverHas[a] - PaidFor(maChannels[id], a) + PaidFor(c, a)
           /\ senderHas'[a] + held'[a] + receiverHas'[a] = senderHas[a] + held[a] + receiverHas[a]
  PROVE  AssetsConserved' /\ maChannels' \in [ChannelIds -> MaChannel \union {None}]
<1> DEFINE old == maChannels
           new == maChannels'
<1>1. old \in [ChannelIds -> MaChannel \union {None}] /\ new \in [ChannelIds -> MaChannel \union {None}]
  BY Zenon DEF MaInv
<1>2. new[id] = c /\ \A j \in ChannelIds \ {id} : new[j] = old[j]
  BY <1>1, Zenon
<1>3. \A i \in ChannelIds : old[i] # None => DOMAIN old[i].balance = DOMAIN old[i].deposit
  BY Zenon DEF MaInv, MaOpened, ChannelGood
<1>4. \A i \in ChannelIds : new[i] # None => DOMAIN new[i].balance = DOMAIN new[i].deposit
  BY <1>2, <1>3, Zenon DEF ChannelGood
<1> HIDE DEF old, new
<1>6. ASSUME NEW a \in Collateral
      PROVE  /\ SumFunctionOnSet(HeldOver(new, a), ChannelIds) = held'[a]
             /\ SumFunctionOnSet(PaidOver(new, a), ChannelIds) = receiverHas'[a]
             /\ senderHas'[a] + held'[a] + receiverHas'[a] = SenderFunds
  <2> DEFINE f == HeldOver(old, a)
             g == HeldOver(new, a)
             p == PaidOver(old, a)
             q == PaidOver(new, a)
  <2>1. /\ IsFiniteSet(ChannelIds) /\ IntOn(f, ChannelIds) /\ IntOn(p, ChannelIds)
        /\ IntOn(g, ChannelIds) /\ IntOn(q, ChannelIds)
    BY <1>1, <1>3, <1>4, AssetSums, Zenon
  <2>2. held[a] = SumFunctionOnSet(f, ChannelIds) /\ receiverHas[a] = SumFunctionOnSet(p, ChannelIds)
          /\ senderHas[a] + held[a] + receiverHas[a] = SenderFunds
    BY <1>1, <1>3, AssetSums, Zenon DEF MaInv, AssetsConserved, MaLive, MaOpened, old
  <2>3. /\ f[id] = HeldFor(old[id], a) /\ g[id] = HeldFor(c, a) /\ (\A j \in ChannelIds \ {id} : g[j] = f[j])
        /\ p[id] = PaidFor(old[id], a) /\ q[id] = PaidFor(c, a) /\ (\A j \in ChannelIds \ {id} : q[j] = p[j])
    BY <1>2, Zenon DEF HeldOver, PaidOver
  <2>4. f[id] \in Int /\ g[id] \in Int /\ p[id] \in Int /\ q[id] \in Int
    BY <2>1, Zenon DEF IntOn
  <2>5. held'[a] = held[a] - f[id] + g[id] /\ receiverHas'[a] = receiverHas[a] - p[id] + q[id]
    BY <2>3, SMTT(30) DEF old
  <2> HIDE DEF f, g, p, q
  <2>6. SumFunctionOnSet(g, ChannelIds) = SumFunctionOnSet(f, ChannelIds) - f[id] + g[id]
    BY <2>1, <2>3, <2>4, SumChange, SMTT(30)
  <2>7. SumFunctionOnSet(q, ChannelIds) = SumFunctionOnSet(p, ChannelIds) - p[id] + q[id]
    BY <2>1, <2>3, <2>4, SumChange
  <2> QED
    BY <2>2, <2>5, <2>6, <2>7, Zenon DEF g, q
<1>7. AssetsConserved'
  BY <1>1, <1>4, <1>6, AssetSums, Zenon DEF AssetsConserved, MaLive, MaOpened, new
<1> QED
  BY <1>1, <1>7, Zenon DEF new

\* The facts of an opened channel a call starts from.
LEMMA OpenedChannel ==
  ASSUME MaInv, NEW id \in ChannelIds, maChannels[id] # None
  PROVE  maChannels[id] \in MaChannel /\ ChannelGood(id, maChannels[id]) /\ id \in MaOpened
BY Zenon DEF MaInv, MaOpened

\* A call that leaves the count and, channel id aside, the channels.
LEMMA MaFrame ==
  ASSUME MaInv, NEW id \in ChannelIds, NEW c \in MaChannel, ChannelGood(id, c), maChannels[id] # None,
         maChannels' = [maChannels EXCEPT ![id] = c], channelCount' = channelCount, now' = now,
         AssetsConserved', maChannels' \in [ChannelIds -> MaChannel \union {None}],
         held' \in [Collateral -> Int], senderHas' \in [Collateral -> Int], receiverHas' \in [Collateral -> Int]
  PROVE  MaInv'
<1>1. maChannels \in [ChannelIds -> MaChannel \union {None}] /\ c # None
  BY MultiAssetAssumption, Zenon DEF MaInv
<1>2. maChannels'[id] = c /\ \A j \in ChannelIds \ {id} : maChannels'[j] = maChannels[j]
  BY <1>1, Zenon
<1>3. MaOpened' = MaOpened
  BY <1>1, <1>2, Zenon DEF MaOpened
<1>4. ASSUME NEW i \in MaOpened'  PROVE ChannelGood(i, maChannels'[i])
  BY <1>2, <1>3, Zenon DEF MaInv, MaOpened
<1> QED
  BY <1>3, <1>4, Zenon DEF MaInv

\* A call that stores a state in a channel and moves nothing.
LEMMA StoresState ==
  ASSUME MaInv, NEW id \in ChannelIds, NEW c \in MaChannel, ChannelGood(id, c), maChannels[id] # None,
         maChannels[id].phase # "Finalized", c.phase # "Finalized", c.deposit = maChannels[id].deposit,
         maChannels' = [maChannels EXCEPT ![id] = c], now' = now,
         UNCHANGED <<channelCount, held, senderHas, receiverHas>>
  PROVE  MaInv'
<1>1. c # None
  BY MultiAssetAssumption, Zenon
<1>2. held \in [Collateral -> Int] /\ senderHas \in [Collateral -> Int] /\ receiverHas \in [Collateral -> Int]
  BY Zenon DEF MaInv
<1>3. ASSUME NEW a \in Collateral
      PROVE  /\ held'[a] = held[a] - HeldFor(maChannels[id], a) + HeldFor(c, a)
             /\ receiverHas'[a] = receiverHas[a] - PaidFor(maChannels[id], a) + PaidFor(c, a)
             /\ senderHas'[a] + held'[a] + receiverHas'[a] = senderHas[a] + held[a] + receiverHas[a]
  <2>1. HeldFor(c, a) = HeldFor(maChannels[id], a) /\ PaidFor(c, a) = 0 /\ PaidFor(maChannels[id], a) = 0
    BY <1>1, Zenon DEF HeldFor, PaidFor
  <2>2. HeldFor(c, a) \in Int /\ held[a] \in Int /\ receiverHas[a] \in Int
    BY <1>2, ForTyped, Zenon
  <2> QED
    BY <2>1, <2>2
<1>4. AssetsConserved' /\ maChannels' \in [ChannelIds -> MaChannel \union {None}]
  BY <1>2, <1>3, OneChannelChanges, Zenon
<1> QED
  BY <1>2, <1>4, MaFrame, Zenon

\* A channel with the balances of a signed state.
Stored(c, s, ph, cl) == [apply_state(c, s) EXCEPT !.phase = ph, !.closed_at = cl]

\* A channel takes over a signed state whole.
LEMMA AppliedState ==
  ASSUME MaInv, NEW id \in ChannelIds, maChannels[id] # None, NEW s \in States[id],
         states_assets_match(maChannels[id], s),
         NEW ph \in {"Open", "Closed"}, NEW cl \in Nat
  PROVE  LET c == maChannels[id]
             d == Stored(c, s, ph, cl)
         IN  /\ d \in MaChannel /\ ChannelGood(id, d)
             /\ d.deposit = c.deposit /\ d.balance = s.balances /\ d.nonce = s.nonce
             /\ d.phase = ph /\ d.closed_at = cl /\ d.challenge_period = c.challenge_period
<1> DEFINE c == maChannels[id]
           b == s.balances
           d == Stored(c, s, ph, cl)
<1>1. c \in MaChannel /\ ChannelGood(id, c)
  BY OpenedChannel, Zenon
<1>2. c.deposit \in AssetAmounts /\ c.challenge_period \in Nat /\ c.opened_at \in Nat
  BY <1>1, Zenon DEF MaChannel
<1>3. DOMAIN c.deposit \subseteq Collateral /\ \A a \in DOMAIN c.deposit : c.deposit[a] \in Nat
  BY <1>2, AmountsTyped, Zenon
<1>4. s.nonce \in Nat /\ b \in [DOMAIN b -> Int]
  BY MultiAssetAssumption, Zenon
<1>5. DOMAIN b = DOMAIN c.deposit /\ \A a \in DOMAIN b : b[a] \in 0..c.deposit[a]
  BY Zenon DEF states_assets_match
<1>6. b \in [DOMAIN c.deposit -> Nat]
  BY <1>3, <1>4, <1>5
<1>7. b \in AssetAmounts
  BY <1>3, <1>6, AmountsMade, Zenon
<1>8. DOMAIN c.balance = DOMAIN c.deposit
  BY <1>1, Zenon DEF ChannelGood
<1>9. [a \in DOMAIN c.balance |-> IF a \in DOMAIN b THEN b[a] ELSE c.balance[a]] = b
  BY <1>4, <1>5, <1>8, Zenon
<1>10. apply_state(c, s) = [c EXCEPT !.balance = b, !.nonce = s.nonce]
  BY <1>9, Zenon DEF apply_state
<1> HIDE DEF c, b
<1>11. d = [[c EXCEPT !.balance = b, !.nonce = s.nonce] EXCEPT !.phase = ph, !.closed_at = cl]
  BY <1>10, Zenon DEF Stored
<1> HIDE DEF d
<1>12. /\ d \in MaChannel /\ d.deposit = c.deposit /\ d.balance = b /\ d.nonce = s.nonce
       /\ d.phase = ph /\ d.closed_at = cl /\ d.challenge_period = c.challenge_period
  BY <1>1, <1>4, <1>7, <1>11, Zenon DEF MaChannel
<1>13. ChannelGood(id, d)
  BY <1>1, <1>5, <1>12, Zenon DEF ChannelGood, b
<1> QED
  BY <1>12, <1>13, Zenon DEF c, b, d

\* update_multi_asset_state: the stored channel afterwards.
LEMMA UpdateStores ==
  ASSUME MaInv, NEW id \in ChannelIds, NEW s \in States[id], update_multi_asset_state(id, s)
  PROVE  LET c == maChannels[id]
         IN  \E d \in MaChannel :
               /\ maChannels' = [maChannels EXCEPT ![id] = d]
               /\ c # None /\ c.phase # "Finalized" /\ ChannelGood(id, d)
               /\ d.phase = c.phase /\ d.deposit = c.deposit /\ d.nonce = s.nonce /\ s.nonce > c.nonce
               /\ c.phase = "Closed" => d.closed_at = now
<1> DEFINE c == maChannels[id]
           cl == IF c.phase = "Closed" THEN now ELSE c.closed_at
           d == Stored(c, s, c.phase, cl)
           e == [apply_state(c, s) EXCEPT !.closed_at = cl]
<1>1. c # None /\ c \in MaChannel /\ c.phase \in {"Open", "Closed"} /\ states_assets_match(c, s) /\ s.nonce > c.nonce
  BY OpenedChannel, Zenon DEF update_multi_asset_state
<1>2. cl \in Nat
  BY <1>1, ZenonT(30) DEF MaInv, MaChannel
<1>3. /\ d \in MaChannel /\ ChannelGood(id, d)
      /\ d.deposit = c.deposit /\ d.nonce = s.nonce /\ d.phase = c.phase /\ d.closed_at = cl
  BY <1>1, <1>2, AppliedState
<1>4. e = d
  BY <1>1, Zenon DEF apply_state, MaChannel, Stored
<1>5. maChannels' = [maChannels EXCEPT ![id] = e]
  <2>1. apply_state(c, s).closed_at = c.closed_at
    BY <1>1, Zenon DEF apply_state, MaChannel
  <2> QED
    BY <2>1, Zenon DEF update_multi_asset_state
<1> HIDE DEF d, e
<1> QED
  BY <1>1, <1>3, <1>4, <1>5, Zenon

\* close_multi_asset_channel: the stored channel afterwards.
LEMMA CloseStores ==
  ASSUME MaInv, NEW id \in ChannelIds, NEW s \in States[id], close_multi_asset_channel(id, s)
  PROVE  LET c == maChannels[id]
         IN  \E d \in MaChannel :
               /\ maChannels' = [maChannels EXCEPT ![id] = d]
               /\ c # None /\ c.phase = "Open" /\ ChannelGood(id, d)
               /\ d.phase = "Closed" /\ d.deposit = c.deposit /\ d.nonce = s.nonce /\ s.nonce >= c.nonce
<1> DEFINE c == maChannels[id]
           d == Stored(c, s, "Closed", now)
<1>1. c # None /\ c.phase = "Open" /\ states_assets_match(c, s) /\ s.nonce >= c.nonce /\ now \in Nat
  BY Zenon DEF close_multi_asset_channel, MaInv
<1>2. d \in MaChannel /\ ChannelGood(id, d) /\ d.deposit = c.deposit /\ d.nonce = s.nonce /\ d.phase = "Closed"
  BY <1>1, AppliedState
<1>3. maChannels' = [maChannels EXCEPT ![id] = d]
  BY Zenon DEF close_multi_asset_channel, Stored
<1> HIDE DEF d
<1> QED
  BY <1>1, <1>2, <1>3, Zenon

\* open_multi_asset_channel takes the next id and moves each deposit.
LEMMA OpenChannel ==
  ASSUME MaInv, NEW d \in DepositMaps, NEW p \in Periods, open_multi_asset_channel(d, p), now' = now
  PROVE  MaInv' /\ channelCount + 1 \in ChannelIds /\ maChannels[channelCount + 1] = None
<1> DEFINE id == channelCount + 1
           c == [deposit |-> d, balance |-> [a \in DOMAIN d |-> 0], nonce |-> 0,
                 phase |-> "Open", opened_at |-> now, closed_at |-> 0,
                 challenge_period |-> effective_challenge_period(p)]
<1>1. /\ id \in ChannelIds /\ DOMAIN d \subseteq Collateral /\ d \in [DOMAIN d -> Int]
      /\ \A a \in DOMAIN d : d[a] > 0
  BY MultiAssetAssumption, Zenon DEF open_multi_asset_channel
<1>2. channelCount \in Nat /\ Cardinality(ChannelIds) \in Nat /\ id \notin MaOpened /\ maChannels[id] = None
  BY <1>1, MultiAssetAssumption, FS_CardinalityType DEF MaInv, MaOpened
<1>3. d \in [DOMAIN d -> Nat] /\ [a \in DOMAIN d |-> 0] \in [DOMAIN d -> Nat]
  BY <1>1
<1>4. d \in AssetAmounts /\ [a \in DOMAIN d |-> 0] \in AssetAmounts
  BY <1>1, <1>3, AmountsMade, Zenon
<1>5. effective_challenge_period(p) \in 1..MAX_CHALLENGE_PERIOD
  BY MultiAssetAssumption DEF effective_challenge_period
<1>6. c \in MaChannel /\ now \in Nat
  BY <1>4, <1>5, MultiAssetAssumption DEF MaChannel, MaInv
<1>7. ChannelGood(id, c)
  BY <1>1, <1>3, <1>5 DEF ChannelGood
<1>8. /\ maChannels' = [maChannels EXCEPT ![id] = c] /\ channelCount' = id /\ receiverHas' = receiverHas
      /\ held' = [a \in Collateral |-> held[a] + IF a \in DOMAIN d THEN d[a] ELSE 0]
      /\ senderHas' = [a \in Collateral |-> senderHas[a] - IF a \in DOMAIN d THEN d[a] ELSE 0]
  BY Zenon DEF open_multi_asset_channel
<1>9. c.deposit = d /\ c.phase = "Open" /\ c # None
  BY <1>6, MultiAssetAssumption, Zenon
<1> HIDE DEF c
<1>10. held \in [Collateral -> Int] /\ senderHas \in [Collateral -> Int] /\ receiverHas \in [Collateral -> Int]
  BY Zenon DEF MaInv
<1>11. held' \in [Collateral -> Int] /\ senderHas' \in [Collateral -> Int] /\ receiverHas' \in [Collateral -> Int]
  BY <1>3, <1>8, <1>10
<1>12. ASSUME NEW a \in Collateral
       PROVE  /\ held'[a] = held[a] - HeldFor(maChannels[id], a) + HeldFor(c, a)
              /\ receiverHas'[a] = receiverHas[a] - PaidFor(maChannels[id], a) + PaidFor(c, a)
              /\ senderHas'[a] + held'[a] + receiverHas'[a] = senderHas[a] + held[a] + receiverHas[a]
  <2> DEFINE x == IF a \in DOMAIN d THEN d[a] ELSE 0
  <2>1. x \in Nat /\ held[a] \in Int /\ senderHas[a] \in Int /\ receiverHas[a] \in Int
    BY <1>3, <1>10, Zenon
  <2>2. HeldFor(c, a) = x /\ PaidFor(c, a) = 0 /\ HeldFor(maChannels[id], a) = 0 /\ PaidFor(maChannels[id], a) = 0
    BY <1>2, <1>9, Zenon DEF HeldFor, PaidFor
  <2>3. held'[a] = held[a] + x /\ senderHas'[a] = senderHas[a] - x /\ receiverHas'[a] = receiverHas[a]
    BY <1>8, Zenon
  <2> HIDE DEF x
  <2> QED
    BY <2>1, <2>2, <2>3
<1>13. AssetsConserved' /\ maChannels' \in [ChannelIds -> MaChannel \union {None}]
  <2> HIDE DEF id
  <2> QED
    BY <1>1, <1>6, <1>7, <1>8, <1>11, <1>12, OneChannelChanges, Zenon
<1>14. maChannels \in [ChannelIds -> MaChannel \union {None}]
  BY Zenon DEF MaInv
<1>15. maChannels'[id] = c /\ \A j \in ChannelIds \ {id} : maChannels'[j] = maChannels[j]
  BY <1>1, <1>8, <1>14, Zenon
<1>16. MaOpened' = MaOpened \union {id}
  BY <1>1, <1>9, <1>15, Zenon DEF MaOpened
<1>17. MaOpened' = 1..channelCount' /\ channelCount' \in 0..Cardinality(ChannelIds)
  BY <1>1, <1>2, <1>8, <1>16, MultiAssetAssumption, SMTT(30) DEF MaInv
<1>18. ASSUME NEW i \in MaOpened'  PROVE ChannelGood(i, maChannels'[i])
  BY <1>7, <1>15, <1>16 DEF MaInv, MaOpened
<1> QED
  BY <1>1, <1>2, <1>6, <1>11, <1>13, <1>17, <1>18, Zenon DEF MaInv

\* settle_multi_asset_channel pays the receiver its balance of every asset and
\* the sender the rest.
LEMMA SettleChannel ==
  ASSUME MaInv, NEW id \in ChannelIds, settle_multi_asset_channel(id), now' = now
  PROVE  MaInv'
<1> DEFINE c == maChannels[id]
           d == [c EXCEPT !.phase = "Finalized"]
           paid == [a \in Collateral |-> IF a \in DOMAIN c.deposit THEN c.balance[a] ELSE 0]
           back == [a \in Collateral |-> IF a \in DOMAIN c.deposit THEN c.deposit[a] - c.balance[a] ELSE 0]
<1>1. /\ c # None /\ c \in MaChannel /\ ChannelGood(id, c) /\ c.phase # "Finalized"
      /\ maChannels' = [maChannels EXCEPT ![id] = d] /\ channelCount' = channelCount
      /\ held' = [a \in Collateral |-> held[a] - paid[a] - back[a]]
      /\ receiverHas' = [a \in Collateral |-> receiverHas[a] + paid[a]]
      /\ senderHas' = [a \in Collateral |-> senderHas[a] + back[a]]
  BY OpenedChannel, Zenon DEF settle_multi_asset_channel
<1>2. /\ d \in MaChannel /\ d.phase = "Finalized" /\ d.deposit = c.deposit /\ d.balance = c.balance
      /\ d.nonce = c.nonce /\ d.challenge_period = c.challenge_period
  BY <1>1, Zenon DEF MaChannel
<1>3. ChannelGood(id, d) /\ d # None
  BY <1>1, <1>2, MultiAssetAssumption, Zenon DEF ChannelGood
<1>4. \A a \in DOMAIN c.deposit : c.deposit[a] \in Nat /\ c.balance[a] \in Nat
  <2>1. c.deposit \in AssetAmounts /\ c.balance \in AssetAmounts /\ DOMAIN c.balance = DOMAIN c.deposit
    BY <1>1, Zenon DEF MaChannel, ChannelGood
  <2> QED
    BY <2>1, AmountsTyped, Zenon
<1>5. held \in [Collateral -> Int] /\ senderHas \in [Collateral -> Int] /\ receiverHas \in [Collateral -> Int]
  BY Zenon DEF MaInv
<1>6. \A a \in Collateral : paid[a] \in Int /\ back[a] \in Int
  BY <1>4
<1>7. \A a \in Collateral : /\ HeldFor(c, a) = paid[a] + back[a] /\ PaidFor(c, a) = 0
                            /\ HeldFor(d, a) = 0 /\ PaidFor(d, a) = paid[a]
  BY <1>1, <1>2, <1>3, <1>4, SMTT(30) DEF HeldFor, PaidFor
<1> HIDE DEF c, d, paid, back
<1>8. held' \in [Collateral -> Int] /\ senderHas' \in [Collateral -> Int] /\ receiverHas' \in [Collateral -> Int]
  BY <1>1, <1>5, <1>6, SMTT(30)
<1>9. \A a \in Collateral : /\ held'[a] = held[a] - HeldFor(c, a) + HeldFor(d, a)
                            /\ receiverHas'[a] = receiverHas[a] - PaidFor(c, a) + PaidFor(d, a)
                            /\ senderHas'[a] + held'[a] + receiverHas'[a] = senderHas[a] + held[a] + receiverHas[a]
  BY <1>1, <1>5, <1>6, <1>7
<1>10. AssetsConserved' /\ maChannels' \in [ChannelIds -> MaChannel \union {None}]
  BY <1>1, <1>2, <1>3, <1>8, <1>9, OneChannelChanges, Zenon DEF c
<1> QED
  BY <1>1, <1>2, <1>3, <1>8, <1>10, MaFrame, Zenon DEF c

\* The inductive invariant holds throughout.
LEMMA MaInvariant == MaSpec => []MaInv
<1>1. ClockInit /\ MaInit => MaInv
  <2>1. SUFFICES ASSUME ClockInit, MaInit  PROVE MaInv
    OBVIOUS
  <2>2. MaOpened = {} /\ MaLive = {}
    BY <2>1, Zenon DEF MaInit, MaOpened, MaLive
  <2>3. ASSUME NEW f, DOMAIN f = {}  PROVE SumFunction(f) = 0
    BY <2>3, SumEmpty, Zenon DEF SumFunction
  <2>4. ASSUME NEW a \in Collateral
        PROVE  /\ SumFunction([i \in {j \in MaLive : a \in DOMAIN maChannels[j].deposit} |-> maChannels[i].deposit[a]]) = 0
               /\ SumFunction([i \in {j \in MaOpened \ MaLive : a \in DOMAIN maChannels[j].deposit} |-> maChannels[i].balance[a]]) = 0
    <3> DEFINE f == [i \in {j \in MaLive : a \in DOMAIN maChannels[j].deposit} |-> maChannels[i].deposit[a]]
               g == [i \in {j \in MaOpened \ MaLive : a \in DOMAIN maChannels[j].deposit} |-> maChannels[i].balance[a]]
    <3>1. DOMAIN f = {} /\ DOMAIN g = {}
      BY <2>2, Zenon
    <3> HIDE DEF f, g
    <3>2. SumFunction(f) = 0 /\ SumFunction(g) = 0
      BY <2>3, <3>1, Zenon
    <3> QED
      BY <3>2, Zenon DEF f, g
  <2>5. \A a \in Collateral : held[a] = 0 /\ receiverHas[a] = 0 /\ senderHas[a] = SenderFunds
    BY <2>1, Zenon DEF MaInit
  <2>6. AssetsConserved
    BY <2>4, <2>5, MultiAssetAssumption DEF AssetsConserved
  <2>7. Cardinality(ChannelIds) \in Nat /\ 1..0 = {}
    BY MultiAssetAssumption, FS_CardinalityType
  <2> QED
    BY <2>1, <2>2, <2>6, <2>7, MultiAssetAssumption DEF MaInit, ClockInit, MaInv
<1>2. MaInv /\ [(MaNext /\ UNCHANGED now) \/ (NextLedger /\ UNCHANGED maVars)]_<<maVars, now>> => MaInv'
  <2>1. SUFFICES ASSUME MaInv, [(MaNext /\ UNCHANGED now) \/ (NextLedger /\ UNCHANGED maVars)]_<<maVars, now>>
                 PROVE  MaInv'
    BY Zenon
  <2>2. ASSUME NEW d \in DepositMaps, NEW p \in Periods, open_multi_asset_channel(d, p), now' = now  PROVE MaInv'
    BY <2>1, <2>2, OpenChannel, Zenon
  <2>3. ASSUME NEW id \in ChannelIds, NEW s \in States[id], update_multi_asset_state(id, s), now' = now  PROVE MaInv'
    <3>1. UNCHANGED <<channelCount, held, senderHas, receiverHas>>
      BY <2>3, Zenon DEF update_multi_asset_state
    <3> QED
      BY <2>1, <2>3, <3>1, UpdateStores, StoresState
  <2>4. ASSUME NEW id \in ChannelIds, NEW s \in States[id], close_multi_asset_channel(id, s), now' = now  PROVE MaInv'
    <3>1. UNCHANGED <<channelCount, held, senderHas, receiverHas>>
      BY <2>4, Zenon DEF close_multi_asset_channel
    <3> QED
      BY <2>1, <2>4, <3>1, CloseStores, StoresState, Zenon
  <2>5. ASSUME NEW id \in ChannelIds, settle_multi_asset_channel(id), now' = now  PROVE MaInv'
    BY <2>1, <2>5, SettleChannel, ZenonT(30)
  <2>6. CASE UNCHANGED maVars /\ (NextLedger \/ UNCHANGED now)
    <3>1. now' \in Nat
      BY <2>1, <2>6 DEF NextLedger, MaInv
    <3> QED
      BY <2>1, <2>6, <3>1 DEF maVars, MaInv, MaOpened, MaLive, AssetsConserved
  <2> QED
    BY <2>1, <2>2, <2>3, <2>4, <2>5, <2>6, Zenon DEF MaNext, maVars
<1> QED
  BY <1>1, <1>2, PTL DEF MaSpec

\* multi_asset_channel.rs: in every asset the contract holds exactly the deposits
\* of the channels not settled yet and each receiver got what its settled
\* channels assign to it, and the balances of a channel are always those of one
\* state its sender signed.
THEOREM AssetsAlwaysSound == MaSpec => []AssetsSound
<1>1. MaInv => AssetsSound
  <2>1. SUFFICES ASSUME MaInv  PROVE AssetsSound
    OBVIOUS
  <2>2. ASSUME NEW i \in MaOpened
        PROVE  /\ maChannels[i].phase \in {"Open", "Closed", "Finalized"}
               /\ DOMAIN maChannels[i].deposit \subseteq Collateral
               /\ ChannelGood(i, maChannels[i])
    BY <2>1, AmountsTyped, Zenon DEF MaInv, MaOpened, MaChannel
  <2>3. MaTypeOK
    BY <2>1, <2>2, Zenon DEF MaInv, MaTypeOK, ChannelGood
  <2>4. BalancesAreOneState
    BY <2>2, Zenon DEF BalancesAreOneState, ChannelGood
  <2> QED
    BY <2>1, <2>3, <2>4, Zenon DEF AssetsSound, MaInv
<1> QED
  BY <1>1, MaInvariant, PTL

\* The window of a closed channel: no step goes back to an older state, a state
\* accepted while closed re-arms the window, and a closed channel is settled only
\* after a whole challenge period without one.
THEOREM NewestStateAlwaysHasItsWindow == MaSpec => NewestStateHasItsWindow
<1> DEFINE Kept(c, d) ==
             /\ d.nonce >= c.nonce
             /\ c.phase = "Closed" /\ d.balance # c.balance => d.closed_at = now
             /\ c.phase = "Closed" /\ d.phase = "Finalized" => now - c.closed_at > c.challenge_period
           Step == \A i \in MaOpened : Kept(maChannels[i], maChannels'[i])
<1>1. ASSUME MaInv, MaNext, now' = now  PROVE Step
  <2>0. maChannels \in [ChannelIds -> MaChannel \union {None}] /\ now \in Nat
    BY <1>1, Zenon DEF MaInv
  <2>1. ASSUME NEW i \in MaOpened  PROVE Kept(maChannels[i], maChannels[i])
    <3>1. maChannels[i] \in MaChannel /\ maChannels[i].nonce \in Nat
      BY <2>0, Zenon DEF MaOpened, MaChannel
    <3> QED
      BY <3>1
  <2>2. ASSUME NEW d \in DepositMaps, NEW p \in Periods, open_multi_asset_channel(d, p)  PROVE Step
    <3>1. channelCount + 1 \in ChannelIds /\ channelCount + 1 \notin MaOpened
      BY <1>1, <2>2, OpenChannel DEF MaOpened
    <3>2. \A i \in MaOpened : maChannels'[i] = maChannels[i]
      BY <2>0, <2>2, <3>1, Zenon DEF open_multi_asset_channel, MaOpened
    <3> QED
      BY <2>1, <3>2, Zenon
  <2>3. ASSUME NEW id \in ChannelIds, NEW d, maChannels' = [maChannels EXCEPT ![id] = d],
               Kept(maChannels[id], d)
        PROVE  Step
    BY <2>0, <2>1, <2>3, Zenon DEF MaOpened
  <2>4. ASSUME NEW id \in ChannelIds, NEW s \in States[id], update_multi_asset_state(id, s)  PROVE Step
    <3>1. PICK d \in MaChannel :
             /\ maChannels' = [maChannels EXCEPT ![id] = d] /\ maChannels[id] # None
             /\ d.phase = maChannels[id].phase /\ d.nonce > maChannels[id].nonce
             /\ maChannels[id].phase # "Finalized" /\ (maChannels[id].phase = "Closed" => d.closed_at = now)
      BY <1>1, <2>4, UpdateStores
    <3>2. d.nonce \in Nat /\ maChannels[id].nonce \in Nat
      BY <2>0, <3>1, Zenon DEF MaChannel
    <3>3. Kept(maChannels[id], d)
      BY <3>1, <3>2
    <3> QED
      BY <2>3, <3>1, <3>3, Zenon
  <2>5. ASSUME NEW id \in ChannelIds, NEW s \in States[id], close_multi_asset_channel(id, s)  PROVE Step
    <3>1. PICK d \in MaChannel :
             /\ maChannels' = [maChannels EXCEPT ![id] = d]
             /\ maChannels[id].phase = "Open" /\ d.nonce >= maChannels[id].nonce
      BY <1>1, <2>5, CloseStores
    <3>2. Kept(maChannels[id], d)
      BY <3>1, Zenon
    <3> QED
      BY <2>3, <3>1, <3>2, Zenon
  <2>6. ASSUME NEW id \in ChannelIds, settle_multi_asset_channel(id)  PROVE Step
    <3> DEFINE c == maChannels[id]
               d == [c EXCEPT !.phase = "Finalized"]
    <3>1. c \in MaChannel /\ maChannels' = [maChannels EXCEPT ![id] = d]
            /\ (c.phase = "Closed" => now > c.closed_at + c.challenge_period)
      BY <1>1, <2>6, OpenedChannel, Zenon DEF settle_multi_asset_channel, ensure_window_elapsed
    <3>2. d.nonce = c.nonce /\ d.balance = c.balance /\ c.nonce \in Nat /\ c.closed_at \in Nat /\ c.challenge_period \in Nat
      BY <3>1, Zenon DEF MaChannel
    <3> HIDE DEF d
    <3>3. Kept(c, d)
      BY <2>0, <3>1, <3>2
    <3> QED
      BY <2>3, <3>1, <3>3, Zenon
  <2> QED
    BY <1>1, <2>2, <2>4, <2>5, <2>6, Zenon DEF MaNext
<1>2. MaInv /\ [(MaNext /\ UNCHANGED now) \/ (NextLedger /\ UNCHANGED maVars)]_<<maVars, now>> => [Step]_maVars
  BY <1>1, Zenon DEF maVars
<1> QED
  BY <1>2, MaInvariant, PTL DEF MaSpec, NewestStateHasItsWindow

-----------------------------------------------------------------------------
(* Stealth deposits.                                                       *)

\* What a handle holds of a token, no deposit included.
PooledFor(d, t) == IF d # None /\ d.token = t THEN d.amount ELSE 0
PooledOver(ds, t) == [c \in StealthHandles |-> PooledFor(ds[c], t)]

\* The inductive invariant.
StealthInv ==
  /\ deposit_of \in [StealthHandles -> StealthDeposit \union {None}]
  /\ pooled \in [StealthTokens -> Int]
  /\ received \in [Owners -> [StealthTokens -> Int]]
  /\ proved \subseteq StealthKeys \X StealthHandles \X Owners
  /\ StealthBacked

\* There are finitely many handles.
LEMMA HandlesFinite == IsFiniteSet(StealthHandles)
<1>1. StealthHandles = StealthKeys \X Ephemerals
  BY DEF StealthHandles, deposit_commitment
<1> QED
  BY <1>1, StealthAssumption, FS_Product, Zenon

\* The sum over the deposits of a token is a sum over all handles.
LEMMA StealthSums ==
  ASSUME NEW ds \in [StealthHandles -> StealthDeposit \union {None}], NEW t
  PROVE  /\ IntOn(PooledOver(ds, t), StealthHandles)
         /\ SumFunction([c \in {h \in StealthHandles : ds[h] # None /\ ds[h].token = t} |-> ds[c].amount])
              = SumFunctionOnSet(PooledOver(ds, t), StealthHandles)
<1> DEFINE M == {h \in StealthHandles : ds[h] # None /\ ds[h].token = t}
           f == [c \in M |-> ds[c].amount]
           g == PooledOver(ds, t)
<1>1. IntOn(g, StealthHandles)
  BY DEF PooledOver, PooledFor, IntOn, StealthDeposit
<1>2. M \in SUBSET StealthHandles /\ (\A c \in M : f[c] = g[c]) /\ (\A c \in StealthHandles \ M : g[c] = 0)
  BY Zenon DEF PooledOver, PooledFor
<1>3. SumFunction(f) = SumFunctionOnSet(f, M)
  BY Zenon DEF SumFunction
<1> HIDE DEF M, f, g
<1>4. SumFunctionOnSet(f, M) = SumFunctionOnSet(g, StealthHandles)
  BY <1>1, <1>2, HandlesFinite, SumSupport
<1> QED
  BY <1>1, <1>3, <1>4, Zenon DEF M, f, g

\* One deposit made or removed, with the pool moved by it.
LEMMA OneDepositChanges ==
  ASSUME StealthInv, NEW c \in StealthHandles, NEW d \in StealthDeposit \union {None},
         deposit_of' = [deposit_of EXCEPT ![c] = d], pooled' \in [StealthTokens -> Int],
         \A t \in StealthTokens : pooled'[t] = pooled[t] - PooledFor(deposit_of[c], t) + PooledFor(d, t)
  PROVE  StealthBacked' /\ deposit_of' \in [StealthHandles -> StealthDeposit \union {None}]
<1> DEFINE old == deposit_of
           new == deposit_of'
<1>1. old \in [StealthHandles -> StealthDeposit \union {None}] /\ new \in [StealthHandles -> StealthDeposit \union {None}]
  BY Zenon DEF StealthInv
<1>2. new[c] = d /\ \A h \in StealthHandles \ {c} : new[h] = old[h]
  BY <1>1, Zenon
<1> HIDE DEF old, new
<1>3. ASSUME NEW t \in StealthTokens  PROVE pooled'[t] = SumFunctionOnSet(PooledOver(new, t), StealthHandles)
  <2> DEFINE f == PooledOver(old, t)
             g == PooledOver(new, t)
  <2>1. IntOn(f, StealthHandles) /\ IntOn(g, StealthHandles)
    BY <1>1, StealthSums, Zenon
  <2>2. pooled[t] = SumFunctionOnSet(f, StealthHandles)
    <3>1. pooled[t] = SumFunction([h \in {x \in StealthHandles : old[x] # None /\ old[x].token = t} |-> old[h].amount])
      BY Zenon DEF StealthInv, StealthBacked, old
    <3> QED
      BY <1>1, <3>1, StealthSums, Zenon
  <2>3. f[c] = PooledFor(old[c], t) /\ g[c] = PooledFor(d, t) /\ \A h \in StealthHandles \ {c} : g[h] = f[h]
    BY <1>2, Zenon DEF PooledOver
  <2>4. f[c] \in Int /\ g[c] \in Int
    BY <2>1, Zenon DEF IntOn
  <2> HIDE DEF f, g
  <2>5. SumFunctionOnSet(g, StealthHandles) = SumFunctionOnSet(f, StealthHandles) - f[c] + g[c]
    BY <2>1, <2>3, <2>4, HandlesFinite, SumChange, SMTT(30)
  <2> QED
    BY <2>2, <2>3, <2>5, Zenon DEF old, g
<1>4. ASSUME NEW t \in StealthTokens
      PROVE  pooled'[t] = SumFunction([h \in {x \in StealthHandles : new[x] # None /\ new[x].token = t} |-> new[h].amount])
  BY <1>1, <1>3, StealthSums
<1> QED
  BY <1>1, <1>4, Zenon DEF StealthBacked, new

\* stealth_deposit: a free handle, and the amount pooled.
LEMMA DepositKeeps ==
  ASSUME StealthInv, NEW t \in StealthTokens, NEW n \in StealthAmounts, NEW r \in Ephemerals,
         NEW p \in StealthKeys, stealth_deposit(t, n, r, p)
  PROVE  StealthInv' /\ \A c \in StealthHandles : PaidAsProved(c)
<1> DEFINE c == deposit_commitment(p, r)
           d == [stealth_pub |-> p, token |-> t, amount |-> n]
<1>1. /\ c \in StealthHandles /\ n \in Int /\ n > 0 /\ deposit_of[c] = None
      /\ deposit_of' = [deposit_of EXCEPT ![c] = d] /\ pooled' = [pooled EXCEPT ![t] = pooled[t] + n]
      /\ UNCHANGED <<proved, received>>
  BY StealthAssumption DEF stealth_deposit, StealthHandles
<1>2. d \in StealthDeposit /\ d # None
  BY <1>1, StealthAssumption DEF StealthDeposit
<1>3. d.token = t /\ d.amount = n
  BY Zenon
<1> HIDE DEF d, c
<1>4. pooled \in [StealthTokens -> Int] /\ pooled' \in [StealthTokens -> Int]
  BY <1>1, SMTT(30) DEF StealthInv
<1>5. \A x \in StealthTokens : pooled'[x] = pooled[x] - PooledFor(deposit_of[c], x) + PooledFor(d, x)
  BY <1>1, <1>2, <1>3, <1>4 DEF PooledFor
<1>6. StealthBacked' /\ deposit_of' \in [StealthHandles -> StealthDeposit \union {None}]
  BY <1>1, <1>2, <1>4, <1>5, OneDepositChanges, Zenon
<1>7. \A h \in StealthHandles : deposit_of[h] # None => deposit_of'[h] # None
  BY <1>1, <1>2, Zenon DEF StealthInv
<1> QED
  BY <1>1, <1>4, <1>6, <1>7, Zenon DEF StealthInv, PaidAsProved

\* stealth_claim: the deposit goes to the recipient the proof was made for.
LEMMA ClaimPays ==
  ASSUME StealthInv, NEW c \in StealthHandles, NEW o \in Owners, stealth_claim(c, o)
  PROVE  StealthInv' /\ \A h \in StealthHandles : PaidAsProved(h)
<1> DEFINE d == deposit_of[c]
<1>1. /\ d # None /\ d \in StealthDeposit /\ deposit_of' = [deposit_of EXCEPT ![c] = None]
      /\ pooled' = [pooled EXCEPT ![d.token] = pooled[d.token] - d.amount]
      /\ proved' = proved
  BY Zenon DEF stealth_claim, StealthInv
<1>2. d.token \in StealthTokens /\ d.amount \in Nat
  BY <1>1, Zenon DEF StealthDeposit
<1>3. PICK q \in proved : claim_challenge(q[1], q[2], q[3]) = claim_challenge(d.stealth_pub, c, o)
  BY Zenon DEF stealth_claim
<1>4. q[1] = d.stealth_pub /\ q[2] = c /\ q[3] = o
  BY <1>3, Zenon DEF claim_challenge
<1>5. <<d.stealth_pub, c, o>> \in proved
  <2>1. q \in StealthKeys \X StealthHandles \X Owners
    BY <1>3, Zenon DEF StealthInv
  <2>2. q = <<q[1], q[2], q[3]>>
    BY <2>1
  <2> QED
    BY <1>3, <1>4, <2>2, Zenon
<1>6. received \in [Owners -> [StealthTokens -> Int]]
  BY Zenon DEF StealthInv
<1>7. /\ received' \in [Owners -> [StealthTokens -> Int]]
      /\ received'[o][d.token] = received[o][d.token] + d.amount
  <2>1. received' = [received EXCEPT ![o][d.token] = received[o][d.token] + d.amount]
    BY Zenon DEF stealth_claim
  <2>2. received[o][d.token] + d.amount \in Int
    BY <1>2, <1>6
  <2> QED
    BY <1>2, <1>6, <2>1, <2>2, Zenon
<1>8. pooled \in [StealthTokens -> Int] /\ pooled' \in [StealthTokens -> Int]
  BY <1>1, <1>2, SMTT(30) DEF StealthInv
<1>9. \A x \in StealthTokens : pooled'[x] = pooled[x] - PooledFor(d, x) + PooledFor(None, x)
  <2>1. \A x \in StealthTokens : PooledFor(None, x) = 0 /\ PooledFor(d, x) = IF d.token = x THEN d.amount ELSE 0
    BY <1>1, Zenon DEF PooledFor
  <2> HIDE DEF d
  <2> QED
    BY <1>1, <1>2, <1>8, <2>1
<1>10. StealthBacked' /\ deposit_of' \in [StealthHandles -> StealthDeposit \union {None}]
  BY <1>1, <1>8, <1>9, OneDepositChanges, Zenon
<1>11. \A h \in StealthHandles : PaidAsProved(h)
  <2>1. \A h \in StealthHandles \ {c} : deposit_of'[h] = deposit_of[h]
    BY <1>1, Zenon DEF StealthInv
  <2> QED
    BY <1>5, <1>7, <2>1, Zenon DEF PaidAsProved
<1> QED
  BY <1>1, <1>7, <1>8, <1>10, <1>11, Zenon DEF StealthInv

\* stealth_deposit and stealth_claim: what is unclaimed is pooled, token by token,
\* and a claim pays a deposit in full to a recipient its key was proved for.
THEOREM ClaimsAlwaysReachTheirRecipient == StealthSpec => ClaimsReachTheirRecipient
<1>1. StealthInit => StealthInv
  <2>1. SUFFICES ASSUME StealthInit  PROVE StealthInv
    BY Zenon
  <2>2. \A c \in StealthHandles : deposit_of[c] = None
    BY <2>1, Zenon DEF StealthInit
  <2>3. ASSUME NEW t \in StealthTokens
        PROVE  pooled[t] = SumFunction([c \in {h \in StealthHandles : deposit_of[h] # None /\ deposit_of[h].token = t}
                                          |-> deposit_of[c].amount])
    <3> DEFINE f == [c \in {h \in StealthHandles : deposit_of[h] # None /\ deposit_of[h].token = t}
                       |-> deposit_of[c].amount]
    <3>1. DOMAIN f = {}
      BY <2>2, Zenon
    <3> HIDE DEF f
    <3>2. SumFunction(f) = 0
      BY <3>1, SumEmpty, Zenon DEF SumFunction
    <3>3. pooled[t] = 0
      BY <2>1, Zenon DEF StealthInit
    <3> QED
      BY <3>2, <3>3, Zenon DEF f
  <2>4. StealthBacked
    BY <2>3, Zenon DEF StealthBacked
  <2> QED
    BY <2>1, <2>4 DEF StealthInit, StealthInv
<1>2. ASSUME StealthInv, StealthStep
      PROVE  StealthInv' /\ \A c \in StealthHandles : PaidAsProved(c)
  <2>1. ASSUME NEW t \in StealthTokens, NEW n \in StealthAmounts, NEW r \in Ephemerals, NEW p \in StealthKeys,
               stealth_deposit(t, n, r, p)
        PROVE  StealthInv' /\ \A c \in StealthHandles : PaidAsProved(c)
    BY <1>2, <2>1, DepositKeeps, Zenon
  <2>2. ASSUME NEW c \in StealthHandles, NEW o \in Owners, stealth_claim(c, o)
        PROVE  StealthInv' /\ \A h \in StealthHandles : PaidAsProved(h)
    BY <1>2, <2>2, ClaimPays, Zenon
  <2>3. ASSUME NEW o \in Owners, NEW s \in StealthKeys, NEW v \in StealthKeys, register_stealth_keys(o, s, v)
        PROVE  StealthInv' /\ \A c \in StealthHandles : PaidAsProved(c)
    BY <1>2, <2>3 DEF register_stealth_keys, StealthInv, StealthBacked, PaidAsProved
  <2>4. ASSUME NEW c \in StealthHandles, NEW o \in Owners, Prove(c[1], c, o)
        PROVE  StealthInv' /\ \A h \in StealthHandles : PaidAsProved(h)
    <3>1. c[1] \in StealthKeys
      BY DEF StealthHandles, deposit_commitment
    <3>2. proved' \subseteq StealthKeys \X StealthHandles \X Owners /\ UNCHANGED <<deposit_of, pooled, received>>
      BY <1>2, <2>4, <3>1 DEF Prove, StealthInv
    <3> QED
      BY <1>2, <3>2, Zenon DEF StealthInv, StealthBacked, PaidAsProved
  <2> QED
    BY <1>2, <2>1, <2>2, <2>3, <2>4, Zenon DEF StealthStep
<1>3. StealthInv /\ UNCHANGED stealthVars => StealthInv'
  BY DEF StealthInv, StealthBacked, stealthVars
<1>4. StealthInv /\ [StealthStep]_stealthVars =>
        StealthInv' /\ [StealthBacked' /\ \A c \in StealthHandles : PaidAsProved(c)]_stealthVars
  BY <1>2, <1>3, Zenon DEF StealthInv
<1> QED
  BY <1>1, <1>4, PTL DEF StealthSpec, ClaimsReachTheirRecipient

-----------------------------------------------------------------------------
(* Staking.                                                                *)

\* The stakers' balances in a table of entries.
Balances(st) == [u \in Stakers |-> (IF st[u] = None THEN NoStake ELSE st[u]).stacc_balance]

\* The inductive invariant behind StakesKept: the lock in a stored entry starts
\* at the staker's latest mint.
StakingInv ==
  /\ now \in Nat /\ total_supply \in Nat
  /\ staker \in [Stakers -> StakerEntry \union {None}]
  /\ minted_at \in [Stakers -> Nat]
  /\ \A u \in Stakers : staker[u] # None => staker[u].lock_start_ledger = minted_at[u]
  /\ total_supply <= SumFunctionOnSet(Balances(staker), Stakers)
  /\ \A u \in Stakers : load_user(u).stacc_balance = load_user(u).locked_underlying

\* The sum over the stakers is the one SupplyCovered speaks of.
LEMMA InvCovers ==
  ASSUME StakingInv
  PROVE  SupplyCovered
<1> DEFINE f == [u \in Stakers |-> load_user(u).stacc_balance]
<1>1. f = Balances(staker)
  BY Zenon DEF Balances, load_user
<1>2. SumFunction(f) = SumFunctionOnSet(f, Stakers)
  BY Zenon DEF SumFunction
<1> HIDE DEF f
<1>3. total_supply <= SumFunction(f)
  BY <1>1, <1>2, Zenon DEF StakingInv
<1> QED
  BY <1>3, Zenon DEF f, SupplyCovered, StakingInv

\* A call that leaves the entries alone and raises no supply.
LEMMA EntriesKept ==
  ASSUME StakingInv, UNCHANGED <<staker, minted_at>>, now' \in Nat, total_supply' \in 0..total_supply
  PROVE  StakingInv' /\ StakeStaysLocked
<1>1. SumFunctionOnSet(Balances(staker), Stakers) \in Int
  <2>1. IntOn(Balances(staker), Stakers)
    BY DEF StakingInv, StakerEntry, IntOn, Balances, NoStake
  <2> QED
    BY <2>1, SumInt, StakingAssumption, Zenon
<1>2. total_supply' \in Nat /\ total_supply' <= SumFunctionOnSet(Balances(staker'), Stakers)
  BY <1>1 DEF StakingInv
<1>3. \A u \in Stakers : load_user(u)' = load_user(u)
  BY Zenon DEF load_user
<1>4. \A u \in Stakers : load_user(u).stacc_balance \in Nat
  BY Zenon DEF load_user, StakingInv, StakerEntry, NoStake
<1>5. StakeStaysLocked
  BY <1>3, <1>4 DEF StakeStaysLocked
<1>6. \A u \in Stakers : load_user(u)'.stacc_balance = load_user(u)'.locked_underlying
  BY <1>3, Zenon DEF StakingInv
<1> QED
  BY <1>2, <1>5, <1>6, Zenon DEF StakingInv

\* One entry changes by d, and the supply by the same.
LEMMA EntryMoves ==
  ASSUME StakingInv, NEW u \in Stakers, NEW e \in StakerEntry, NEW d \in Int,
         staker' = [staker EXCEPT ![u] = e],
         e.stacc_balance = load_user(u).stacc_balance + d, e.locked_underlying = e.stacc_balance,
         minted_at' \in [Stakers -> Nat], e.lock_start_ledger = minted_at'[u],
         \A v \in Stakers : v # u => minted_at'[v] = minted_at[v],
         total_supply' = total_supply + d, total_supply' \in Nat, now' = now,
         d < 0 => now >= minted_at[u] + LOCK_EPOCH_LEDGERS
  PROVE  StakingInv' /\ StakeStaysLocked
<1> DEFINE f == Balances(staker)
           g == Balances(staker')
<1>1. /\ staker' \in [Stakers -> StakerEntry \union {None}] /\ staker'[u] = e /\ e # None
      /\ \A v \in Stakers : v # u => staker'[v] = staker[v]
  BY StakingAssumption, Zenon DEF StakingInv
<1>2. IntOn(f, Stakers) /\ IntOn(g, Stakers)
  <2>1. \A s \in [Stakers -> StakerEntry \union {None}] : IntOn(Balances(s), Stakers)
    BY DEF StakerEntry, IntOn, Balances, NoStake
  <2> QED
    BY <1>1, <2>1, Zenon DEF StakingInv
<1>3. f[u] = load_user(u).stacc_balance /\ g[u] = e.stacc_balance
  BY <1>1, Zenon DEF Balances, load_user
<1>4. \A v \in Stakers \ {u} : g[v] = f[v]
  BY <1>1, Zenon DEF Balances
<1> HIDE DEF f, g
<1>5. SumFunctionOnSet(g, Stakers) = SumFunctionOnSet(f, Stakers) - f[u] + g[u]
  BY <1>2, <1>4, SumChange, StakingAssumption DEF IntOn
<1>6. SumFunctionOnSet(f, Stakers) \in Int /\ f[u] \in Int /\ g[u] \in Int
  BY <1>2, SumInt, StakingAssumption, Zenon DEF IntOn
<1>7. g[u] = f[u] + d
  BY <1>3, Zenon
<1>8. total_supply' <= SumFunctionOnSet(g, Stakers)
  <2>1. total_supply <= SumFunctionOnSet(f, Stakers) /\ total_supply \in Nat
    BY Zenon DEF StakingInv, f
  <2> QED
    BY <1>5, <1>6, <1>7, <2>1
<1>9. \A v \in Stakers : v # u => load_user(v)' = load_user(v)
  BY <1>1, Zenon DEF load_user
<1>10. load_user(u)' = e
  BY <1>1, Zenon DEF load_user
<1>11. \A v \in Stakers : load_user(v)'.stacc_balance = load_user(v)'.locked_underlying
  BY <1>9, <1>10, Zenon DEF StakingInv
<1>12. StakeStaysLocked
  <2>1. \A v \in Stakers : load_user(v).stacc_balance \in Nat
    BY Zenon DEF load_user, StakingInv, StakerEntry, NoStake
  <2> QED
    BY <1>9, <1>10, <2>1 DEF StakeStaysLocked
<1>13. \A v \in Stakers : staker'[v] # None => staker'[v].lock_start_ledger = minted_at'[v]
  BY <1>1, ZenonT(30) DEF StakingInv
<1> QED
  BY <1>1, <1>8, <1>11, <1>12, <1>13, Zenon DEF StakingInv, g

\* Every step keeps the invariant and the stakes.
LEMMA StakingStepKeeps ==
  ASSUME StakingInv, [LsNext]_<<lsVars, now>>
  PROVE  StakingInv' /\ StakeStaysLocked
<1>1. /\ now \in Nat /\ total_supply \in Nat /\ minted_at \in [Stakers -> Nat]
      /\ staker \in [Stakers -> StakerEntry \union {None}]
      /\ \A v \in Stakers : load_user(v) \in StakerEntry
      /\ \A v \in Stakers : load_user(v).stacc_balance = load_user(v).locked_underlying
  BY DEF StakingInv, load_user, NoStake, StakerEntry
<1>2. ASSUME NEW r \in StakeRates, initialize(r) \/ set_exchange_rate(r), UNCHANGED now
      PROVE  StakingInv' /\ StakeStaysLocked
  BY <1>1, <1>2, EntriesKept DEF initialize, set_exchange_rate
<1>3. ASSUME NEW u \in Stakers, NEW n \in StakeAmounts, mint(u, n), UNCHANGED now
      PROVE  StakingInv' /\ StakeStaysLocked
  <2> DEFINE e == [stacc_balance |-> load_user(u).stacc_balance + n,
                   locked_underlying |-> load_user(u).locked_underlying + n,
                   lock_start_ledger |-> now]
  <2>1. n \in Nat /\ load_user(u).stacc_balance \in Nat /\ load_user(u).locked_underlying \in Nat
    BY <1>1, StakingAssumption, Zenon DEF StakerEntry
  <2>2. /\ e \in StakerEntry /\ e.stacc_balance = load_user(u).stacc_balance + n
        /\ e.locked_underlying = e.stacc_balance /\ e.lock_start_ledger = now
    BY <1>1, <2>1 DEF StakerEntry
  <2>3. /\ staker' = [staker EXCEPT ![u] = e] /\ total_supply' = total_supply + n
        /\ minted_at' = [minted_at EXCEPT ![u] = now]
    BY <1>3, Zenon DEF mint
  <2> HIDE DEF e
  <2>4. /\ minted_at' \in [Stakers -> Nat] /\ e.lock_start_ledger = minted_at'[u]
        /\ \A v \in Stakers : v # u => minted_at'[v] = minted_at[v]
        /\ total_supply' \in Nat /\ ~(n < 0) /\ n \in Int
    BY <1>1, <2>1, <2>2, <2>3
  <2> QED
    BY <1>3, <2>2, <2>3, <2>4, EntryMoves, Zenon
<1>4. ASSUME NEW u \in Stakers, NEW n \in StakeAmounts, burn(u, n), UNCHANGED now
      PROVE  StakingInv' /\ StakeStaysLocked
  <2> DEFINE e == [stacc_balance |-> staker[u].stacc_balance - n,
                   locked_underlying |-> staker[u].locked_underlying - n,
                   lock_start_ledger |-> staker[u].lock_start_ledger]
             d == 0 - n
  <2>1. /\ staker[u] # None /\ staker[u].stacc_balance >= n /\ total_supply >= n
        /\ staker' = [staker EXCEPT ![u] = e] /\ total_supply' = total_supply - n
        /\ minted_at' = minted_at /\ now >= staker[u].lock_start_ledger + LOCK_EPOCH_LEDGERS
    BY <1>4, Zenon DEF burn
  <2>2. /\ load_user(u) = staker[u] /\ n \in Nat
        /\ staker[u].stacc_balance \in Nat /\ staker[u].locked_underlying = staker[u].stacc_balance
        /\ staker[u].lock_start_ledger = minted_at[u] /\ minted_at[u] \in Nat
    BY <1>1, <2>1, StakingAssumption, Zenon DEF StakerEntry, load_user, StakingInv
  <2>3. e \in StakerEntry /\ e.stacc_balance = staker[u].stacc_balance - n
        /\ e.locked_underlying = e.stacc_balance /\ e.lock_start_ledger = minted_at[u]
    BY <2>1, <2>2 DEF StakerEntry
  <2> HIDE DEF e
  <2>4. /\ d \in Int /\ e.stacc_balance = load_user(u).stacc_balance + d
        /\ total_supply' = total_supply + d /\ total_supply' \in Nat
    BY <1>1, <2>1, <2>2, <2>3
  <2>5. now >= minted_at[u] + LOCK_EPOCH_LEDGERS
    BY <2>1, <2>2, Zenon
  <2> HIDE DEF d
  <2> QED
    BY <1>1, <1>4, <2>1, <2>3, <2>4, <2>5, EntryMoves, Zenon
<1>5. CASE NextLedger /\ UNCHANGED lsVars
  <2>1. now' \in Nat /\ UNCHANGED <<staker, minted_at>> /\ total_supply' \in 0..total_supply
    BY <1>1, <1>5 DEF NextLedger, lsVars
  <2> QED
    BY <2>1, EntriesKept, Zenon
<1>6. CASE UNCHANGED <<lsVars, now>>
  <2>1. now' \in Nat /\ UNCHANGED <<staker, minted_at>> /\ total_supply' \in 0..total_supply
    BY <1>1, <1>6 DEF lsVars
  <2> QED
    BY <2>1, EntriesKept
<1> QED
  BY <1>2, <1>3, <1>4, <1>5, <1>6, Zenon DEF LsNext, LsStep

\* Liquid staking keeps its supply covered by the stakers' balances, also across a
\* second initialize, and lets no balance fall before its latest lock has run out
\* (mint, burn, set_exchange_rate), for every number of stakers.
THEOREM StakesAlwaysKept == LsSpec => StakesKept
<1>1. LsInit /\ ClockInit => StakingInv
  <2> SUFFICES ASSUME LsInit, ClockInit  PROVE StakingInv
    BY Zenon
  <2>1. /\ staker = [u \in Stakers |-> None] /\ minted_at = [u \in Stakers |-> 0]
        /\ total_supply = 0 /\ now = 0
    BY Zenon DEF LsInit, ClockInit
  <2>2. NatOn(Balances(staker), Stakers)
    BY <2>1, Zenon DEF NatOn, Balances, NoStake
  <2>3. SumFunctionOnSet(Balances(staker), Stakers) \in Nat
    BY <2>2, SumNat, StakingAssumption, Zenon
  <2>4. \A u \in Stakers : load_user(u).stacc_balance = load_user(u).locked_underlying
    BY <2>1, Zenon DEF load_user, NoStake
  <2> QED
    BY <2>1, <2>3, <2>4 DEF StakingInv
<1>2. StakingInv /\ [LsNext]_<<lsVars, now>> => StakingInv'
  BY StakingStepKeeps, Zenon
<1>3. StakingInv /\ StakingInv' /\ [LsNext]_<<lsVars, now>>
        => [SupplyCovered' /\ StakeStaysLocked]_<<lsVars, now>>
  <2>1. StakingInv' => SupplyCovered'
    BY InvCovers, PTL
  <2> QED
    BY <2>1, StakingStepKeeps, Zenon
<1> QED
  BY <1>1, <1>2, <1>3, PTL DEF LsSpec, StakesKept
=============================================================================
