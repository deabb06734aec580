--------------------------- MODULE RegistryProofs ---------------------------
(***************************************************************************)
(* Registries, for every value of their constants.  Reputation: scores stay *)
(* in range and follow the completions, time alone never raises a score nor *)
(* takes it below the floor, and credentials end only by being revoked.    *)
(* Factory: the vaults deployed are the vaults counted.  Bridge: a message is *)
(* delivered once.                                                         *)
(***************************************************************************)
EXTENDS Reputation, VaultFactory, CrossChainBridge, SumTheorems

-----------------------------------------------------------------------------
(* The curves.                                                             *)

\* Whole intervals in a span of ledgers: a natural number, and no fewer in a
\* longer span.
LEMMA IntervalsGrow ==
  ASSUME NEW k \in Nat \ {0}, NEW x \in Nat, NEW y \in Nat, x <= y
  PROVE  x \div k \in Nat /\ y \div k \in Nat /\ x \div k <= y \div k
<1> DEFINE p == x \div k
           q == y \div k
<1>1. p \in Int /\ q \in Int
  OBVIOUS
<1>2. x = k * p + (x % k) /\ y = k * q + (y % k) /\ x % k \in 0..(k - 1) /\ y % k \in 0..(k - 1)
  OBVIOUS
<1>3. k * p <= x /\ x < k * p + k /\ k * q <= y /\ y < k * q + k
  BY <1>1, <1>2
<1> HIDE DEF p, q
<1>4. p >= 0 /\ q >= 0 /\ p <= q
  BY <1>1, <1>3
<1> QED
  BY <1>1, <1>4 DEF p, q

\* The decay of a headroom: natural, and no less after more intervals.
LEMMA DecayGrows ==
  ASSUME NEW h \in Nat, NEW r \in Nat, NEW i \in Nat, NEW j \in Nat, i <= j
  PROVE  /\ (h * r * i) \div ScoreBps \in Nat /\ (h * r * j) \div ScoreBps \in Nat
         /\ (h * r * i) \div ScoreBps <= (h * r * j) \div ScoreBps
<1> DEFINE c == h * r
<1>1. c \in Nat
  OBVIOUS
<1> HIDE DEF c
<1>2. c * i \in Nat /\ c * j \in Nat /\ c * i <= c * j
  BY <1>1
<1>3. (c * i) \div 10000 \in Nat /\ (c * j) \div 10000 \in Nat /\ (c * i) \div 10000 <= (c * j) \div 10000
  BY <1>2, IntervalsGrow
<1> QED
  BY <1>3 DEF c, ScoreBps

\* apply_decay: the result is a natural number between the score and the floor.
LEMMA DecayBounds ==
  ASSUME NEW s \in Nat, NEW l \in Nat, NEW n \in Nat
  PROVE  /\ apply_decay(s, l, n) \in Nat
         /\ apply_decay(s, l, n) <= s
         /\ apply_decay(s, l, n) >= SCORE_FLOOR \/ apply_decay(s, l, n) = s
<1>1. CASE n <= l \/ (n - l) \div DECAY_INTERVAL_LEDGERS = 0 \/ s <= SCORE_FLOOR
  BY <1>1 DEF apply_decay
<1>2. CASE ~ (n <= l \/ (n - l) \div DECAY_INTERVAL_LEDGERS = 0 \/ s <= SCORE_FLOOR)
  <2> DEFINE k == (n - l) \div DECAY_INTERVAL_LEDGERS
             h == s - SCORE_FLOOR
             d == (h * DECAY_RATE_BPS * k) \div ScoreBps
  <2>1. n - l \in Nat /\ h \in Nat
    BY <1>2, ScoreAssumption
  <2>2. k \in Nat
    BY <2>1, ScoreAssumption, IntervalsGrow
  <2> HIDE DEF k, h
  <2>3. d \in Nat
    BY <2>1, <2>2, ScoreAssumption, DecayGrows
  <2>4. apply_decay(s, l, n) = SCORE_FLOOR + Higher(h - d, 0)
    BY <1>2, Zenon DEF apply_decay, h, d, k
  <2> HIDE DEF d
  <2>5. Higher(h - d, 0) \in Nat /\ Higher(h - d, 0) <= h
    BY <2>1, <2>3 DEF Higher
  <2> QED
    BY <2>4, <2>5, ScoreAssumption DEF h
<1> QED
  BY <1>1, <1>2, Zenon

\* apply_decay: a later reading of the same record is never higher.
LEMMA DecayFalls ==
  ASSUME NEW s \in Nat, NEW l \in Nat, NEW n \in Nat, NEW m \in Nat, n <= m
  PROVE  apply_decay(s, l, m) <= apply_decay(s, l, n)
<1>1. CASE n <= l \/ (n - l) \div DECAY_INTERVAL_LEDGERS = 0 \/ s <= SCORE_FLOOR
  <2>1. apply_decay(s, l, n) = s
    BY <1>1, Zenon DEF apply_decay
  <2> QED
    BY <2>1, DecayBounds, Zenon
<1>2. CASE ~ (n <= l \/ (n - l) \div DECAY_INTERVAL_LEDGERS = 0 \/ s <= SCORE_FLOOR)
  <2> DEFINE j == (n - l) \div DECAY_INTERVAL_LEDGERS
             k == (m - l) \div DECAY_INTERVAL_LEDGERS
             h == s - SCORE_FLOOR
             d == (h * DECAY_RATE_BPS * j) \div ScoreBps
             e == (h * DECAY_RATE_BPS * k) \div ScoreBps
  <2>1. n - l \in Nat /\ m - l \in Nat /\ n - l <= m - l /\ h \in Nat /\ ~ (m <= l) /\ ~ (s <= SCORE_FLOOR)
    BY <1>2, ScoreAssumption
  <2>2. j \in Nat /\ k \in Nat /\ j <= k /\ j # 0
    BY <1>2, <2>1, ScoreAssumption, IntervalsGrow, Zenon
  <2>3. k # 0
    BY <2>2
  <2>4. /\ apply_decay(s, l, n) = SCORE_FLOOR + Higher(h - d, 0)
        /\ apply_decay(s, l, m) = SCORE_FLOOR + Higher(h - e, 0)
    BY <1>2, <2>1, <2>3, Zenon DEF apply_decay
  <2> HIDE DEF j, k, h
  <2>a. h \in Nat /\ DECAY_RATE_BPS \in Nat
    BY <2>1, ScoreAssumption, Zenon
  <2>5. d \in Nat /\ e \in Nat /\ d <= e
    BY ZenonT(60), <2>a, <2>2, DecayGrows
  <2> HIDE DEF d, e
  <2>6. Higher(h - e, 0) <= Higher(h - d, 0) /\ Higher(h - e, 0) \in Nat /\ Higher(h - d, 0) \in Nat
    BY <2>1, <2>5, SMTT(30) DEF Higher
  <2> QED
    BY <2>4, <2>6, ScoreAssumption
<1> QED
  BY <1>1, <1>2, Zenon

\* record_completion's growth and record_fraud's penalty are a share of what
\* they are taken from.
LEMMA ShareBounds ==
  ASSUME NEW x \in Nat, NEW r \in 0..ScoreBps
  PROVE  (x * r) \div ScoreBps \in 0..x
<1> DEFINE c == x * r
<1>1. c \in Nat /\ c <= 10000 * x
  BY SMTT(30) DEF ScoreBps
<1> HIDE DEF c
<1>2. c \div 10000 \in 0..x
  BY <1>1
<1> QED
  BY <1>2, SMTT(60) DEF c, ScoreBps

-----------------------------------------------------------------------------
(* Types.                                                                  *)

\* The inductive invariant: the types, the clock, and no credential beside a
\* tombstone.
RepInv ==
  /\ RepTypeOK
  /\ now \in Nat
  /\ \A m \in revoked : sbts[m] = None

\* The record a step starts from is well typed, stored or fresh.
LEMMA RecordTyped ==
  ASSUME RepInv, NEW b \in Holders
  PROVE  /\ get_credit_record(b) \in CreditRecord
         /\ Decayed(b) \in 0..MAX_SCORE
         /\ Decayed(b) = get_score(b)
<1>1. FreshRecord \in CreditRecord
  BY ScoreAssumption, Zenon DEF FreshRecord, CreditRecord, RepInv
<1>2. credits[b] # None => credits[b] \in CreditRecord
  BY Zenon DEF RepInv, RepTypeOK, CreditRecord
<1>3. get_credit_record(b) \in CreditRecord
  BY <1>1, <1>2, Zenon DEF get_credit_record
<1>4. get_credit_record(b).score \in 0..MAX_SCORE /\ get_credit_record(b).last_update \in Nat
  BY <1>3, Zenon DEF CreditRecord
<1>5. Decayed(b) \in 0..MAX_SCORE
  <2> DEFINE s == get_credit_record(b).score
             l == get_credit_record(b).last_update
  <2>1. s \in Nat /\ s <= MAX_SCORE /\ l \in Nat /\ now \in Nat /\ MAX_SCORE \in Nat
    BY <1>4, ScoreAssumption DEF RepInv
  <2> HIDE DEF s, l
  <2>2. apply_decay(s, l, now) \in Nat /\ apply_decay(s, l, now) <= s
    BY <2>1, DecayBounds, Zenon
  <2>3. apply_decay(s, l, now) \in 0..MAX_SCORE
    BY <2>1, <2>2
  <2> QED
    BY <2>3, Zenon DEF Decayed, s, l
<1>6. Decayed(b) = get_score(b)
  <2>1. CASE credits[b] = None
    <3>1. get_credit_record(b).score = STARTING_SCORE /\ get_credit_record(b).last_update = now
      BY <2>1, Zenon DEF get_credit_record, FreshRecord
    <3>2. now <= now
      BY DEF RepInv
    <3>3. apply_decay(STARTING_SCORE, now, now) = STARTING_SCORE
      BY <3>2, Zenon DEF apply_decay
    <3> QED
      BY <2>1, <3>1, <3>3, Zenon DEF Decayed, get_score
  <2>2. CASE credits[b] # None
    BY <2>2, Zenon DEF Decayed, get_score, get_credit_record
  <2> QED
    BY <2>1, <2>2, Zenon
<1> QED
  BY <1>3, <1>5, <1>6, Zenon

\* Nothing is stored before initialization.
LEMMA InvInit == ClockInit /\ RepInit => RepInv
  BY DEF ClockInit, RepInit, RepInv, RepTypeOK

\* record_resolution keeps the badges typed.
LEMMA BadgeInv ==
  ASSUME RepInv, UNCHANGED now,
         NEW a \in Holders, NEW d \in Disputes, NEW ok \in BOOLEAN, record_resolution(a, d, ok)
  PROVE  RepInv'
<1>1. now \in Nat /\ registry.badgeCount \in Nat /\ badges \in [Holders -> {None} \union Badge]
  BY Zenon DEF RepInv, RepTypeOK
<1>2. \A n \in Nat : for_accurate(n) \in 0..3
  BY DEF for_accurate
<1>3. CASE mint_badge(a)
  <2>1. Higher(for_accurate(1), 1) \in 1..3
    BY <1>2 DEF Higher
  <2>2. badges' \in [Holders -> {None} \union Badge]
    BY <1>1, <1>3, <2>1, Zenon DEF mint_badge, Badge
  <2>3. registry' \in [admin : BOOLEAN, badgeCount : Nat, sbtCount : Nat,
                       config : {None} \union [gold : Nat, zero_fee : Nat]]
    BY <1>1, <1>3 DEF mint_badge, RepInv, RepTypeOK
  <2> QED
    BY <2>2, <2>3, Zenon DEF RepInv, RepTypeOK, record_resolution, creditVars, sbtVars
<1>4. CASE upgrade_badge(a)
  <2>1. badges[a] \in Badge
    BY <1>1, <1>4, Zenon DEF upgrade_badge
  <2>2. Higher(badges[a].tier, for_accurate(badges[a].accurate + 1)) \in 1..3
    <3>1. badges[a].tier \in 1..3 /\ badges[a].accurate + 1 \in Nat
      BY <2>1 DEF Badge
    <3>2. for_accurate(badges[a].accurate + 1) \in 0..3
      BY <1>2, <3>1, Zenon
    <3> QED
      BY <3>1, <3>2 DEF Higher
  <2> DEFINE t == Higher(badges[a].tier, for_accurate(badges[a].accurate + 1))
             k == badges[a].accurate + 1
             b == [badges[a] EXCEPT !.accurate = k, !.last = now, !.tier = t]
  <2>a. t \in 1..3 /\ k \in Nat
    BY <2>1, <2>2 DEF Badge
  <2>b. badges' = [badges EXCEPT ![a] = b]
    BY <1>4, Zenon DEF upgrade_badge
  <2> HIDE DEF t, k
  <2>c. b \in Badge
    BY <1>1, <2>1, <2>a, Zenon DEF Badge
  <2> HIDE DEF b
  <2>3. badges' \in [Holders -> {None} \union Badge]
    BY <1>1, <2>b, <2>c, Zenon
  <2> QED
    BY <1>4, <2>3, Zenon DEF upgrade_badge, RepInv, RepTypeOK, record_resolution, creditVars, sbtVars
<1> QED
  BY <1>3, <1>4, Zenon DEF record_resolution

\* record_completion and record_fraud keep the score in range.
LEMMA CreditInv ==
  ASSUME RepInv, UNCHANGED now, NEW b \in Holders,
         record_fraud(b) \/ \E e \in Escrows : record_completion(b, e)
  PROVE  RepInv'
<1> DEFINE r == get_credit_record(b)
           s == Decayed(b)
<1>1. r \in CreditRecord /\ s \in 0..MAX_SCORE /\ now \in Nat /\ MAX_SCORE \in Nat
  BY RecordTyped, ScoreAssumption, Zenon DEF RepInv
<1>2. credits \in [Holders -> {None} \union CreditRecord]
  BY Zenon DEF RepInv, RepTypeOK, CreditRecord
<1> HIDE DEF r, s
<1>3. CASE record_fraud(b)
  <2>1. s - (s * PENALTY_RATE_BPS) \div ScoreBps \in 0..MAX_SCORE
    <3> DEFINE x == (s * PENALTY_RATE_BPS) \div ScoreBps
    <3>1. s \in Nat /\ PENALTY_RATE_BPS \in 0..ScoreBps
      BY <1>1, ScoreAssumption
    <3>2. x \in 0..s
      BY ZenonT(60), <3>1, ShareBounds
    <3> HIDE DEF x
    <3>3. s - x \in 0..MAX_SCORE
      BY <1>1, <3>2
    <3> QED
      BY <3>3, Zenon DEF x
  <2>2. [r EXCEPT !.score = s - (s * PENALTY_RATE_BPS) \div ScoreBps, !.frauds = @ + 1,
                  !.last_update = now] \in CreditRecord
    <3> DEFINE x == s - (s * PENALTY_RATE_BPS) \div ScoreBps
    <3> HIDE DEF x
    <3>1. x \in 0..MAX_SCORE
      BY <2>1, Zenon DEF x
    <3> DEFINE k == r.frauds + 1
    <3>2. k \in Nat
      BY <1>1 DEF CreditRecord
    <3> HIDE DEF k
    <3>3. [r EXCEPT !.score = x, !.frauds = k, !.last_update = now] \in CreditRecord
      BY <1>1, <3>1, <3>2, Zenon DEF CreditRecord
    <3> QED
      BY <3>3, Zenon DEF x, k
  <2>3. credits' \in [Holders -> {None} \union CreditRecord]
    BY <1>2, <1>3, <2>2, Zenon DEF record_fraud, r, s
  <2> QED
    BY <1>3, <2>3, Zenon DEF record_fraud, RepInv, RepTypeOK, badgeVars, sbtVars, CreditRecord
<1>4. ASSUME NEW e \in Escrows, record_completion(b, e)  PROVE RepInv'
  <2>1. s + ((MAX_SCORE - s) * GROWTH_RATE_BPS) \div ScoreBps \in 0..MAX_SCORE
    <3> DEFINE h == MAX_SCORE - s
               x == (h * GROWTH_RATE_BPS) \div ScoreBps
    <3>1. h \in Nat /\ GROWTH_RATE_BPS \in 0..ScoreBps
      BY <1>1, ScoreAssumption
    <3>2. x \in 0..h
      BY ZenonT(60), <3>1, ShareBounds
    <3> HIDE DEF x
    <3>3. s + x \in 0..MAX_SCORE
      BY <1>1, <3>2
    <3> QED
      BY <3>3, Zenon DEF x
  <2>2. [r EXCEPT !.score = s + ((MAX_SCORE - s) * GROWTH_RATE_BPS) \div ScoreBps,
                  !.completions = @ + 1, !.last_update = now] \in CreditRecord
    <3> DEFINE x == s + ((MAX_SCORE - s) * GROWTH_RATE_BPS) \div ScoreBps
    <3> HIDE DEF x
    <3>1. x \in 0..MAX_SCORE
      BY <2>1, Zenon DEF x
    <3> DEFINE k == r.completions + 1
    <3>2. k \in Nat
      BY <1>1 DEF CreditRecord
    <3> HIDE DEF k
    <3>3. [r EXCEPT !.score = x, !.completions = k, !.last_update = now] \in CreditRecord
      BY <1>1, <3>1, <3>2, Zenon DEF CreditRecord
    <3> QED
      BY <3>3, Zenon DEF x, k
  <2>3. credits' \in [Holders -> {None} \union CreditRecord]
    BY <1>2, <1>4, <2>2, Zenon DEF record_completion, r, s
  <2> QED
    BY <1>4, <2>3, Zenon DEF record_completion, RepInv, RepTypeOK, badgeVars, sbtVars, CreditRecord
<1> QED
  BY <1>3, <1>4, Zenon

\* set_score_config, issue, revoke and slash keep the types, and a credential is
\* never issued beside a tombstone.
LEMMA OtherInv ==
  ASSUME RepInv, UNCHANGED now,
         \/ rep_initialize
         \/ \E c \in Configs : set_score_config(c)
         \/ SbtStep
  PROVE  RepInv'
<1> DEFINE S == [token_id : Nat, class : ValidClasses, issued_at : Nat, slashed_at : {None} \union Nat]
           R == [admin : BOOLEAN, badgeCount : Nat, sbtCount : Nat,
                 config : {None} \union [gold : Nat, zero_fee : Nat]]
<1>1. registry \in R /\ sbts \in [Holders -> {None} \union S] /\ now \in Nat /\ revoked \subseteq Holders
  BY Zenon DEF RepInv, RepTypeOK
<1>2. CASE rep_initialize
  <2>1. registry' \in R
    BY <1>1, <1>2, Zenon DEF rep_initialize
  <2> QED
    BY <1>2, <2>1, Zenon DEF rep_initialize, RepInv, RepTypeOK, badgeVars, creditVars, sbtVars
<1>3. ASSUME NEW c \in Configs, set_score_config(c)  PROVE RepInv'
  <2>1. registry' \in R
    BY <1>1, <1>3, ScoreAssumption, Zenon DEF set_score_config
  <2> QED
    BY <1>3, <2>1, Zenon DEF set_score_config, RepInv, RepTypeOK, badgeVars, creditVars, sbtVars
<1>4. ASSUME NEW m \in Holders, NEW c \in Classes, issue(m, c)  PROVE RepInv'
  <2>1. registry.sbtCount \in Nat /\ c \in ValidClasses
    BY <1>1, <1>4, Zenon DEF issue
  <2>2. registry' \in R
    BY <1>1, <1>4 DEF issue
  <2>3. sbts' \in [Holders -> {None} \union S]
    BY <1>1, <1>4, <2>1, Zenon DEF issue
  <2>4. \A h \in revoked' : sbts'[h] = None
    BY <1>1, <1>4, Zenon DEF issue, RepInv
  <2> QED
    BY <1>4, <2>2, <2>3, <2>4, Zenon DEF issue, RepInv, RepTypeOK, badgeVars, creditVars
<1>5. ASSUME NEW m \in Holders, revoke(m)  PROVE RepInv'
  <2>1. sbts' \in [Holders -> {None} \union S] /\ revoked' \subseteq Holders
    BY <1>1, <1>5, Zenon DEF revoke
  <2>2. \A h \in revoked' : sbts'[h] = None
    BY <1>1, <1>5, Zenon DEF revoke, RepInv
  <2> QED
    BY <1>5, <2>1, <2>2, Zenon DEF revoke, RepInv, RepTypeOK, badgeVars, creditVars
<1>6. ASSUME NEW m \in Holders, slash(m)  PROVE RepInv'
  <2>1. sbts[m] \in S
    BY <1>1, <1>6, Zenon DEF slash
  <2>2. sbts' \in [Holders -> {None} \union S]
    BY <1>1, <1>6, <2>1, Zenon DEF slash
  <2>3. \A h \in revoked' : sbts'[h] = None
    BY <1>1, <1>6, Zenon DEF slash, RepInv
  <2> QED
    BY <1>6, <2>2, <2>3, Zenon DEF slash, RepInv, RepTypeOK, badgeVars, creditVars
<1> QED
  BY <1>2, <1>3, <1>4, <1>5, <1>6, Zenon DEF SbtStep

\* Every step keeps the invariant.
LEMMA InvStep ==
  ASSUME RepInv, [RepNext]_<<repVars, now>>
  PROVE  RepInv'
<1>1. CASE BadgeStep /\ UNCHANGED now
  BY <1>1, BadgeInv, Zenon DEF BadgeStep
<1>2. CASE CreditStep /\ UNCHANGED now
  BY <1>2, CreditInv, OtherInv, Zenon DEF CreditStep
<1>3. CASE (rep_initialize \/ SbtStep) /\ UNCHANGED now
  BY <1>3, OtherInv, Zenon
<1>4. CASE NextLedger /\ UNCHANGED repVars
  BY <1>4 DEF NextLedger, RepInv, RepTypeOK, repVars, badgeVars, creditVars, sbtVars
<1>5. CASE UNCHANGED <<repVars, now>>
  BY <1>5, Zenon DEF RepInv, RepTypeOK, repVars, badgeVars, creditVars, sbtVars
<1> QED
  BY <1>1, <1>2, <1>3, <1>4, <1>5, Zenon DEF RepNext, RepStep

\* record_completion, record_fraud, issue, revoke, slash and record_resolution:
\* no stored score leaves 0..MAX_SCORE and every entry keeps its type, for every
\* growth and penalty rate up to the whole and every decay rate.
THEOREM ScoresInRange == RepSpec => []RepTypeOK
<1>1. ClockInit /\ RepInit => RepInv
  BY InvInit, Zenon
<1>2. RepInv /\ [RepNext]_<<repVars, now>> => RepInv'
  BY InvStep, Zenon
<1>3. RepInv => RepTypeOK
  BY Zenon DEF RepInv
<1> QED
  BY <1>1, <1>2, <1>3, PTL DEF RepSpec

-----------------------------------------------------------------------------
(* What a step may do.                                                     *)

\* issue, revoke and slash: a credential ends only by being revoked, a revoked
\* owner never holds one again, and a slash is never lifted.
THEOREM CredentialsBound == RepSpec => CredentialsBind
<1>1. ASSUME RepInv, [RepNext]_<<repVars, now>>, NEW m \in Holders
      PROVE  CredentialKept(m)
  <2>1. /\ m \in revoked => sbts[m] = None
        /\ DOMAIN sbts = Holders
        /\ registry.sbtCount \in Nat
    BY <1>1, Zenon DEF RepInv, RepTypeOK
  <2>2. ASSUME NEW h \in Holders, NEW c \in Classes, issue(h, c)  PROVE CredentialKept(m)
    <3>1. registry'.sbtCount = registry.sbtCount + 1
      BY <1>1, <2>2, Zenon DEF issue, RepInv, RepTypeOK
    <3>2. CASE h = m
      <4>1. sbts[m] = None /\ m \notin revoked /\ sbts'[m].token_id = registry.sbtCount
        BY <2>1, <2>2, <3>2, Zenon DEF issue
      <4> QED
        BY <2>1, <3>1, <4>1 DEF CredentialKept
    <3>3. CASE h # m
      <4>1. sbts'[m] = sbts[m] /\ revoked' = revoked
        BY <2>1, <2>2, <3>3, Zenon DEF issue
      <4> QED
        BY <2>1, <4>1, Zenon DEF CredentialKept
    <3> QED
      BY <3>2, <3>3, Zenon
  <2>3. ASSUME NEW h \in Holders, revoke(h)  PROVE CredentialKept(m)
    BY <2>1, <2>3, Zenon DEF revoke, CredentialKept
  <2>4. ASSUME NEW h \in Holders, slash(h)  PROVE CredentialKept(m)
    BY <2>1, <2>4, Zenon DEF slash, CredentialKept
  <2>5. CASE UNCHANGED sbtVars
    BY <2>1, <2>5, Zenon DEF sbtVars, CredentialKept
  <2>6. BadgeStep \/ CreditStep \/ rep_initialize => UNCHANGED sbtVars
    BY Zenon DEF BadgeStep, CreditStep, rep_initialize, record_resolution, record_completion,
           record_fraud, set_score_config
  <2>7. UNCHANGED repVars => UNCHANGED sbtVars
    BY Zenon DEF repVars
  <2> QED
    BY <1>1, <2>2, <2>3, <2>4, <2>5, <2>6, <2>7, Zenon DEF RepNext, RepStep, SbtStep
<1>2. RepInv /\ [RepNext]_<<repVars, now>> => [\A m \in Holders : CredentialKept(m)]_<<repVars, now>>
  BY <1>1, Zenon
<1>3. ClockInit /\ RepInit => RepInv
  BY InvInit
<1>4. RepInv /\ [RepNext]_<<repVars, now>> => RepInv'
  BY InvStep
<1> QED
  BY <1>2, <1>3, <1>4, PTL DEF RepSpec, CredentialsBind

\* The score after record_completion or record_fraud is the one it stores, and
\* the score of another buyer stays.
LEMMA ScoreStored ==
  ASSUME RepInv, UNCHANGED now, NEW b \in Holders, NEW c \in Holders,
         NEW r \in CreditRecord, r.last_update = now, credits' = [credits EXCEPT ![b] = r]
  PROVE  get_score(c)' = IF c = b THEN r.score ELSE get_score(c)
<1>1. DOMAIN credits = Holders /\ now \in Nat
  BY Zenon DEF RepInv, RepTypeOK
<1>2. CASE c # b
  <2>1. credits'[c] = credits[c] /\ now' = now
    BY <1>1, <1>2, Zenon
  <2> QED
    BY <1>2, <2>1 DEF get_score
<1>3. CASE c = b
  <2>1. credits'[c] = r /\ now' = now /\ now <= now /\ r # None
    BY <1>1, <1>3, NoneAssumption
  <2>2. apply_decay(r.score, now, now) = r.score
    BY <2>1, Zenon DEF apply_decay
  <2> QED
    BY <1>3, <2>1, <2>2, Zenon DEF get_score
<1> QED
  BY <1>2, <1>3, Zenon

\* record_completion raises the score of its buyer or leaves it, and touches no
\* other.
LEMMA CompletionMoves ==
  ASSUME RepInv, UNCHANGED now, NEW b \in Holders, NEW c \in Holders,
         NEW e \in Escrows, record_completion(b, e)
  PROVE  ScoreMoved(c)
<1> DEFINE q == get_credit_record(b)
           h == MAX_SCORE - Decayed(b)
           x == (h * GROWTH_RATE_BPS) \div ScoreBps
           k == q.completions + 1
           r == [q EXCEPT !.score = Decayed(b) + x, !.completions = k, !.last_update = now]
<1>1. credits' = [credits EXCEPT ![b] = r]
  BY Zenon DEF record_completion
<1>2. /\ get_score(c) \in Nat /\ now \in Nat /\ now' = now
      /\ Decayed(b) \in 0..MAX_SCORE /\ Decayed(b) = get_score(b)
      /\ q \in CreditRecord /\ MAX_SCORE \in Nat
  BY RecordTyped, ScoreAssumption DEF RepInv
<1>3. h \in Nat /\ GROWTH_RATE_BPS \in 0..ScoreBps /\ k \in Nat
  BY <1>2, ScoreAssumption DEF CreditRecord
<1>4. x \in 0..h
  BY ZenonT(60), <1>3, ShareBounds
<1>5. completions[e] # b /\ completions'[e] = b
  BY NoneAssumption, Zenon DEF record_completion, RepInv, RepTypeOK
<1> HIDE DEF x, k, q
<1>6. Decayed(b) + x \in 0..MAX_SCORE /\ Decayed(b) + x >= Decayed(b)
  BY <1>2, <1>4
<1>7. r \in CreditRecord /\ r.score = Decayed(b) + x /\ r.last_update = now
  BY <1>2, <1>3, <1>6, Zenon DEF CreditRecord
<1> HIDE DEF r
<1>8. get_score(c)' = IF c = b THEN r.score ELSE get_score(c)
  BY <1>1, <1>7, ScoreStored, Zenon
<1> DEFINE new == get_score(c)'
           old == get_score(c)
<1>9. new >= old /\ (c # b => new = old) /\ ~ (now' > now)
  BY <1>2, <1>6, <1>7, <1>8
<1>10. ~ (new < old) /\ (new > old => c = b)
  BY <1>2, <1>6, <1>7, <1>8
<1> QED
  BY <1>5, <1>9, <1>10, Zenon DEF ScoreMoved

\* record_fraud lowers the score of its buyer or leaves it, counts the fraud, and
\* touches no other.
LEMMA FraudMoves ==
  ASSUME RepInv, UNCHANGED now, NEW b \in Holders, NEW c \in Holders, record_fraud(b)
  PROVE  ScoreMoved(c)
<1> DEFINE q == get_credit_record(b)
           x == (Decayed(b) * PENALTY_RATE_BPS) \div ScoreBps
           k == q.frauds + 1
           r == [q EXCEPT !.score = Decayed(b) - x, !.frauds = k, !.last_update = now]
<1>1. credits' = [credits EXCEPT ![b] = r]
  BY Zenon DEF record_fraud
<1>2. /\ get_score(c) \in Nat /\ now \in Nat /\ now' = now
      /\ Decayed(b) \in 0..MAX_SCORE /\ Decayed(b) = get_score(b)
      /\ q \in CreditRecord /\ MAX_SCORE \in Nat
  BY RecordTyped, ScoreAssumption DEF RepInv
<1>3. Decayed(b) \in Nat /\ PENALTY_RATE_BPS \in 0..ScoreBps /\ k \in Nat /\ k > q.frauds
  BY <1>2, ScoreAssumption DEF CreditRecord
<1>4. x \in 0..Decayed(b)
  BY ZenonT(60), <1>3, ShareBounds
<1> HIDE DEF x, k
<1>6. Decayed(b) - x \in 0..MAX_SCORE /\ Decayed(b) - x <= Decayed(b)
  BY <1>2, <1>4
<1>7. r \in CreditRecord /\ r.score = Decayed(b) - x /\ r.last_update = now /\ r.frauds = k
  BY <1>2, <1>3, <1>6, Zenon DEF CreditRecord
<1>a. c = b => credits'[c].frauds > get_credit_record(c).frauds
  <2>1. credits'[b] = r
    BY <1>1, Zenon DEF RepInv, RepTypeOK
  <2> QED
    BY <1>3, <1>7, <2>1, Zenon
<1> HIDE DEF r, q
<1>8. get_score(c)' = IF c = b THEN r.score ELSE get_score(c)
  BY <1>1, <1>7, ScoreStored, Zenon
<1> DEFINE new == get_score(c)'
           old == get_score(c)
<1>9. ~ (now' > now) /\ ~ (new > old) /\ (new < old => c = b)
  BY <1>2, <1>6, <1>7, <1>8
<1> QED
  BY <1>9, <1>a, Zenon DEF ScoreMoved

\* A ledger that closes lowers a score or leaves it, and not below the floor.
LEMMA LedgerMoves ==
  ASSUME RepInv, NEW c \in Holders, NextLedger, UNCHANGED repVars
  PROVE  ScoreMoved(c)
<1> DEFINE new == get_score(c)'
           old == get_score(c)
<1>1. now \in Nat /\ now' = now + 1 /\ credits' = credits
  BY Zenon DEF RepInv, NextLedger, repVars, creditVars
<1>2. old \in Nat
  BY RecordTyped, ScoreAssumption
<1>3. CASE credits[c] = None
  <2>1. new = old
    BY <1>1, <1>3, Zenon DEF get_score
  <2> QED
    BY <1>2, <2>1 DEF ScoreMoved
<1>4. CASE credits[c] # None
  <2> DEFINE s == credits[c].score
             l == credits[c].last_update
  <2>1. s \in Nat /\ l \in Nat
    BY <1>4, ScoreAssumption DEF RepInv, RepTypeOK, CreditRecord
  <2>2. old = apply_decay(s, l, now) /\ new = apply_decay(s, l, now + 1)
    BY <1>1, <1>4, Zenon DEF get_score
  <2> HIDE DEF s, l, new, old
  <2>3. now + 1 \in Nat /\ now <= now + 1
    BY <1>1
  <2>4. /\ new \in Nat /\ new <= s /\ (new >= SCORE_FLOOR \/ new = s)
        /\ old \in Nat /\ old <= s
    BY <1>1, <2>1, <2>2, <2>3, DecayBounds, Zenon
  <2>5. new <= old
    BY <1>1, <2>1, <2>2, <2>3, DecayFalls, Zenon
  <2>6. ~ (new > old) /\ now' > now /\ (new >= SCORE_FLOOR \/ new = old)
    BY <1>1, <2>1, <2>4, <2>5
  <2> QED
    BY <2>6, Zenon DEF ScoreMoved, new, old
<1> QED
  BY <1>3, <1>4, Zenon

\* record_completion, record_fraud and apply_decay: a score rises only with a
\* completion recorded for the buyer, falls only with a fraud or with time, and
\* time alone never takes it below the floor.
THEOREM ScoresMoveByEvents == RepSpec => ScoreMovesByEvents
<1>1. ASSUME RepInv, RepNext, NEW c \in Holders
      PROVE  ScoreMoved(c)
  <2>1. CASE NextLedger /\ UNCHANGED repVars
    BY <1>1, <2>1, LedgerMoves, Zenon
  <2>2. ASSUME NEW b \in Holders, NEW e \in Escrows, record_completion(b, e), UNCHANGED now
        PROVE  ScoreMoved(c)
    BY <1>1, <2>2, CompletionMoves, Zenon
  <2>3. ASSUME NEW b \in Holders, record_fraud(b), UNCHANGED now
        PROVE  ScoreMoved(c)
    BY <1>1, <2>3, FraudMoves, Zenon
  <2>4. ASSUME UNCHANGED <<credits, now>>
        PROVE  ScoreMoved(c)
    <3> DEFINE new == get_score(c)'
               old == get_score(c)
    <3>1. new = old
      BY <2>4, Zenon DEF get_score
    <3>2. old \in Nat /\ now \in Nat /\ now' = now
      BY <1>1, <2>4, RecordTyped, ScoreAssumption DEF RepInv
    <3>3. ~ (new > old) /\ ~ (new < old) /\ ~ (now' > now)
      BY <3>1, <3>2
    <3> QED
      BY <3>3, Zenon DEF ScoreMoved
  <2>5. BadgeStep \/ SbtStep \/ rep_initialize \/ (\E f \in Configs : set_score_config(f)) =>
          UNCHANGED credits
    BY Zenon DEF BadgeStep, SbtStep, rep_initialize, record_resolution, set_score_config, issue,
           revoke, slash, creditVars
  <2> QED
    BY <1>1, <2>1, <2>2, <2>3, <2>4, <2>5 DEF RepNext, RepStep, CreditStep
<1>2. RepInv /\ [RepNext]_<<repVars, now>> => [\A b \in Holders : ScoreMoved(b)]_<<repVars, now>>
  BY <1>1, Zenon
<1>3. ClockInit /\ RepInit => RepInv
  BY InvInit
<1>4. RepInv /\ [RepNext]_<<repVars, now>> => RepInv'
  BY InvStep
<1> QED
  BY <1>2, <1>3, <1>4, PTL DEF RepSpec, ScoreMovesByEvents

-----------------------------------------------------------------------------
(* Counting reports.                                                       *)

\* The disputes marked for a holder.
Marked(f, b) == {x \in Disputes : f[x] = b}

\* for_accurate never falls with another resolution.
LEMMA TierGrows ==
  ASSUME NEW n \in Nat
  PROVE  /\ for_accurate(n) \in 0..3 /\ for_accurate(n + 1) \in 0..3
         /\ for_accurate(n) <= for_accurate(n + 1)
  BY ThresholdAssumption DEF for_accurate

\* record_resolution: counts, tiers and token ids stay as BadgesEarned says.
LEMMA EarnedStep ==
  ASSUME RepInv, BadgesEarned,
         NEW a \in Holders, NEW d \in Disputes, NEW ok \in BOOLEAN, record_resolution(a, d, ok)
  PROVE  BadgesEarned'
<1> DEFINE N(x) == Cardinality(Marked(resolutions, x))
           M(x) == Cardinality(Marked(resolutions', x))
           n == registry.badgeCount
<1>1. /\ badges \in [Holders -> {None} \union Badge] /\ n \in Nat /\ now \in Nat
      /\ resolutions \in [Disputes -> {None} \union Holders]
      /\ resolutions[d] = None /\ resolutions' = [resolutions EXCEPT ![d] = a]
  BY Zenon DEF RepInv, RepTypeOK, record_resolution
<1>2. \A x \in Holders : N(x) \in Nat /\ M(x) = N(x) + (IF x = a THEN 1 ELSE 0)
  <2> SUFFICES ASSUME NEW x \in Holders  PROVE N(x) \in Nat /\ M(x) = N(x) + (IF x = a THEN 1 ELSE 0)
    BY Zenon
  <2>1. IsFiniteSet(Marked(resolutions, x)) /\ N(x) \in Nat
    <3>1. Marked(resolutions, x) \subseteq Disputes
      BY Zenon DEF Marked
    <3> QED
      BY <3>1, ThresholdAssumption, FS_Subset, FS_CardinalityType, Zenon
  <2>2. CASE x = a
    <3>1. Marked(resolutions', x) = Marked(resolutions, x) \union {d} /\ d \notin Marked(resolutions, x)
      BY <1>1, <2>2, NoneAssumption DEF Marked
    <3> QED
      BY <2>1, <2>2, <3>1, FS_AddElement, Zenon
  <2>3. CASE x # a
    <3>1. Marked(resolutions', x) = Marked(resolutions, x)
      BY <1>1, <2>3, NoneAssumption, Zenon DEF Marked
    <3> QED
      BY <2>1, <2>3, <3>1
  <2> QED
    BY <2>2, <2>3, Zenon
<1>3. \A x \in Holders :
        /\ badges[x] = None => N(x) = 0
        /\ badges[x] # None =>
             /\ badges[x].accurate = N(x) /\ badges[x].tier = Higher(1, for_accurate(N(x)))
             /\ badges[x].token_id < n
             /\ \A y \in Holders \ {x} : badges[y] # None => badges[y].token_id # badges[x].token_id
  BY Zenon DEF BadgesEarned, Marked
<1> DEFINE Earned(x) ==
             /\ badges'[x] = None => M(x) = 0
             /\ badges'[x] # None =>
                  /\ badges'[x].accurate = M(x) /\ badges'[x].tier = Higher(1, for_accurate(M(x)))
                  /\ badges'[x].token_id < registry'.badgeCount
                  /\ \A y \in Holders \ {x} :
                       badges'[y] # None => badges'[y].token_id # badges'[x].token_id
<1> HIDE DEF N, M
<1>4. CASE mint_badge(a)
  <2> DEFINE b == [token_id |-> n, tier |-> Higher(for_accurate(1), 1), accurate |-> 1,
                   minted_at |-> now, last |-> now]
  <2>1. /\ badges[a] = None /\ badges' = [badges EXCEPT ![a] = b]
        /\ registry'.badgeCount = n + 1
    BY <1>4, Zenon DEF mint_badge, RepInv, RepTypeOK
  <2>2. Higher(for_accurate(1), 1) = Higher(1, for_accurate(1)) /\ for_accurate(1) \in 0..3
    <3>1. for_accurate(0 + 1) \in 0..3
      BY TierGrows, Zenon
    <3>2. for_accurate(1) \in 0..3
      BY <3>1
    <3> QED
      BY <3>2 DEF Higher
  <2>3. b.token_id = n /\ b.accurate = 1 /\ b.tier = Higher(1, for_accurate(1)) /\ b \in Badge
    <3>1. Higher(for_accurate(1), 1) \in 1..3
      BY <2>2 DEF Higher
    <3> QED
      BY <1>1, <2>2, <3>1, Zenon DEF Badge
  <2> HIDE DEF b
  <2>4. badges'[a] = b /\ \A x \in Holders \ {a} : badges'[x] = badges[x]
    BY <1>1, <2>1, Zenon
  <2>5. \A x \in Holders : badges[x] # None => badges[x].token_id \in Nat /\ badges[x].token_id < n
    BY <1>1, <1>3, Zenon DEF Badge
  <2>6. N(a) = 0 /\ M(a) = 1 /\ \A x \in Holders \ {a} : M(x) = N(x)
    BY <1>2, <1>3, <2>1
  <2>7. \A x \in Holders : Earned(x)
    <3>1. Earned(a)
      <4>1. \A y \in Holders \ {a} : badges'[y] # None => badges'[y].token_id # n
        BY <1>1, <2>4, <2>5
      <4> QED
        BY <1>1, <2>1, <2>3, <2>4, <2>6, <4>1, NoneAssumption, SMTT(30)
    <3>2. ASSUME NEW x \in Holders \ {a}  PROVE Earned(x)
      <4>1. CASE badges[x] = None
        BY <1>3, <2>4, <2>6, <4>1, Zenon
      <4>2. CASE badges[x] # None
        <5>1. badges[x].token_id < n /\ badges[x].token_id \in Nat
          BY <2>5, <4>2, Zenon
        <5>2. badges[x].token_id < n + 1 /\ badges[x].token_id # n
          BY <1>1, <5>1, SMTT(30)
        <5>3. \A y \in Holders \ {x} : badges'[y] # None => badges'[y].token_id # badges[x].token_id
          BY <1>3, <2>3, <2>4, <4>2, <5>2
        <5> QED
          BY <1>3, <2>1, <2>4, <2>6, <4>2, <5>2, <5>3
      <4> QED
        BY <4>1, <4>2, Zenon
    <3> QED
      BY <3>1, <3>2
  <2> QED
    BY <2>7, Zenon DEF BadgesEarned, M, Marked
<1>5. CASE upgrade_badge(a)
  <2> DEFINE k == badges[a].accurate + 1
             t == Higher(badges[a].tier, for_accurate(k))
             b == [badges[a] EXCEPT !.accurate = k, !.last = now, !.tier = t]
  <2>1. badges[a] # None /\ badges[a] \in Badge /\ badges' = [badges EXCEPT ![a] = b] /\ registry' = registry
    BY <1>1, <1>5, Zenon DEF upgrade_badge
  <2>2. N(a) \in Nat /\ k = N(a) + 1 /\ M(a) = N(a) + 1 /\ badges[a].tier = Higher(1, for_accurate(N(a)))
    BY <1>2, <1>3, <2>1, Zenon
  <2>3. t = Higher(1, for_accurate(M(a)))
    <3>1. /\ for_accurate(N(a)) \in 0..3 /\ for_accurate(N(a) + 1) \in 0..3
          /\ for_accurate(N(a)) <= for_accurate(N(a) + 1)
      BY <2>2, TierGrows, Zenon
    <3> QED
      BY <2>2, <3>1 DEF Higher
  <2> HIDE DEF t, k
  <2>4. b.token_id = badges[a].token_id /\ b.accurate = k /\ b.tier = t
    BY <2>1, Zenon DEF Badge
  <2>a. k \in Nat /\ t \in 1..3
    <3>1. for_accurate(M(a)) \in 0..3
      BY <2>2, TierGrows
    <3> QED
      BY <2>2, <2>3, <3>1 DEF Higher
  <2>b. b \in Badge
    BY <1>1, <2>1, <2>a, Zenon DEF Badge
  <2> HIDE DEF b
  <2>5. badges'[a] = b /\ \A x \in Holders \ {a} : badges'[x] = badges[x]
    BY <1>1, <2>1, Zenon
  <2>6. \A x \in Holders : badges'[x] # None => badges[x] # None /\ badges'[x].token_id = badges[x].token_id
    BY <2>1, <2>4, <2>5
  <2>7. ASSUME NEW x \in Holders  PROVE Earned(x)
    <3>1. CASE x = a
      <4>1. /\ badges'[a].accurate = M(a) /\ badges'[a].tier = Higher(1, for_accurate(M(a)))
            /\ badges'[a].token_id = badges[a].token_id /\ badges[a].token_id < n
        BY <1>3, <2>1, <2>2, <2>3, <2>4, <2>5, SMTT(30)
      <4>2. \A y \in Holders \ {a} : badges'[y] # None => badges'[y].token_id # badges[a].token_id
        BY <1>3, <2>1, <2>5
      <4>3. badges'[a] # None
        BY <2>1, <2>5, <2>b, NoneAssumption, Zenon
      <4> QED
        BY <2>1, <3>1, <4>1, <4>2, <4>3, Zenon
    <3>2. CASE x # a
      <4>1. M(x) = N(x) /\ badges'[x] = badges[x]
        BY <1>2, <2>5, <3>2
      <4> QED
        BY <1>3, <2>1, <2>6, <4>1, SMTT(30)
    <3> QED
      BY <3>1, <3>2, Zenon
  <2> QED
    BY <2>7, Zenon DEF BadgesEarned, M, Marked
<1> QED
  BY <1>4, <1>5, Zenon DEF record_resolution

\* Before the authority is bound nothing has been minted, which is why setting the
\* badge counter to zero at initialization cannot hand an id out twice.
EarnedInv == BadgesEarned /\ (~registry.admin => \A x \in Holders : badges[x] = None)

\* A step that leaves the badges and their marks alone, and does not lower the counter
\* while a badge exists, keeps the counts.
LEMMA EarnedKept ==
  ASSUME EarnedInv, UNCHANGED badgeVars,
         registry'.badgeCount = registry.badgeCount \/ \A x \in Holders : badges[x] = None
  PROVE  BadgesEarned'
  BY ZenonT(60) DEF EarnedInv, BadgesEarned, badgeVars

\* Every step keeps the badges earned.
LEMMA EarnedInvStep ==
  ASSUME RepInv, EarnedInv, [RepNext]_<<repVars, now>>
  PROVE  EarnedInv'
<1>1. ASSUME BadgeStep  PROVE EarnedInv'
  <2>1. PICK a \in Holders, d \in Disputes, ok \in BOOLEAN : record_resolution(a, d, ok)
    BY <1>1, Zenon DEF BadgeStep
  <2>2. BadgesEarned'
    BY <2>1, EarnedStep, Zenon DEF EarnedInv
  <2>3. registry'.admin
    BY <2>1, Zenon DEF record_resolution, mint_badge, upgrade_badge, RepInv, RepTypeOK
  <2> QED
    BY <2>2, <2>3, Zenon DEF EarnedInv
<1>2. ASSUME rep_initialize  PROVE EarnedInv'
  <2>1. UNCHANGED badgeVars /\ (\A x \in Holders : badges[x] = None) /\ registry'.admin
    BY <1>2, Zenon DEF rep_initialize, EarnedInv, RepInv, RepTypeOK
  <2> QED
    BY <2>1, EarnedKept, Zenon DEF EarnedInv
<1>3. ASSUME CreditStep \/ SbtStep \/ UNCHANGED repVars  PROVE EarnedInv'
  <2>1. UNCHANGED badgeVars
    BY <1>3, Zenon DEF CreditStep, SbtStep, record_completion, record_fraud, set_score_config, issue,
                revoke, slash, repVars
  <2>2. registry'.badgeCount = registry.badgeCount /\ registry'.admin = registry.admin
    BY <1>3, Zenon DEF CreditStep, SbtStep, record_completion, record_fraud, set_score_config, issue,
                revoke, slash, repVars, RepInv, RepTypeOK
  <2>3. BadgesEarned'
    BY <2>1, <2>2, EarnedKept, Zenon
  <2> QED
    BY <2>1, <2>2, <2>3, Zenon DEF EarnedInv, badgeVars
<1> QED
  BY <1>1, <1>2, <1>3, Zenon DEF RepNext, RepStep

\* Nothing is minted or marked at the start.
LEMMA EarnedInit ==
  ASSUME RepInit
  PROVE  EarnedInv
<1>1. /\ \A x \in Holders : badges[x] = None
      /\ \A x \in Holders : {e \in Disputes : resolutions[e] = x} = {}
  BY NoneAssumption DEF RepInit
<1>2. \A x \in Holders : Cardinality({e \in Disputes : resolutions[e] = x}) = 0
  BY <1>1, FS_EmptySet, Zenon
<1> QED
  BY <1>1, <1>2, Zenon DEF EarnedInv, BadgesEarned

\* However the authority repeats its reports, every badge counts each dispute of its
\* owner once, wears the tier of that count and has a token id of its own, for any
\* thresholds, any number of arbitrators and any set of disputes.
THEOREM BadgesAlwaysEarned == RepSpec => []BadgesEarned
<1>1. ClockInit /\ RepInit => RepInv /\ EarnedInv
  BY InvInit, EarnedInit, Zenon
<1>2. RepInv /\ EarnedInv /\ [RepNext]_<<repVars, now>> => RepInv' /\ EarnedInv'
  BY InvStep, EarnedInvStep, Zenon
<1>3. EarnedInv => BadgesEarned
  BY Zenon DEF EarnedInv
<1> QED
  BY <1>1, <1>2, <1>3, PTL DEF RepSpec
-----------------------------------------------------------------------------
(* Completions and fees.                                                   *)

\* The escrows recorded for a buyer.
Completed(f, b) == {e \in Escrows : f[e] = b}

\* The completions a stored or fresh record counts.
CountOf(f, b) == IF f[b] = None THEN 0 ELSE f[b].completions

\* set_score_config lets only these cut-offs in.
TiersGood(c) == /\ c.gold \in Nat /\ c.zero_fee \in Nat
                /\ c.gold # 0 /\ c.gold <= c.zero_fee /\ c.zero_fee <= MAX_SCORE

\* The inductive invariant of the credits.
CountInv ==
  /\ \A b \in Holders : CountOf(credits, b) = Cardinality(Completed(completions, b))
  /\ TiersGood(get_score_config)

\* An escrow is recorded for one buyer.
LEMMA CompletedGrows ==
  ASSUME RepInv, NEW b \in Holders, NEW e \in Escrows, completions[e] = None, NEW x \in Holders
  PROVE  /\ Cardinality(Completed(completions, x)) \in Nat
         /\ Cardinality(Completed([completions EXCEPT ![e] = b], x))
              = Cardinality(Completed(completions, x)) + (IF x = b THEN 1 ELSE 0)
<1> DEFINE f == [completions EXCEPT ![e] = b]
<1>1. completions \in [Escrows -> {None} \union Holders]
  BY Zenon DEF RepInv, RepTypeOK
<1>2. f[e] = b /\ \A d \in Escrows \ {e} : f[d] = completions[d]
  BY <1>1, Zenon
<1> HIDE DEF f
<1>3. Completed(completions, x) \subseteq Escrows
  BY Zenon DEF Completed
<1>4. IsFiniteSet(Completed(completions, x)) /\ Cardinality(Completed(completions, x)) \in Nat
  BY <1>3, ThresholdAssumption, FS_Subset, FS_CardinalityType
<1>5. CASE x = b
  <2>1. Completed(f, x) = Completed(completions, x) \union {e} /\ e \notin Completed(completions, x)
    BY <1>2, <1>5, NoneAssumption, Zenon DEF Completed
  <2> QED
    BY <1>4, <1>5, <2>1, FS_AddElement, Zenon DEF f
<1>6. CASE x # b
  <2>1. Completed(f, x) = Completed(completions, x)
    BY <1>2, <1>6, NoneAssumption, Zenon DEF Completed
  <2> QED
    BY <1>4, <1>6, <2>1 DEF f
<1> QED
  BY <1>5, <1>6, Zenon

\* A stored record takes the place of the one it was made from.
LEMMA CountStored ==
  ASSUME RepInv, NEW b \in Holders, NEW r \in CreditRecord, credits' = [credits EXCEPT ![b] = r]
  PROVE  /\ CountOf(credits', b) = r.completions
         /\ \A x \in Holders \ {b} : CountOf(credits', x) = CountOf(credits, x)
         /\ get_credit_record(b).completions = CountOf(credits, b)
<1>1. credits'[b] = r /\ r # None /\ \A x \in Holders \ {b} : credits'[x] = credits[x]
  BY NoneAssumption, Zenon DEF RepInv, RepTypeOK
<1> QED
  BY <1>1 DEF CountOf, get_credit_record, FreshRecord

\* Every step keeps the completions counted.
LEMMA CountStep ==
  ASSUME RepInv, CountInv, [RepNext]_<<repVars, now>>
  PROVE  CountInv'
<1> DEFINE Counted == \A x \in Holders : CountOf(credits', x) = Cardinality(Completed(completions', x))
<1>1. ASSUME NEW b \in Holders, NEW e \in Escrows, record_completion(b, e), now' = now  PROVE CountInv'
  <2> DEFINE q == get_credit_record(b)
             h == MAX_SCORE - Decayed(b)
             y == (h * GROWTH_RATE_BPS) \div ScoreBps
             k == q.completions + 1
             r == [q EXCEPT !.score = Decayed(b) + y, !.completions = k, !.last_update = now]
  <2>1. /\ credits' = [credits EXCEPT ![b] = r] /\ registry' = registry
        /\ completions[e] = None /\ completions' = [completions EXCEPT ![e] = b]
    BY <1>1, Zenon DEF record_completion
  <2>2. now \in Nat /\ Decayed(b) \in 0..MAX_SCORE /\ q \in CreditRecord /\ MAX_SCORE \in Nat
    BY RecordTyped, ScoreAssumption, Zenon DEF RepInv
  <2>3. h \in Nat /\ GROWTH_RATE_BPS \in 0..ScoreBps /\ k \in Nat
    BY <2>2, ScoreAssumption DEF CreditRecord
  <2>4. y \in 0..h
    BY ZenonT(60), <2>3, ShareBounds
  <2> HIDE DEF y, k, q
  <2>5. Decayed(b) + y \in 0..MAX_SCORE
    BY <2>2, <2>4
  <2>6. r \in CreditRecord /\ r.completions = k
    BY <2>2, <2>3, <2>5, Zenon DEF CreditRecord
  <2> HIDE DEF r
  <2>7. /\ CountOf(credits', b) = k /\ q.completions = CountOf(credits, b)
        /\ \A x \in Holders \ {b} : CountOf(credits', x) = CountOf(credits, x)
    BY <2>1, <2>6, CountStored, Zenon DEF q
  <2>8. Counted
    <3>1. \A x \in Holders : /\ Cardinality(Completed(completions, x)) \in Nat
                             /\ Cardinality(Completed(completions', x))
                                  = Cardinality(Completed(completions, x)) + (IF x = b THEN 1 ELSE 0)
      BY <2>1, CompletedGrows, Zenon
    <3> QED
      BY <2>7, <3>1 DEF CountInv, k
  <2> QED
    BY <2>1, <2>8, Zenon DEF CountInv, get_score_config
<1>2. ASSUME NEW b \in Holders, record_fraud(b), now' = now  PROVE CountInv'
  <2> DEFINE q == get_credit_record(b)
             y == (Decayed(b) * PENALTY_RATE_BPS) \div ScoreBps
             k == q.frauds + 1
             r == [q EXCEPT !.score = Decayed(b) - y, !.frauds = k, !.last_update = now]
  <2>1. credits' = [credits EXCEPT ![b] = r] /\ registry' = registry /\ completions' = completions
    BY <1>2, Zenon DEF record_fraud
  <2>2. now \in Nat /\ Decayed(b) \in 0..MAX_SCORE /\ q \in CreditRecord /\ MAX_SCORE \in Nat
    BY RecordTyped, ScoreAssumption, Zenon DEF RepInv
  <2>3. Decayed(b) \in Nat /\ PENALTY_RATE_BPS \in 0..ScoreBps /\ k \in Nat
    BY <2>2, ScoreAssumption DEF CreditRecord
  <2>4. y \in 0..Decayed(b)
    BY ZenonT(60), <2>3, ShareBounds
  <2> HIDE DEF y, k, q
  <2>5. Decayed(b) - y \in 0..MAX_SCORE
    BY <2>2, <2>4
  <2>6. r \in CreditRecord /\ r.completions = q.completions
    BY <2>2, <2>3, <2>5, Zenon DEF CreditRecord
  <2> HIDE DEF r
  <2>7. /\ CountOf(credits', b) = q.completions /\ q.completions = CountOf(credits, b)
        /\ \A x \in Holders \ {b} : CountOf(credits', x) = CountOf(credits, x)
    BY <2>1, <2>6, CountStored, Zenon DEF q
  <2>8. Counted
    BY <2>1, <2>7, Zenon DEF CountInv
  <2> QED
    BY <2>1, <2>8, Zenon DEF CountInv, get_score_config
<1>3. ASSUME NEW c \in Configs, set_score_config(c)  PROVE CountInv'
  <2>1. /\ registry' = [registry EXCEPT !.config = c] /\ credits' = credits /\ completions' = completions
        /\ c.zero_fee >= c.gold /\ c.zero_fee <= MAX_SCORE /\ c.gold # 0
    BY <1>3, Zenon DEF set_score_config, creditVars
  <2>2. registry'.config = c /\ c \in [gold : Nat, zero_fee : Nat]
    BY <2>1, ScoreAssumption DEF RepInv, RepTypeOK
  <2>3. TiersGood(c) /\ TiersGood([gold |-> DEFAULT_GOLD_TIER, zero_fee |-> DEFAULT_ZERO_FEE_TIER])
    BY <2>1, <2>2, TierAssumption, ScoreAssumption DEF TiersGood
  <2>4. TiersGood(get_score_config')
    BY <2>2, <2>3, Zenon DEF get_score_config
  <2> QED
    BY <2>1, <2>4, Zenon DEF CountInv
<1>4. ASSUME rep_initialize \/ BadgeStep \/ SbtStep \/ UNCHANGED repVars  PROVE CountInv'
  <2>1. credits' = credits /\ completions' = completions
    BY <1>4, Zenon DEF BadgeStep, SbtStep, rep_initialize, record_resolution, issue, revoke, slash, creditVars, repVars
  <2>2. registry'.config = registry.config
    BY <1>4, Zenon DEF BadgeStep, SbtStep, rep_initialize, record_resolution, mint_badge, upgrade_badge,
                issue, revoke, slash, repVars, RepInv, RepTypeOK
  <2> QED
    BY <2>1, <2>2, Zenon DEF CountInv, get_score_config
<1> QED
  BY <1>1, <1>2, <1>3, <1>4, Zenon DEF RepNext, RepStep, CreditStep

\* Nothing is recorded at the start.
LEMMA CountInit ==
  ASSUME RepInit
  PROVE  CountInv
<1>1. \A x \in Holders : Completed(completions, x) = {} /\ CountOf(credits, x) = 0
  BY NoneAssumption, Zenon DEF RepInit, Completed, CountOf
<1>2. \A x \in Holders : Cardinality(Completed(completions, x)) = 0
  BY <1>1, FS_EmptySet, Zenon
<1>3. TiersGood(get_score_config)
  BY TierAssumption, ScoreAssumption DEF RepInit, get_score_config, TiersGood
<1> QED
  BY <1>1, <1>2, <1>3, Zenon DEF CountInv

\* fee_bps_for: a better score never pays more, the best one nothing.
LEMMA FeesFall ==
  ASSUME NEW c, TiersGood(c), NEW base \in Nat, NEW x \in Nat, NEW y \in Nat, x >= y
  PROVE  /\ fee_bps_for(x, base, c) <= fee_bps_for(y, base, c)
         /\ fee_bps_for(MAX_SCORE, base, c) = 0 /\ fee_bps_for(0, base, c) = base
<1>1. c.gold \in Nat /\ c.zero_fee \in Nat /\ c.gold # 0 /\ c.gold <= c.zero_fee /\ c.zero_fee <= MAX_SCORE /\ MAX_SCORE \in Nat
  BY ScoreAssumption, Zenon DEF TiersGood
<1>2. base \div 2 \in Nat /\ base \div 2 <= base
  OBVIOUS
<1> QED
  BY <1>1, <1>2 DEF fee_bps_for

\* The reputation registry: badges, completions and fees follow the events the
\* authority reports, each counted once, whatever it reports again and whatever
\* cut-offs it sets.
THEOREM ReputationAlwaysSound == RepSpec => []ReputationSound
<1>1. ClockInit /\ RepInit => RepInv /\ EarnedInv /\ CountInv
  BY InvInit, EarnedInit, CountInit, Zenon
<1>2. RepInv /\ EarnedInv /\ CountInv /\ [RepNext]_<<repVars, now>> => RepInv' /\ EarnedInv' /\ CountInv'
  BY InvStep, EarnedInvStep, CountStep, Zenon
<1>3. RepInv /\ EarnedInv /\ CountInv => ReputationSound
  <2>1. SUFFICES ASSUME RepInv, EarnedInv, CountInv  PROVE ReputationSound
    BY Zenon
  <2>2. CompletionsCounted
    <3>1. \A b \in Holders : get_credit_record(b).completions = CountOf(credits, b)
      BY Zenon DEF get_credit_record, FreshRecord, CountOf
    <3> QED
      BY <2>1, <3>1, Zenon DEF CompletionsCounted, CountInv, Completed
  <2>3. FeesFollowScores
    <3>1. \A b \in Holders : get_score(b) \in Nat
      BY <2>1, RecordTyped, ScoreAssumption
    <3>2. TiersGood(get_score_config) /\ BaseFees \subseteq Nat
      BY <2>1, TierAssumption, Zenon DEF CountInv
    <3>3. ASSUME NEW base \in BaseFees
          PROVE  fee_bps_for(MAX_SCORE, base, get_score_config) = 0 /\ fee_bps_for(0, base, get_score_config) = base
      <4>1. 0 \in Nat /\ 0 >= 0 /\ base \in Nat
        BY <3>2
      <4> QED
        BY <3>2, <4>1, FeesFall, Zenon
    <3>4. ASSUME NEW base \in BaseFees, NEW b \in Holders, NEW c \in Holders, get_score(b) >= get_score(c)
          PROVE  get_fee_bps(b, base) <= get_fee_bps(c, base)
      BY <3>1, <3>2, <3>4, FeesFall, Zenon DEF get_fee_bps
    <3> QED
      BY <3>3, <3>4, Zenon DEF FeesFollowScores
  <2> QED
    BY <2>1, <2>2, <2>3, Zenon DEF ReputationSound, RepInv, EarnedInv
<1> QED
  BY <1>1, <1>2, <1>3, PTL DEF RepSpec

-----------------------------------------------------------------------------
(* The vault factory.                                                      *)

\* The addresses that run a vault.
LiveVaults == {a \in Salts : deployed[a] # None}

\* The factory's instance storage.
FactoryRecord ==
  [inited : BOOLEAN, vwasm : Wasms \union {None}, time : TimePolicies \union {None}, next_salt : Nat]

\* The inductive invariant: the list names every vault once, the counter has not
\* passed the list, and nothing is deployed before initialization.
FactoryInv ==
  /\ factory \in FactoryRecord
  /\ vaults \in Seq(Salts) /\ factory.next_salt <= Len(vaults)
  /\ \A i, j \in DOMAIN vaults : vaults[i] = vaults[j] => i = j
  /\ LiveVaults = {vaults[i] : i \in DOMAIN vaults}
  /\ ~ factory.inited => vaults = <<>>
  /\ deployed \in [Salts -> DeployedVault \union {None}]
  /\ held \in [Salts -> Nat]
  /\ CounterAddressesFree

\* Deploy appends a vault that is not in the list.
LEMMA DeployListed ==
  ASSUME FactoryInv, NEW init \in VaultInits, NEW salt \in Salts, NEW supplied \in BOOLEAN,
         Deploy(init, salt, supplied)
  PROVE  /\ vaults' \in Seq(Salts) /\ Len(vaults') = Len(vaults) + 1
         /\ \A i, j \in DOMAIN vaults' : vaults'[i] = vaults'[j] => i = j
         /\ LiveVaults' = {vaults'[i] : i \in DOMAIN vaults'}
         /\ deployed' \in [Salts -> DeployedVault \union {None}]
         /\ deployed'[salt].supplied = supplied
         /\ \A a \in Salts \ {salt} : deployed'[a] = deployed[a]
         /\ held' = held
<1> DEFINE v == [merchant |-> init.merchant, wasm |-> factory.vwasm, time |-> ResolvedTime(init),
                 supplied |-> supplied]
           n == Len(vaults)
<1>1. /\ deployed[salt] = None /\ deployed' = [deployed EXCEPT ![salt] = v]
      /\ vaults' = Append(vaults, salt) /\ held' = held
  BY Zenon DEF Deploy, deployed_address
<1>2. v \in DeployedVault /\ v # None
  <2>1. init.merchant \in Sellers /\ init.time \in TimePolicies \union {None}
    BY Zenon DEF VaultInits
  <2>2. factory.vwasm \in Wasms \union {None} /\ factory.time \in TimePolicies \union {None}
    BY Zenon DEF FactoryInv, FactoryRecord
  <2>3. ResolvedTime(init) \in TimePolicies \union {None}
    BY <2>1, <2>2, Zenon DEF ResolvedTime
  <2> QED
    BY <2>1, <2>2, <2>3, FactoryAssumption DEF DeployedVault
<1>3. v.supplied = supplied
  BY Zenon
<1> HIDE DEF v
<1>4. vaults \in Seq(Salts) /\ n \in Nat /\ DOMAIN vaults = 1..n
  BY SMTT(30) DEF FactoryInv
<1>5. /\ vaults' \in Seq(Salts) /\ Len(vaults') = n + 1 /\ DOMAIN vaults' = 1..(n + 1)
      /\ vaults'[n + 1] = salt /\ \A i \in 1..n : vaults'[i] = vaults[i]
  BY <1>1, <1>4
<1>6. /\ deployed' \in [Salts -> DeployedVault \union {None}] /\ deployed'[salt] = v
      /\ \A a \in Salts \ {salt} : deployed'[a] = deployed[a]
  BY <1>1, <1>2, Zenon DEF FactoryInv
<1>7. \A i \in 1..n : vaults[i] # salt
  BY <1>1, <1>4, Zenon DEF FactoryInv, LiveVaults
<1>8. DOMAIN vaults' = DOMAIN vaults \union {n + 1} /\ n + 1 \notin DOMAIN vaults
  BY <1>4, <1>5
<1>9. \A i, j \in DOMAIN vaults' : vaults'[i] = vaults'[j] => i = j
  BY <1>4, <1>5, <1>7, <1>8, Zenon DEF FactoryInv
<1>10. LiveVaults' = LiveVaults \union {salt}
  BY <1>2, <1>6, Zenon DEF LiveVaults
<1>11. {vaults'[i] : i \in DOMAIN vaults'} = {vaults[i] : i \in DOMAIN vaults} \union {salt}
  BY <1>4, <1>5, <1>8
<1>12. LiveVaults' = {vaults'[i] : i \in DOMAIN vaults'}
  BY <1>10, <1>11, Zenon DEF FactoryInv
<1> QED
  BY <1>1, <1>3, <1>5, <1>6, <1>9, <1>12, Zenon

\* A vault at an address somebody chose.
LEMMA CreateKeeps ==
  ASSUME FactoryInv, NEW init \in VaultInits, NEW salt \in Salts, create_vault(init, salt)
  PROVE  FactoryInv'
<1>1. Deploy(init, salt, TRUE) /\ factory' = factory /\ factory.inited
  BY Zenon DEF create_vault
<1>2. /\ vaults' \in Seq(Salts) /\ Len(vaults') = Len(vaults) + 1
      /\ \A i, j \in DOMAIN vaults' : vaults'[i] = vaults'[j] => i = j
      /\ LiveVaults' = {vaults'[i] : i \in DOMAIN vaults'}
      /\ deployed' \in [Salts -> DeployedVault \union {None}]
      /\ deployed'[salt].supplied = TRUE
      /\ \A a \in Salts \ {salt} : deployed'[a] = deployed[a]
      /\ held' = held
  BY <1>1, DeployListed, Zenon
<1>3. factory.next_salt \in Nat /\ Len(vaults) \in Nat /\ factory.next_salt <= Len(vaults)
  BY DEF FactoryInv, FactoryRecord
<1>4. \A m \in Sellers, n \in 0..(MaxVaults - 1) : counter_salt(m, n) \in Salts
  BY DEF Salts
<1>5. CounterAddressesFree'
  BY <1>1, <1>2, <1>4, Zenon DEF FactoryInv, CounterAddressesFree
<1>6. factory'.next_salt <= Len(vaults')
  BY <1>1, <1>2, <1>3
<1> QED
  BY <1>1, <1>2, <1>5, <1>6, Zenon DEF FactoryInv

\* A vault at the counter's next address.
LEMMA CounterKeeps ==
  ASSUME FactoryInv, NEW init \in VaultInits, deploy_vault(init)
  PROVE  FactoryInv'
<1> DEFINE k == factory.next_salt
           salt == counter_salt(init.merchant, k)
<1>1. /\ Deploy(init, salt, FALSE) /\ factory' = [factory EXCEPT !.next_salt = k + 1]
      /\ factory.inited /\ Len(vaults) < MaxVaults
  BY Zenon DEF deploy_vault
<1>2. k \in Nat /\ Len(vaults) \in Nat /\ k <= Len(vaults) /\ init.merchant \in Sellers
  BY DEF FactoryInv, FactoryRecord, VaultInits
<1>3. k \in 0..(MaxVaults - 1)
  BY <1>1, <1>2, FactoryAssumption
<1>4. \A m \in Sellers, n \in 0..(MaxVaults - 1) : counter_salt(m, n) \in Salts
  BY DEF Salts
<1>5. salt \in Salts
  BY <1>2, <1>3, <1>4, Zenon
<1>6. /\ vaults' \in Seq(Salts) /\ Len(vaults') = Len(vaults) + 1
      /\ \A i, j \in DOMAIN vaults' : vaults'[i] = vaults'[j] => i = j
      /\ LiveVaults' = {vaults'[i] : i \in DOMAIN vaults'}
      /\ deployed' \in [Salts -> DeployedVault \union {None}]
      /\ \A a \in Salts \ {salt} : deployed'[a] = deployed[a]
      /\ held' = held
  <2> HIDE DEF salt
  <2> QED
    BY <1>1, <1>5, DeployListed, Zenon
<1>7. /\ factory' \in FactoryRecord
      /\ factory'.next_salt = k + 1 /\ factory'.inited
  <2> DEFINE k1 == k + 1
  <2>1. k1 \in Nat /\ factory \in FactoryRecord /\ factory' = [factory EXCEPT !.next_salt = k1]
    BY <1>1, <1>2 DEF FactoryInv
  <2> HIDE DEF k1
  <2>2. factory' \in FactoryRecord /\ factory'.next_salt = k1 /\ factory'.inited = factory.inited
    BY <2>1, Zenon DEF FactoryRecord
  <2> QED
    BY <1>1, <2>2, Zenon DEF k1
<1>8. ASSUME NEW m \in Sellers, NEW n \in 0..(MaxVaults - 1), n >= k + 1, deployed'[counter_salt(m, n)] # None
      PROVE  deployed'[counter_salt(m, n)].supplied
  <2>1. n \in Int /\ n # k /\ n >= k
    BY <1>2, <1>8, FactoryAssumption
  <2>2. counter_salt(m, n) # salt
    BY <2>1, Zenon DEF counter_salt
  <2>3. deployed'[counter_salt(m, n)] = deployed[counter_salt(m, n)]
    BY <1>4, <1>6, <2>2, Zenon
  <2> QED
    BY <1>8, <2>1, <2>3 DEF FactoryInv, CounterAddressesFree
<1>9. CounterAddressesFree'
  BY <1>7, <1>8, Zenon DEF CounterAddressesFree
<1>10. factory'.next_salt <= Len(vaults')
  BY <1>2, <1>6, <1>7
<1> QED
  BY <1>6, <1>7, <1>9, <1>10, Zenon DEF FactoryInv

\* The locked value over the list is the one over the vaults.
LEMMA TvlCounts ==
  ASSUME FactoryInv
  PROVE  TvlIsLockedValue
<1> DEFINE D == DOMAIN vaults
           g == [i \in D |-> held[vaults[i]]]
           L == LiveVaults
           h == [a \in L |-> held[a]]
<1>1. /\ vaults \in Seq(Salts) /\ D = 1..Len(vaults) /\ Len(vaults) \in Nat
      /\ \A i \in D : vaults[i] \in Salts
  BY DEF FactoryInv
<1>2. IsFiniteSet(D)
  BY <1>1, FS_Interval
<1>3. IntOn(g, D) /\ \A i \in D : g[i] = held[vaults[i]]
  BY <1>1 DEF FactoryInv, IntOn
<1>4. \A i, j \in D : vaults[i] = vaults[j] => i = j
  BY Zenon DEF FactoryInv
<1>5. SumFunction(g) = SumFunctionOnSet(g, D) /\ SumFunction(h) = SumFunctionOnSet(h, L)
  BY Zenon DEF SumFunction
<1>6. L = {vaults[i] : i \in D}
  BY Zenon DEF FactoryInv
<1>7. IntOn(h, L) /\ \A a \in L : h[a] = held[a]
  BY SMTT(30) DEF FactoryInv, LiveVaults, IntOn
<1> HIDE DEF D, g, L, h
<1>8. IsFiniteSet(L) /\ SumFunctionOnSet(g, D) = SumFunctionOnSet(held, L)
  <2>1. Lists(vaults, D, L, g, held)
    BY <1>3, <1>4, <1>6, Zenon DEF Lists
  <2> QED
    BY <1>2, <1>3, <2>1, SumReindex
<1>9. SumFunctionOnSet(h, L) = SumFunctionOnSet(held, L)
  BY <1>7, <1>8, SumSame
<1>10. SumFunction(g) = SumFunction(h)
  BY <1>5, <1>8, <1>9, Zenon
<1> QED
  BY <1>10, Zenon DEF TvlIsLockedValue, get_tvl, g, D, h, L, LiveVaults

\* vault-factory: the list is the vaults that exist, each once, so get_tvl counts
\* what they hold, and the counter's next addresses are free unless a call, of any
\* merchant, supplied their salt.
THEOREM VaultsAlwaysCounted == FactorySpec => []VaultsCounted
<1>1. FactoryInit => FactoryInv
  <2>1. SUFFICES ASSUME FactoryInit  PROVE FactoryInv
    BY Zenon
  <2>2. \A m \in Sellers, n \in 0..(MaxVaults - 1) : counter_salt(m, n) \in Salts
    BY DEF Salts
  <2>3. /\ factory = [inited |-> FALSE, vwasm |-> None, time |-> None, next_salt |-> 0] /\ vaults = <<>>
        /\ \A a \in Salts : deployed[a] = None
        /\ deployed \in [Salts -> DeployedVault \union {None}] /\ held \in [Salts -> Nat]
    BY <2>1, Zenon DEF FactoryInit
  <2>4. factory \in FactoryRecord /\ factory.next_salt = 0
    BY <2>3, Zenon DEF FactoryRecord
  <2>5. vaults \in Seq(Salts) /\ Len(vaults) = 0 /\ DOMAIN vaults = {}
    BY <2>3
  <2>6. LiveVaults = {vaults[i] : i \in DOMAIN vaults}
    BY <2>3, <2>5, Zenon DEF LiveVaults
  <2>7. CounterAddressesFree
    BY <2>2, <2>3, Zenon DEF CounterAddressesFree
  <2>8. 0 <= Len(vaults)
    BY <2>5
  <2> QED
    BY <2>3, <2>4, <2>5, <2>6, <2>7, <2>8, Zenon DEF FactoryInv
<1>2. FactoryInv /\ [FactoryStep]_factoryVars => FactoryInv'
  <2>1. SUFFICES ASSUME FactoryInv, [FactoryStep]_factoryVars  PROVE FactoryInv'
    BY Zenon
  <2>2. ASSUME NEW t \in TimePolicies \union {None}, NEW w \in Wasms, factory_initialize(w, t)  PROVE FactoryInv'
    <3>1. /\ ~ factory.inited /\ UNCHANGED <<vaults, deployed, held>>
          /\ factory' = [inited |-> TRUE, vwasm |-> w, time |-> t, next_salt |-> 0]
      BY <2>2, Zenon DEF factory_initialize
    <3>2. /\ factory' \in FactoryRecord
          /\ factory'.next_salt = 0 /\ factory'.inited
      BY <2>2, <3>1, Zenon DEF FactoryRecord
    <3>3. vaults = <<>> /\ Len(vaults) = 0 /\ DOMAIN vaults = {}
      BY <2>1, <3>1 DEF FactoryInv
    <3>4. LiveVaults = {}
      BY <2>1, <3>3, Zenon DEF FactoryInv
    <3>5. CounterAddressesFree'
      <4>1. \A m \in Sellers, n \in 0..(MaxVaults - 1) : counter_salt(m, n) \in Salts
        BY DEF Salts
      <4> QED
        BY <3>1, <3>4, <4>1, Zenon DEF CounterAddressesFree, LiveVaults
    <3> QED
      BY <2>1, <3>1, <3>2, <3>3, <3>5 DEF FactoryInv, LiveVaults
  <2>3. ASSUME NEW f \in FactoryRecord,
               factory' = f, f.next_salt = factory.next_salt, f.inited = factory.inited,
               UNCHANGED <<vaults, deployed, held>>
        PROVE  FactoryInv'
    BY <2>1, <2>3 DEF FactoryInv, LiveVaults, CounterAddressesFree
  <2>4. ASSUME NEW t \in TimePolicies \union {None}, set_time_policy_contract(t)  PROVE FactoryInv'
    <3>1. factory \in FactoryRecord /\ factory' = [factory EXCEPT !.time = t] /\ UNCHANGED <<vaults, deployed, held>>
      BY <2>1, <2>4, Zenon DEF set_time_policy_contract, FactoryInv
    <3>2. factory' \in FactoryRecord /\ factory'.next_salt = factory.next_salt /\ factory'.inited = factory.inited
      BY <2>4, <3>1, Zenon DEF FactoryRecord
    <3> QED
      BY <2>3, <3>1, <3>2, Zenon
  <2>5. ASSUME NEW w \in Wasms, set_vault_wasm(w)  PROVE FactoryInv'
    <3>1. factory \in FactoryRecord /\ factory' = [factory EXCEPT !.vwasm = w] /\ UNCHANGED <<vaults, deployed, held>>
      BY <2>1, <2>5, Zenon DEF set_vault_wasm, FactoryInv
    <3>2. factory' \in FactoryRecord /\ factory'.next_salt = factory.next_salt /\ factory'.inited = factory.inited
      BY <2>5, <3>1, Zenon DEF FactoryRecord
    <3> QED
      BY <2>3, <3>1, <3>2, Zenon
  <2>6. ASSUME NEW init \in VaultInits, deploy_vault(init)  PROVE FactoryInv'
    BY <2>1, <2>6, CounterKeeps
  <2>7. ASSUME NEW init \in VaultInits, NEW s \in Salts, create_vault(init, s)  PROVE FactoryInv'
    BY <2>1, <2>7, CreateKeeps
  <2>8. ASSUME NEW init \in VaultInits, NEW b \in Buyers, deploy_for_participants(init, b)  PROVE FactoryInv'
    <3>1. participant_salt(b, init.merchant) \in Salts
      BY DEF Salts, VaultInits
    <3> QED
      BY <2>1, <2>8, <3>1, CreateKeeps, Zenon DEF deploy_for_participants
  <2>9. ASSUME NEW a \in Salts, Fund(a)  PROVE FactoryInv'
    <3>1. held' \in [Salts -> Nat] /\ UNCHANGED <<factory, vaults, deployed>>
      BY <2>1, <2>9 DEF Fund, FactoryInv
    <3> QED
      BY <2>1, <3>1 DEF FactoryInv, LiveVaults, CounterAddressesFree
  <2>10. CASE UNCHANGED factoryVars
    BY <2>1, <2>10 DEF factoryVars, FactoryInv, LiveVaults, CounterAddressesFree
  <2> QED
    BY <2>1, <2>2, <2>4, <2>5, <2>6, <2>7, <2>8, <2>9, <2>10, SMTT(30) DEF FactoryStep
<1>3. FactoryInv => VaultsCounted
  BY TvlCounts, Zenon DEF VaultsCounted, FactoryInv
<1> QED
  BY <1>1, <1>2, <1>3, PTL DEF FactorySpec

-----------------------------------------------------------------------------
(* The bridge.                                                             *)

\* What an execution table credits a recipient with, message by message.
CreditOf(r, ex) ==
  [i \in MessageIds |-> IF ex[i] # None /\ ex[i].recipient = r THEN ex[i].amount ELSE 0]

\* What a list of requests burned from a withdrawer, request by request.
BurnOf(w, q) == [i \in 1..Len(q) |-> IF q[i].sender = w THEN q[i].amount ELSE 0]

\* A withdrawal request as it is stored.
Request == [sequence : Nat, sender : Withdrawers, amount : Int]

\* The disputes settled by a packet of peer p.
SettledBy(p, ds) == {d \in BridgedDisputes : ds[d] # None /\ ds[d].peer = p}

\* NoncesCoverSettlements without the maximum: a peer's nonce bounds the nonces
\* of its settlements and is one of them.
NoncesOf(p, ds, nonce, peers) ==
  /\ SettledBy(p, ds) = {} => nonce = 0
  /\ SettledBy(p, ds) # {} => p \in peers /\ \E d \in SettledBy(p, ds) : ds[d].nonce = nonce
  /\ \A d \in SettledBy(p, ds) : ds[d].nonce \in Nat /\ ds[d].nonce <= nonce
  /\ \A d, e \in SettledBy(p, ds) : d # e => ds[d].nonce # ds[e].nonce

\* A settled dispute was delivered by a trusted peer, under a nonce no higher
\* than the peer's latest.
NoncesCover == \A p \in Peers : NoncesOf(p, disputeSettled, peerNonce[p], trusted)

\* The inductive invariant behind DeliveredOnce.  Requests exist only once the
\* bridge is initialized: bridge_initialize resets the sequence number.
BridgeInv ==
  /\ BridgeTypeOK /\ CreditedOncePerMessage /\ NoncesCover
  /\ AttestedByQuorum /\ RequestsMatchBurns
  /\ requests \in Seq(Request)
  /\ ~bridge.admin => requests = <<>>

-----------------------------------------------------------------------------
\* The credited total of CreditedOncePerMessage is a sum over all message ids.
LEMMA CreditSum ==
  ASSUME NEW ex \in [MessageIds -> {None} \union Messages], NEW r
  PROVE  /\ IntOn(CreditOf(r, ex), MessageIds)
         /\ SumFunction([i \in {j \in MessageIds : ex[j] # None /\ ex[j].recipient = r} |-> ex[i].amount])
              = SumFunctionOnSet(CreditOf(r, ex), MessageIds)
<1> DEFINE T == {j \in MessageIds : ex[j] # None /\ ex[j].recipient = r}
           f == [i \in T |-> ex[i].amount]
           g == CreditOf(r, ex)
<1>1. \A i \in MessageIds : ex[i] # None => ex[i].amount \in Int
  BY BridgeAssumption, Zenon
<1>2. IntOn(g, MessageIds)
  BY <1>1 DEF IntOn, CreditOf
<1>3. T \in SUBSET MessageIds /\ (\A x \in T : f[x] = g[x]) /\ \A x \in MessageIds \ T : g[x] = 0
  BY Zenon DEF CreditOf
<1>4. SumFunction(f) = SumFunctionOnSet(f, T)
  BY Zenon DEF SumFunction
<1> HIDE DEF T, f, g
<1>5. SumFunctionOnSet(f, T) = SumFunctionOnSet(g, MessageIds)
  BY <1>2, <1>3, SumSupport, BridgeAssumption
<1> QED
  BY <1>2, <1>4, <1>5, Zenon DEF T, f, g

\* A deposit is credited once: the message id was free.
LEMMA DepositCredits ==
  ASSUME BridgeInv, NEW m \in Messages, m.amount > 0, record_deposit(m)
  PROVE  /\ executed' \in [MessageIds -> {None} \union Messages]
         /\ credited' \in [Recipients -> 0..MaxCredit]
         /\ CreditedOncePerMessage'
<1> DEFINE k == m.id
           r0 == m.recipient
<1>1. k \in MessageIds /\ r0 \in Recipients /\ m.amount \in Int /\ m # None
  BY BridgeAssumption, Zenon DEF MessageIds, Recipients
<1>2. /\ executed \in [MessageIds -> {None} \union Messages]
      /\ credited \in [Recipients -> 0..MaxCredit]
      /\ \A r \in Recipients : credited[r] \in Int
  BY BridgeAssumption DEF BridgeInv, BridgeTypeOK
<1>3. /\ executed[k] = None /\ executed' = [executed EXCEPT ![k] = m]
      /\ credited' = [credited EXCEPT ![r0] = credited[r0] + m.amount]
      /\ credited[r0] + m.amount <= MaxCredit
  BY Zenon DEF record_deposit
<1> HIDE DEF k, r0
<1>4. executed' \in [MessageIds -> {None} \union Messages]
  BY <1>1, <1>2, <1>3, Zenon
<1>5. credited' \in [Recipients -> 0..MaxCredit]
  <2>1. credited[r0] + m.amount \in 0..MaxCredit
    BY <1>1, <1>2, <1>3, BridgeAssumption, SMTT(30)
  <2> QED
    BY <1>2, <1>3, <2>1, ZenonT(30)
<1>6. ASSUME NEW r \in Recipients
      PROVE  credited'[r] = SumFunctionOnSet(CreditOf(r, executed'), MessageIds)
  <2> DEFINE f == CreditOf(r, executed)
             g == CreditOf(r, executed')
  <2>1. credited[r] = SumFunctionOnSet(f, MessageIds) /\ IntOn(f, MessageIds)
    BY <1>2, CreditSum, Zenon DEF BridgeInv, CreditedOncePerMessage
  <2>2. IntOn(g, MessageIds)
    BY <1>4, CreditSum, Zenon
  <2>3. f[k] = 0 /\ g[k] = IF r0 = r THEN m.amount ELSE 0
    BY <1>1, <1>2, <1>3, Zenon DEF CreditOf, r0
  <2>4. \A y \in MessageIds \ {k} : g[y] = f[y]
    BY <1>1, <1>2, <1>3 DEF CreditOf
  <2>5. g[k] \in Int
    BY <1>1, <2>3, SMTT(30)
  <2> HIDE DEF f, g
  <2>6. SumFunctionOnSet(g, MessageIds) = SumFunctionOnSet(f, MessageIds) - f[k] + g[k]
    BY <1>1, <2>1, <2>4, <2>5, SumChange, BridgeAssumption, SMTT(30)
  <2>7. credited'[r] = credited[r] + g[k]
    BY <1>1, <1>2, <1>3, <2>3
  <2>8. SumFunctionOnSet(f, MessageIds) \in Int
    BY <1>2, <2>1, Zenon
  <2> QED
    BY <2>1, <2>3, <2>5, <2>6, <2>7, <2>8 DEF g
<1>7. CreditedOncePerMessage'
  BY <1>4, <1>6, CreditSum, Zenon DEF CreditedOncePerMessage
<1> QED
  BY <1>4, <1>5, <1>7, Zenon

-----------------------------------------------------------------------------
\* The nonce bounds are what the property says of a peer.
LEMMA CoverIsMaximum ==
  ASSUME NoncesCover
  PROVE  NoncesCoverSettlements
BY Zenon DEF NoncesCover, NoncesOf, SettledBy, NoncesCoverSettlements

\* A resolution is accepted for a free dispute, on a nonce past the peer's last.
LEMMA ResolutionSettles ==
  ASSUME NoncesCover, peerNonce \in [Peers -> Nat],
         disputeSettled \in [BridgedDisputes -> {None} \union Packets],
         NEW q \in Packets, q.peer \in trusted, q.nonce > peerNonce[q.peer],
         record_dispute_resolution(q), UNCHANGED trusted
  PROVE  /\ NoncesCover' /\ peerNonce' \in [Peers -> Nat]
         /\ disputeSettled' \in [BridgedDisputes -> {None} \union Packets]
         /\ ResolutionsFinal
<1> DEFINE p0 == q.peer
           d0 == q.dispute
           n0 == q.nonce
<1>1. /\ p0 \in Peers /\ d0 \in BridgedDisputes /\ n0 \in Nat /\ q # None
      /\ p0 \in trusted /\ n0 > peerNonce[p0]
  BY BridgeAssumption, Zenon DEF Peers, BridgedDisputes
<1>2. /\ disputeSettled[d0] = None /\ disputeSettled' = [disputeSettled EXCEPT ![d0] = q]
      /\ peerNonce' = [peerNonce EXCEPT ![p0] = n0]
  BY Zenon DEF record_dispute_resolution
<1>3. q.peer = p0 /\ q.nonce = n0
  BY Zenon
<1> HIDE DEF p0, d0, n0
<1>4. /\ peerNonce' \in [Peers -> Nat] /\ peerNonce'[p0] = n0
      /\ \A p \in Peers : p # p0 => peerNonce'[p] = peerNonce[p]
      /\ disputeSettled' \in [BridgedDisputes -> {None} \union Packets] /\ disputeSettled'[d0] = q
      /\ \A d \in BridgedDisputes : d # d0 => disputeSettled'[d] = disputeSettled[d]
  BY <1>1, <1>2
<1>5. ResolutionsFinal
  <2>1. \A p \in Peers : peerNonce'[p] >= peerNonce[p]
    BY <1>1, <1>4
  <2> QED
    BY <1>2, <1>4, <2>1, Zenon DEF ResolutionsFinal
<1>6. d0 \notin SettledBy(p0, disputeSettled)
  BY <1>2, Zenon DEF SettledBy
<1>7. SettledBy(p0, disputeSettled') = SettledBy(p0, disputeSettled) \union {d0}
  BY <1>1, <1>3, <1>4, Zenon DEF SettledBy
<1>8. \A p \in Peers : p # p0 => SettledBy(p, disputeSettled') = SettledBy(p, disputeSettled)
  BY <1>2, <1>3, <1>4 DEF SettledBy
<1>9. \A p \in Peers : d0 \notin SettledBy(p, disputeSettled)
  BY <1>2, Zenon DEF SettledBy
<1>10. \A p \in Peers : \A d \in SettledBy(p, disputeSettled) : disputeSettled'[d] = disputeSettled[d]
  BY <1>4, <1>9, Zenon DEF SettledBy
<1>11. NoncesOf(p0, disputeSettled', peerNonce'[p0], trusted)
  <2>1. \A d \in SettledBy(p0, disputeSettled) :
          /\ disputeSettled'[d] = disputeSettled[d] /\ disputeSettled[d].nonce \in Nat
          /\ disputeSettled[d].nonce < n0
    BY <1>1, <1>10 DEF NoncesCover, NoncesOf
  <2>2. \A d, e \in SettledBy(p0, disputeSettled) : d # e => disputeSettled[d].nonce # disputeSettled[e].nonce
    BY <1>1, Zenon DEF NoncesCover, NoncesOf
  <2> QED
    BY <1>1, <1>3, <1>4, <1>7, <2>1, <2>2, SMTT(30) DEF NoncesOf
<1>12. ASSUME NEW p \in Peers, p # p0
       PROVE  NoncesOf(p, disputeSettled', peerNonce'[p], trusted)
  <2>1. NoncesOf(p, disputeSettled, peerNonce[p], trusted)
    BY Zenon DEF NoncesCover
  <2> QED
    BY <1>4, <1>8, <1>10, <1>12, <2>1 DEF NoncesOf
<1>13. NoncesCover'
  BY <1>11, <1>12, Zenon DEF NoncesCover
<1> QED
  BY <1>4, <1>5, <1>13, Zenon

-----------------------------------------------------------------------------
\* Signatures in strictly ascending order name different guardians.
LEMMA AscendingDiffer ==
  ASSUME NEW n \in Nat, NEW g, \A i \in 1..n : g[i] \in Nat,
         \A i \in 1..n : i > 1 => g[i] > g[i - 1]
  PROVE  \A i, j \in 1..n : i < j => g[i] < g[j]
<1> DEFINE Bad == {j \in 1..n : \E i \in 1..n : i < j /\ ~(g[i] < g[j])}
<1>1. ASSUME Bad # {}  PROVE FALSE
  <2>0. Bad \subseteq Nat
    OBVIOUS
  <2>1. PICK j \in Bad : \A y \in Bad : j <= y
    <3> HIDE DEF Bad
    <3> QED
      BY <1>1, <2>0, NatMin, Zenon
  <2>2. PICK i \in 1..n : i < j /\ ~(g[i] < g[j])
    BY <2>1, Zenon
  <2>3. j - 1 \in 1..n /\ j - 1 \notin Bad /\ g[j] > g[j - 1] /\ j \in 1..n
    BY <2>1, <2>2
  <2>4. i = j - 1 \/ g[i] < g[j - 1]
    BY <2>2, <2>3
  <2>5. g[i] \in Nat /\ g[j] \in Nat /\ g[j - 1] \in Nat
    BY <2>2, <2>3, Zenon
  <2> QED
    BY <2>2, <2>3, <2>4, <2>5
<1> QED
  BY <1>1, Zenon

\* A quorum of ascending signatures is one of different guardians.
LEMMA QuorumSigned ==
  ASSUME NEW v \in Vaas, NEW s \in GuardianSets, verify_vaa(v, s)
  PROVE  LET signed == {i \in 1..Len(s.keys) :
                          \E j \in 1..Len(v.signatures) :
                            v.signatures[j].guardian + 1 = i /\ v.signatures[j].signer = s.keys[i]}
         IN  3 * Cardinality(signed) > 2 * Len(s.keys)
<1> DEFINE n == Len(v.signatures)
           m == Len(s.keys)
           sg == v.signatures
           g == [i \in 1..n |-> sg[i].guardian]
           f == [i \in 1..n |-> sg[i].guardian + 1]
           signed == {i \in 1..m : \E j \in 1..n : sg[j].guardian + 1 = i /\ sg[j].signer = s.keys[i]}
<1>1. /\ n \in Nat /\ m \in Nat /\ n >= (m * 2) \div 3 + 1
      /\ \A i \in 1..n : /\ sg[i].guardian \in Nat /\ sg[i].guardian < m
                         /\ i > 1 => sg[i].guardian > sg[i - 1].guardian
                         /\ sg[i].signer = s.keys[sg[i].guardian + 1]
  BY BridgeAssumption, Zenon DEF verify_vaa, quorum
<1> HIDE DEF n, m, sg
<1>2. (\A i \in 1..n : g[i] \in Nat) /\ (\A i \in 1..n : i > 1 => g[i] > g[i - 1])
  BY <1>1
<1>3. \A i, j \in 1..n : i < j => g[i] < g[j]
  <2> HIDE DEF g
  <2> QED
    BY <1>1, <1>2, AscendingDiffer, Zenon
<1>4. \A i \in 1..n : f[i] = g[i] + 1 /\ f[i] \in signed
  BY <1>1, SMTT(30)
<1>5. \A i, j \in 1..n : f[i] = f[j] => i = j
  <2> HIDE DEF f, g, signed
  <2> QED
    BY <1>1, <1>2, <1>3, <1>4
<1>6. f \in Injection(1..n, signed)
  <2>1. f \in [1..n -> signed]
    BY <1>4, Zenon
  <2> HIDE DEF f, signed
  <2> QED
    BY <1>5, <2>1, Zenon DEF Injection, IsInjective
<1>7. IsFiniteSet(signed)
  <2>1. IsFiniteSet(1..m) /\ signed \in SUBSET (1..m)
    BY <1>1, FS_Interval
  <2> HIDE DEF signed
  <2> QED
    BY <2>1, FS_Subset, Zenon
<1> HIDE DEF f, signed
<1>8. Cardinality(1..n) <= Cardinality(signed) /\ Cardinality(signed) \in Nat
  BY <1>6, <1>7, FS_Injection, FS_CardinalityType, Zenon
<1>9. Cardinality(1..n) = n
  BY <1>1, FS_Interval, SMTT(30)
<1>10. 3 * Cardinality(signed) > 2 * m
  BY <1>1, <1>8, <1>9
<1> QED
  BY <1>10, Zenon DEF signed, n, m, sg

-----------------------------------------------------------------------------
\* What the requests of RequestsMatchBurns add up to is a sum over all of them.
LEMMA BurnSum ==
  ASSUME NEW q \in Seq(Request), NEW w
  PROVE  /\ IntOn(BurnOf(w, q), 1..Len(q))
         /\ SumFunction([i \in {j \in 1..Len(q) : q[j].sender = w} |-> q[i].amount])
              = SumFunctionOnSet(BurnOf(w, q), 1..Len(q))
<1> DEFINE D == 1..Len(q)
           T == {j \in 1..Len(q) : q[j].sender = w}
           f == [i \in T |-> q[i].amount]
           g == BurnOf(w, q)
<1>1. \A i \in D : q[i] \in Request /\ q[i].amount \in Int
  <2>1. \A i \in D : q[i] \in Request
    OBVIOUS
  <2> QED
    BY <2>1, Zenon DEF Request
<1>2. IntOn(g, D)
  BY <1>1 DEF IntOn, BurnOf
<1>3. T \in SUBSET D /\ (\A x \in T : f[x] = g[x]) /\ \A x \in D \ T : g[x] = 0
  BY Zenon DEF BurnOf
<1>4. SumFunction(f) = SumFunctionOnSet(f, T)
  BY Zenon DEF SumFunction
<1>5. IsFiniteSet(D)
  BY FS_Interval, SMTT(30)
<1> HIDE DEF T, f, g, D
<1>6. SumFunctionOnSet(f, T) = SumFunctionOnSet(g, D)
  BY <1>2, <1>3, <1>5, SumSupport
<1> QED
  BY <1>2, <1>4, <1>6, Zenon DEF T, f, g, D

\* A withdrawal burns what its request asks for, under the next sequence number.
LEMMA WithdrawalBurns ==
  ASSUME BridgeInv, NEW c \in Withdrawers, NEW a \in Withdrawals, withdraw_to_evm(c, a)
  PROVE  /\ RequestsMatchBurns' /\ requests' \in Seq(Request)
         /\ wrapped' \in [Withdrawers -> Nat]
<1> DEFINE n == Len(requests)
           e == [sequence |-> bridge.next, sender |-> c, amount |-> a]
<1>1. /\ requests \in Seq(Request) /\ n \in Nat /\ bridge.next = n + 1
      /\ wrapped \in [Withdrawers -> Nat] /\ a \in Int
      /\ \A i \in 1..n : requests[i].sequence = i
  BY BridgeAssumption DEF BridgeInv, RequestsMatchBurns, BridgeTypeOK
<1>2. /\ a > 0 /\ wrapped[c] >= a /\ requests' = Append(requests, e)
      /\ wrapped' = [wrapped EXCEPT ![c] = wrapped[c] - a]
      /\ bridge'.next = bridge.next + 1
  BY Zenon DEF withdraw_to_evm, execute_withdrawal_to_evm, BridgeInv, BridgeTypeOK
<1>3. e \in Request /\ e.sender = c /\ e.amount = a /\ e.sequence = n + 1
  BY <1>1, SMTT(30) DEF Request
<1> HIDE DEF e
<1>4. /\ requests' \in Seq(Request) /\ Len(requests') = n + 1 /\ requests'[n + 1] = e
      /\ \A i \in 1..n : requests'[i] = requests[i]
  BY <1>1, <1>2, <1>3, SMTT(30)
<1>5. wrapped' \in [Withdrawers -> Nat]
  BY <1>1, <1>2, SMTT(30)
<1>6. \A i \in 1..Len(requests') : requests'[i].sequence = i
  BY <1>1, <1>3, <1>4
<1>7. bridge'.next = Len(requests') + 1
  BY <1>1, <1>2, <1>4, Zenon
<1>8. ASSUME NEW w \in Withdrawers
      PROVE  wrapped'[w] + SumFunctionOnSet(BurnOf(w, requests'), 1..Len(requests')) = InitialWrapped
  <2> DEFINE f == BurnOf(w, requests)
             g == BurnOf(w, requests')
             D == 1..n
  <2>1. wrapped[w] + SumFunctionOnSet(f, D) = InitialWrapped /\ IntOn(f, D)
    BY <1>1, BurnSum, Zenon DEF BridgeInv, RequestsMatchBurns
  <2>2. IsFiniteSet(D) /\ n + 1 \notin D /\ 1..Len(requests') = D \union {n + 1}
    <3> HIDE DEF n
    <3>1. IsFiniteSet(D)
      BY <1>1, FS_Interval, SMTT(30)
    <3> QED
      BY <1>1, <1>4, <3>1, SMTT(30)
  <2>3. \A x \in D : f[x] = g[x]
    BY <1>1, <1>4, SMTT(30) DEF BurnOf
  <2>4. g[n + 1] = (IF c = w THEN a ELSE 0)
    BY <1>1, <1>3, <1>4, SMTT(30) DEF BurnOf
  <2>5. IntOn(g, D) /\ g[n + 1] \in Int
    BY <1>1, <2>1, <2>3, <2>4, SMTT(30) DEF IntOn
  <2>6. wrapped'[w] = wrapped[w] - g[n + 1]
    BY <1>1, <1>2, <2>4
  <2> HIDE DEF f, g, D
  <2>7. SumFunctionOnSet(f, D) = SumFunctionOnSet(g, D) /\ SumFunctionOnSet(f, D) \in Int
    BY <2>1, <2>2, <2>3, SumSame, SumInt, Zenon
  <2>8. SumFunctionOnSet(g, D \union {n + 1}) = SumFunctionOnSet(g, D) + g[n + 1]
    <3> DEFINE k == n + 1
    <3> HIDE DEF k
    <3>1. SumFunctionOnSet(g, D \union {k}) = SumFunctionOnSet(g, D) + g[k]
      BY <2>2, <2>5, SumAdd, SMTT(30) DEF k
    <3> QED
      BY <3>1, Zenon DEF k
  <2>9. wrapped[w] \in Int /\ InitialWrapped \in Int
    BY <1>1, BridgeAssumption
  <2>10. SumFunctionOnSet(g, 1..Len(requests')) = SumFunctionOnSet(f, D) + g[n + 1]
    BY <2>2, <2>7, <2>8, Zenon
  <2> HIDE DEF n
  <2>11. wrapped'[w] + SumFunctionOnSet(g, 1..Len(requests')) = InitialWrapped
    BY <2>1, <2>5, <2>6, <2>7, <2>9, <2>10, SMTT(30)
  <2> QED
    BY <2>11, Zenon DEF g
<1>9. \A w \in Withdrawers :
        wrapped'[w] + SumFunction([i \in {j \in 1..Len(requests') : requests'[j].sender = w}
                                     |-> requests'[i].amount]) = InitialWrapped
  BY <1>4, <1>8, BurnSum, Zenon
<1>10. RequestsMatchBurns'
  BY <1>6, <1>7, <1>9, Zenon DEF RequestsMatchBurns
<1> QED
  BY <1>4, <1>5, <1>10, ZenonT(30)

-----------------------------------------------------------------------------
\* Every step keeps the invariant and no resolution is undone.
LEMMA BridgeStepKeeps ==
  ASSUME BridgeInv, [BridgeNext]_bridgeVars
  PROVE  BridgeInv' /\ ResolutionsFinal
<1> DEFINE B == [admin : BOOLEAN, paused : BOOLEAN, next : Nat \ {0},
                 gateway : {None} \union Gateways, endpoint : {None} \union Endpoints,
                 current : Nat]
           dep == /\ executed \in [MessageIds -> {None} \union Messages]
                  /\ credited \in [Recipients -> 0..MaxCredit]
                  /\ CreditedOncePerMessage
           dis == /\ trusted \subseteq Peers /\ peerNonce \in [Peers -> Nat]
                  /\ disputeSettled \in [BridgedDisputes -> {None} \union Packets]
                  /\ NoncesCover
           out == /\ wrapped \in [Withdrawers -> Nat] /\ RequestsMatchBurns
                  /\ requests \in Seq(Request) /\ (~bridge.admin => requests = <<>>)
           vaa == /\ guardians \in [SetIndices -> {None} \union GuardianSets]
                  /\ attested = None \/ attested.vaa \in Vaas
                  /\ AttestedByQuorum
<1>1. bridge \in B /\ dep /\ dis /\ out /\ vaa
  BY Zenon DEF BridgeInv, BridgeTypeOK
<1>2. ASSUME bridge' \in B, dep', dis', out', vaa'  PROVE BridgeInv'
  BY <1>2, Zenon DEF BridgeInv, BridgeTypeOK
<1>3. ASSUME UNCHANGED depositVars  PROVE dep'
  <2>1. executed' = executed /\ credited' = credited
    BY <1>3, Zenon DEF depositVars
  <2>2. \A r \in Recipients : credited[r] = SumFunctionOnSet(CreditOf(r, executed), MessageIds)
    BY <1>1, CreditSum, Zenon DEF CreditedOncePerMessage
  <2>3. \A r \in Recipients : credited'[r] = SumFunctionOnSet(CreditOf(r, executed'), MessageIds)
    BY <2>1, <2>2
  <2>4. executed' \in [MessageIds -> {None} \union Messages] /\ credited' \in [Recipients -> 0..MaxCredit]
    BY <1>1, <2>1, Zenon
  <2>5. CreditedOncePerMessage'
    BY <2>3, <2>4, CreditSum, Zenon DEF CreditedOncePerMessage
  <2> QED
    BY <2>4, <2>5, Zenon
<1>4. ASSUME UNCHANGED disputeVars  PROVE dis' /\ ResolutionsFinal
  <2>1. dis'
    BY <1>1, <1>4, Zenon DEF disputeVars, NoncesCover
  <2>2. \A p \in Peers : peerNonce'[p] >= peerNonce[p]
    BY <1>1, <1>4 DEF disputeVars
  <2> QED
    BY <1>4, <2>1, <2>2 DEF disputeVars, ResolutionsFinal
<1>5. ASSUME UNCHANGED outVars, bridge'.next = bridge.next,
             ~bridge'.admin => ~bridge.admin
      PROVE  out'
  <2>1. requests' = requests /\ wrapped' = wrapped
    BY <1>5, Zenon DEF outVars
  <2>2. \A w \in Withdrawers :
          wrapped[w] + SumFunctionOnSet(BurnOf(w, requests), 1..Len(requests)) = InitialWrapped
    BY <1>1, BurnSum, Zenon DEF RequestsMatchBurns
  <2>3. \A w \in Withdrawers :
          wrapped'[w] + SumFunctionOnSet(BurnOf(w, requests'), 1..Len(requests')) = InitialWrapped
    BY <2>1, <2>2, Zenon
  <2>4. /\ requests' \in Seq(Request) /\ wrapped' \in [Withdrawers -> Nat]
        /\ \A i \in 1..Len(requests') : requests'[i].sequence = i
        /\ bridge'.next = Len(requests') + 1
    BY <1>1, <1>5, <2>1, ZenonT(30) DEF RequestsMatchBurns
  <2>5. RequestsMatchBurns'
    BY <2>3, <2>4, BurnSum DEF RequestsMatchBurns
  <2>6. ~bridge'.admin => requests' = <<>>
    BY <1>1, <1>5, <2>1, Zenon
  <2> QED
    BY <2>4, <2>5, <2>6, Zenon
<1>6. ASSUME UNCHANGED vaaVars  PROVE vaa'
  BY <1>1, <1>6, Zenon DEF vaaVars, AttestedByQuorum
<1> HIDE DEF dep, dis, vaa
<1>7. CASE bridge_initialize
  <2> DEFINE b == [bridge EXCEPT !.admin = TRUE, !.next = 1, !.paused = FALSE, !.current = 0]
  <2>1. bridge' = b /\ ~bridge.admin /\ UNCHANGED <<depositVars, disputeVars, outVars, vaaVars>>
    BY <1>7, Zenon DEF bridge_initialize
  <2>2. b \in B /\ b.next = 1 /\ b.admin
    <3> DEFINE b1 == [bridge EXCEPT !.admin = TRUE]
               b2 == [b1 EXCEPT !.next = 1]
               b3 == [b2 EXCEPT !.paused = FALSE]
    <3>1. b1 \in B /\ b1.admin
      BY <1>1, Zenon
    <3>2. b = [b3 EXCEPT !.current = 0]
      BY Zenon
    <3> HIDE DEF b, b1
    <3>3. b2 \in B /\ b2.admin /\ b2.next = 1
      BY <3>1
    <3> HIDE DEF b2
    <3>4. b3 \in B /\ b3.admin /\ b3.next = 1
      BY <3>3, Zenon
    <3> HIDE DEF b3
    <3> QED
      BY <3>2, <3>4, Zenon
  <2>3. requests = <<>>
    BY <1>1, <2>1, Zenon
  <2>4. bridge.next = 1
    BY <1>1, <2>3 DEF RequestsMatchBurns
  <2> HIDE DEF b, out
  <2>5. out'
    BY <1>5, <2>1, <2>2, <2>4, Zenon
  <2> QED
    BY <1>2, <1>3, <1>4, <1>6, <2>1, <2>2, <2>5, SMTT(30)
<1>8. ASSUME bridge' \in B, bridge'.next = bridge.next, bridge'.admin = bridge.admin,
             UNCHANGED <<depositVars, disputeVars, outVars, vaaVars>>
      PROVE  BridgeInv' /\ ResolutionsFinal
  <2> HIDE DEF B, out
  <2> QED
    BY <1>2, <1>3, <1>4, <1>5, <1>6, <1>8, Zenon
<1>9. CASE bridge_pause \/ bridge_unpause
  <2>1. PICK x \in BOOLEAN : bridge' = [bridge EXCEPT !.paused = x]
    BY <1>9, Zenon DEF bridge_pause, bridge_unpause
  <2>2. bridge' \in B /\ bridge'.next = bridge.next /\ bridge'.admin = bridge.admin
    BY <1>1, <2>1, SMTT(30)
  <2> QED
    BY <1>8, <1>9, <2>2, Zenon DEF bridge_pause, bridge_unpause
<1>10. ASSUME NEW g \in Gateways, set_axelar_gateway(g)  PROVE BridgeInv' /\ ResolutionsFinal
  <2>1. bridge' \in B /\ bridge'.next = bridge.next /\ bridge'.admin = bridge.admin
    BY <1>1, <1>10, Zenon DEF set_axelar_gateway
  <2> QED
    BY <1>8, <1>10, <2>1, Zenon DEF set_axelar_gateway
<1>11. ASSUME NEW e \in Endpoints, set_layerzero_endpoint(e)  PROVE BridgeInv' /\ ResolutionsFinal
  <2>1. bridge' \in B /\ bridge'.next = bridge.next /\ bridge'.admin = bridge.admin
    BY <1>1, <1>11, Zenon DEF set_layerzero_endpoint
  <2> QED
    BY <1>8, <1>11, <2>1 DEF set_layerzero_endpoint
<1>12. ASSUME NEW g \in Gateways, NEW m \in Messages, axelar_execute(g, m)
       PROVE  BridgeInv' /\ ResolutionsFinal
  <2>1. dep'
    BY <1>12, DepositCredits DEF axelar_execute, dep
  <2>2. UNCHANGED <<bridge, disputeVars, outVars, vaaVars>>
    BY <1>12 DEF axelar_execute
  <2> HIDE DEF B, out
  <2> QED
    BY <1>1, <1>2, <1>4, <1>5, <1>6, <2>1, <2>2
<1>13. ASSUME NEW p \in Peers, set_trusted_peer(p)  PROVE BridgeInv' /\ ResolutionsFinal
  <2>1. trusted' = trusted \union {p}
        /\ UNCHANGED <<bridge, depositVars, peerNonce, disputeSettled, outVars, vaaVars>>
    BY <1>13, SMTT(30) DEF set_trusted_peer
  <2>2. NoncesCover'
    BY <1>1, <2>1 DEF dis, NoncesCover, NoncesOf
  <2>3. dis'
    BY <1>1, <2>1, <2>2, Zenon DEF dis
  <2>4. ResolutionsFinal
    BY <1>1, <2>1, SMTT(30) DEF dis, ResolutionsFinal
  <2> HIDE DEF B, out
  <2> QED
    BY <1>1, <1>2, <1>3, <1>5, <1>6, <2>1, <2>3, <2>4, SMTT(30)
<1>14. ASSUME NEW e \in Endpoints, NEW p \in Packets, lz_receive(e, p)
       PROVE  BridgeInv' /\ ResolutionsFinal
  <2>1. UNCHANGED <<bridge, depositVars, trusted, outVars, vaaVars>>
    BY <1>14, Zenon DEF lz_receive
  <2>2. /\ NoncesCover' /\ peerNonce' \in [Peers -> Nat] /\ ResolutionsFinal
        /\ disputeSettled' \in [BridgedDisputes -> {None} \union Packets]
    BY <1>1, <1>14, <2>1, ResolutionSettles, Zenon DEF lz_receive, dis
  <2>3. dis'
    BY <1>1, <2>1, <2>2, ZenonT(30) DEF dis
  <2> HIDE DEF B, out
  <2> QED
    BY <1>1, <1>2, <1>3, <1>5, <1>6, <2>1, <2>2, <2>3, SMTT(30)
<1>15. ASSUME NEW s \in GuardianSets, set_guardian_set(s)  PROVE BridgeInv' /\ ResolutionsFinal
  <2> DEFINE b == [bridge EXCEPT !.current = s.index]
  <2>1. /\ guardians' = [guardians EXCEPT ![s.index] = s] /\ bridge' = b
        /\ UNCHANGED <<depositVars, disputeVars, outVars, attested>>
    BY <1>15, Zenon DEF set_guardian_set
  <2>2. s.index \in SetIndices /\ s.index \in Nat
    BY BridgeAssumption, Zenon DEF SetIndices
  <2>3. b \in B /\ b.next = bridge.next /\ b.admin = bridge.admin
    BY <1>1, <2>2, SMTT(30)
  <2>4. vaa'
    BY <1>1, <2>1, <2>2 DEF vaa, AttestedByQuorum
  <2> HIDE DEF b, B, out
  <2> QED
    BY <1>2, <1>3, <1>4, <1>5, <2>1, <2>3, <2>4, SMTT(30)
<1>16. ASSUME NEW v \in Vaas, verify_and_parse_vaa(v)  PROVE BridgeInv' /\ ResolutionsFinal
  <2> DEFINE s == guardians[v.index]
  <2>1. /\ s # None /\ verify_vaa(v, s) /\ attested' = [vaa |-> v, keys |-> s.keys]
        /\ UNCHANGED <<bridge, depositVars, disputeVars, outVars, guardians>>
    BY <1>16 DEF verify_and_parse_vaa
  <2>2. v.index \in SetIndices
    BY Zenon DEF SetIndices
  <2>3. s \in GuardianSets
    BY <1>1, <2>1, <2>2, Zenon DEF vaa
  <2> HIDE DEF s
  <2>4. attested'.vaa = v /\ attested'.keys = s.keys
    BY <2>1, SMTT(30)
  <2>5. AttestedByQuorum'
    BY <2>1, <2>3, <2>4, QuorumSigned DEF AttestedByQuorum
  <2>6. vaa'
    BY <1>1, <2>1, <2>4, <2>5, Zenon DEF vaa
  <2> HIDE DEF B, out
  <2> QED
    BY <1>1, <1>2, <1>3, <1>4, <1>5, <2>1, <2>6, Zenon
<1>17. ASSUME NEW c \in Withdrawers, NEW a \in Withdrawals, withdraw_to_evm(c, a)
       PROVE  BridgeInv' /\ ResolutionsFinal
  <2> DEFINE b == [bridge EXCEPT !.next = bridge.next + 1]
  <2>1. /\ bridge.admin /\ bridge' = b /\ UNCHANGED <<depositVars, disputeVars, vaaVars>>
    BY <1>17, Zenon DEF withdraw_to_evm
  <2>2. b \in B /\ b.admin = bridge.admin
    BY <1>1, SMTT(30)
  <2> HIDE DEF b
  <2>3. out'
    BY <1>17, <2>1, <2>2, WithdrawalBurns
  <2> HIDE DEF B, out
  <2> QED
    BY <1>2, <1>3, <1>4, <1>6, <2>1, <2>2, <2>3, SMTT(30)
<1>18. CASE UNCHANGED bridgeVars
  <2>1. bridge' = bridge /\ UNCHANGED <<depositVars, disputeVars, outVars, vaaVars>>
    BY <1>18 DEF bridgeVars
  <2> HIDE DEF B
  <2> QED
    BY <1>1, <1>8, <2>1, Zenon
<1> QED
  BY <1>18, <1>7, <1>9, <1>10, <1>11, <1>12, <1>13, <1>14, <1>15, <1>16, <1>17, SMTT(30)
     DEF BridgeNext, BridgeAdminStep, DepositStep, ResolutionStep, VaaStep, WithdrawStep

\* However the gateway, the endpoint and the relayers lose, repeat or reorder what
\* they deliver, a deposit is credited once per message id (axelar_execute), a
\* dispute keeps its first resolution (lz_receive), an accepted attestation has a
\* quorum of different guardians (verify_and_parse_vaa), and the numbered
\* withdrawal requests add up to what was burned (withdraw_to_evm).
THEOREM AlwaysDeliveredOnce == BridgeSpec => DeliveredOnce
<1>1. BridgeInit => BridgeInv
  <2> SUFFICES ASSUME BridgeInit  PROVE BridgeInv
    OBVIOUS
  <2>1. /\ executed = [i \in MessageIds |-> None] /\ credited = [r \in Recipients |-> 0]
        /\ requests = <<>> /\ attested = None /\ bridge.next = 1 /\ ~bridge.admin
        /\ wrapped = [w \in Withdrawers |-> InitialWrapped]
        /\ peerNonce = [p \in Peers |-> 0] /\ disputeSettled = [d \in BridgedDisputes |-> None]
    BY ZenonT(30) DEF BridgeInit
  <2>2. BridgeTypeOK
    <3>1. bridge \in [admin : BOOLEAN, paused : BOOLEAN, next : Nat \ {0},
                      gateway : {None} \cup Gateways, endpoint : {None} \cup Endpoints,
                      current : Nat]
      BY DEF BridgeInit
    <3>2. InitialWrapped \in Nat /\ 0 \in 0..MaxCredit
      BY BridgeAssumption
    <3>3. guardians \in [SetIndices -> {None} \cup GuardianSets]
      BY Zenon DEF BridgeInit
    <3>4. executed \in [MessageIds -> {None} \cup Messages]
      BY <2>1, Zenon
    <3>5. credited \in [Recipients -> 0..MaxCredit]
      BY <2>1, <3>2, Zenon
    <3>6. trusted \subseteq Peers
      BY Zenon DEF BridgeInit
    <3>7. peerNonce \in [Peers -> Nat]
      BY <2>1
    <3>8. disputeSettled \in [BridgedDisputes -> {None} \cup Packets]
      BY <2>1, Zenon
    <3>9. wrapped \in [Withdrawers -> Nat]
      BY <2>1, <3>2, Zenon
    <3> QED
      BY <2>1, <3>1, <3>3, <3>4, <3>5, <3>6, <3>7, <3>8, <3>9, Zenon DEF BridgeTypeOK
  <2>3. CreditedOncePerMessage
    <3> SUFFICES ASSUME NEW r \in Recipients
                 PROVE  credited[r] = SumFunction([i \in {j \in MessageIds : executed[j] # None
                                        /\ executed[j].recipient = r} |-> executed[i].amount])
      BY Zenon DEF CreditedOncePerMessage
    <3>1. {j \in MessageIds : executed[j] # None /\ executed[j].recipient = r} = {}
      BY <2>1, Zenon
    <3> DEFINE f == [i \in {} |-> executed[i].amount]
    <3>2. SumFunction(f) = SumFunctionOnSet(f, {})
      BY Zenon DEF SumFunction
    <3>3. SumFunctionOnSet(f, {}) = 0
      BY SumEmpty, Zenon
    <3> QED
      BY <2>1, <3>1, <3>2, <3>3, Zenon
  <2>4. NoncesCover
    BY <2>1, ZenonT(30) DEF NoncesCover, NoncesOf, SettledBy
  <2>5. AttestedByQuorum
    BY <2>1, Zenon DEF AttestedByQuorum
  <2>6. requests \in Seq(Request) /\ Len(requests) = 0 /\ 1..Len(requests) = {}
    BY <2>1, SMTT(30)
  <2>7. ASSUME NEW w \in Withdrawers
        PROVE  wrapped[w] + SumFunction([i \in {j \in 1..Len(requests) : requests[j].sender = w}
                                           |-> requests[i].amount]) = InitialWrapped
    <3>1. SumFunctionOnSet(BurnOf(w, requests), 1..Len(requests)) = 0
      BY <2>6, SumEmpty, Zenon
    <3>2. SumFunction([i \in {j \in 1..Len(requests) : requests[j].sender = w} |-> requests[i].amount])
            = SumFunctionOnSet(BurnOf(w, requests), 1..Len(requests))
      <4>1. requests \in Seq(Request)
        BY <2>6, Zenon
      <4> QED
        BY <4>1, BurnSum, Zenon
    <3>3. wrapped[w] = InitialWrapped /\ InitialWrapped \in Int
      BY <2>1, BridgeAssumption, SMTT(30)
    <3>4. SumFunction([i \in {j \in 1..Len(requests) : requests[j].sender = w} |-> requests[i].amount])
            = 0
      BY <3>1, <3>2, Zenon
    <3>5. wrapped[w] + 0 = InitialWrapped
      BY <3>3
    <3> QED
      BY <3>4, <3>5, Zenon
  <2>8. RequestsMatchBurns
    BY <2>1, <2>6, <2>7 DEF RequestsMatchBurns
  <2> QED
    BY <2>1, <2>2, <2>3, <2>4, <2>5, <2>6, <2>8, Zenon DEF BridgeInv
<1>2. BridgeInv /\ [BridgeNext]_bridgeVars => BridgeInv'
  BY BridgeStepKeeps, Zenon
<1>3. BridgeInv /\ BridgeInv' /\ [BridgeNext]_bridgeVars
        => [/\ BridgeTypeOK' /\ CreditedOncePerMessage' /\ NoncesCoverSettlements'
            /\ AttestedByQuorum' /\ RequestsMatchBurns'
            /\ ResolutionsFinal]_bridgeVars
  <2>1. BridgeInv' => NoncesCoverSettlements'
    <3>1. BridgeInv => NoncesCoverSettlements
      BY CoverIsMaximum, Zenon DEF BridgeInv
    <3> QED
      BY <3>1, PTL
  <2> QED
    BY <2>1, BridgeStepKeeps, Zenon DEF BridgeInv
<1> QED
  BY <1>1, <1>2, <1>3, PTL DEF BridgeSpec, DeliveredOnce
=============================================================================
