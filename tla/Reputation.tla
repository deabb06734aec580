----------------------------- MODULE Reputation -----------------------------
(***************************************************************************)
(* The reputation registry: one badge per arbitrator, raised by accurate   *)
(* dispute resolutions; one decaying credit score per buyer; one credential*)
(* per merchant that cannot move.  All three are written by the authority  *)
(* bound at initialization, whose signature every step below stands for;   *)
(* its calls may be repeated, so disputes and escrows arrive again.        *)
(***************************************************************************)
EXTENDS LedgerClock, FiniteSets

CONSTANTS Holders,            \* arbitrators, buyers and merchants
          Disputes, Escrows,  \* the ids the authority may report
          Configs,            \* tier cut-offs the authority may set
          Classes,            \* credential classes a caller may pass
          BaseFees,
          BRONZE_THRESHOLD, SILVER_THRESHOLD, GOLD_THRESHOLD,
          MAX_SCORE, STARTING_SCORE, SCORE_FLOOR, GROWTH_RATE_BPS, PENALTY_RATE_BPS,
          DECAY_INTERVAL_LEDGERS, DECAY_RATE_BPS, DEFAULT_GOLD_TIER, DEFAULT_ZERO_FEE_TIER,
          MaxFrauds           \* bound: fraudulent losses recorded per buyer

\* BPS_DENOMINATOR of the scores.
ScoreBps == 10000

\* What the constants of the source satisfy.
ASSUME ScoreAssumption ==
  /\ MAX_SCORE \in Nat /\ STARTING_SCORE \in 0..MAX_SCORE /\ SCORE_FLOOR \in Nat
  /\ GROWTH_RATE_BPS \in 0..ScoreBps /\ PENALTY_RATE_BPS \in 0..ScoreBps
  /\ DECAY_INTERVAL_LEDGERS \in Nat \ {0} /\ DECAY_RATE_BPS \in Nat
  /\ \A c \in Configs : c \in [gold : Nat, zero_fee : Nat]

\* Tiers in ascending order, and finitely many reports.
ASSUME ThresholdAssumption ==
  /\ BRONZE_THRESHOLD \in Nat /\ SILVER_THRESHOLD \in Nat /\ GOLD_THRESHOLD \in Nat
  /\ BRONZE_THRESHOLD <= SILVER_THRESHOLD /\ SILVER_THRESHOLD <= GOLD_THRESHOLD
  /\ IsFiniteSet(Disputes) /\ IsFiniteSet(Escrows)

\* The default cut-offs pass the checks of set_score_config; fees are u32.
ASSUME TierAssumption ==
  /\ DEFAULT_GOLD_TIER \in Nat \ {0} /\ DEFAULT_ZERO_FEE_TIER \in DEFAULT_GOLD_TIER..MAX_SCORE
  /\ BaseFees \subseteq Nat

Badge == [token_id : Nat, tier : 1..3, accurate : Nat, minted_at : Nat, last : Nat]
CreditRecord == [score : 0..MAX_SCORE, completions : Nat, frauds : Nat, last_update : Nat]

\* No stored entry is mistaken for an absent one.
ASSUME NoneAssumption ==
  None \notin Holders /\ None \notin CreditRecord /\ None \notin Badge

VARIABLES registry,      \* Admin set?, BadgeCount, SbtCount, ScoreConfig
          badges,        \* Badge(owner) or None
          resolutions,   \* ResolutionDispute(id): its arbitrator, or None
          credits,       \* Credit(buyer) or None
          completions,   \* CompletionEscrow(id): its buyer, or None
          sbts,          \* Sbt(owner) or None
          revoked        \* owners with a Revoked tombstone

badgeVars == <<badges, resolutions>>
creditVars == <<credits, completions>>
sbtVars == <<sbts, revoked>>
repVars == <<registry, badgeVars, creditVars, sbtVars>>

RepInit ==
  /\ registry = [admin |-> FALSE, badgeCount |-> 0, sbtCount |-> 0, config |-> None]
  /\ badges = [h \in Holders |-> None]
  /\ resolutions = [d \in Disputes |-> None]
  /\ credits = [h \in Holders |-> None]
  /\ completions = [e \in Escrows |-> None]
  /\ sbts = [h \in Holders |-> None]
  /\ revoked = {}

rep_initialize ==
  /\ ~registry.admin
  /\ registry' = [registry EXCEPT !.admin = TRUE, !.badgeCount = 0, !.sbtCount = 0]
  /\ UNCHANGED <<badgeVars, creditVars, sbtVars>>

(***************************************************************************)
(* Arbitrator badges.  Tiers are 1 (Bronze) to 3 (Gold), 0 below Bronze.   *)
(***************************************************************************)
for_accurate(n) ==
  CASE n >= GOLD_THRESHOLD -> 3
    [] n < GOLD_THRESHOLD /\ n >= SILVER_THRESHOLD -> 2
    [] n < SILVER_THRESHOLD /\ n >= BRONZE_THRESHOLD -> 1
    [] OTHER -> 0

Higher(a, b) == IF a > b THEN a ELSE b

mint_badge(a) ==
  /\ badges[a] = None
  /\ badges' = [badges EXCEPT ![a] = [token_id |-> registry.badgeCount,
                                      tier |-> Higher(for_accurate(1), 1),
                                      accurate |-> 1, minted_at |-> now, last |-> now]]
  /\ registry' = [registry EXCEPT !.badgeCount = @ + 1]

upgrade_badge(a) ==
  /\ badges[a] # None
  /\ badges' = [badges EXCEPT ![a] =
       [badges[a] EXCEPT !.accurate = badges[a].accurate + 1, !.last = now,
                         !.tier = Higher(badges[a].tier, for_accurate(badges[a].accurate + 1))]]
  /\ UNCHANGED registry

\* Mutant of record_resolution: a dispute already marked is counted again.
record_resolution_repeated(a, d, accurate) ==
  /\ registry.admin
  /\ accurate
  /\ badges[a] # None => badges[a].accurate <= Cardinality(Disputes)
  /\ mint_badge(a) \/ upgrade_badge(a)
  /\ resolutions' = [resolutions EXCEPT ![d] = a]
  /\ UNCHANGED <<creditVars, sbtVars>>

\* Only an accurate outcome of a dispute not recorded before counts.
record_resolution(a, d, accurate) ==
  /\ registry.admin
  /\ accurate
  /\ resolutions[d] = None
  /\ mint_badge(a) \/ upgrade_badge(a)
  /\ resolutions' = [resolutions EXCEPT ![d] = a]
  /\ UNCHANGED <<creditVars, sbtVars>>

(***************************************************************************)
(* Buyer credit.                                                           *)
(***************************************************************************)
\* One step of decay per whole interval, on the part above the floor.
apply_decay(score, last_update, ledger) ==
  LET intervals == (ledger - last_update) \div DECAY_INTERVAL_LEDGERS
      headroom  == score - SCORE_FLOOR
      decay     == (headroom * DECAY_RATE_BPS * intervals) \div ScoreBps
  IN  IF ledger <= last_update \/ intervals = 0 \/ score <= SCORE_FLOOR
      THEN score
      ELSE SCORE_FLOOR + Higher(headroom - decay, 0)

FreshRecord == [score |-> STARTING_SCORE, completions |-> 0, frauds |-> 0, last_update |-> now]
get_credit_record(b) == IF credits[b] = None THEN FreshRecord ELSE credits[b]

get_score(b) ==
  IF credits[b] = None THEN STARTING_SCORE
  ELSE apply_decay(credits[b].score, credits[b].last_update, now)

Decayed(b) == apply_decay(get_credit_record(b).score, get_credit_record(b).last_update, now)

\* Decay first, then a share of the headroom; an escrow counts once.
record_completion(b, e) ==
  /\ registry.admin
  /\ completions[e] = None
  /\ credits' = [credits EXCEPT ![b] = [get_credit_record(b) EXCEPT
        !.score = Decayed(b) + ((MAX_SCORE - Decayed(b)) * GROWTH_RATE_BPS) \div ScoreBps,
        !.completions = @ + 1,
        !.last_update = now]]
  /\ completions' = [completions EXCEPT ![e] = b]
  /\ UNCHANGED <<registry, badgeVars, sbtVars>>

\* Decay first, then a share of what is left.
record_fraud(b) ==
  /\ registry.admin
  /\ get_credit_record(b).frauds < MaxFrauds
  /\ credits' = [credits EXCEPT ![b] = [get_credit_record(b) EXCEPT
        !.score = Decayed(b) - (Decayed(b) * PENALTY_RATE_BPS) \div ScoreBps,
        !.frauds = @ + 1,
        !.last_update = now]]
  /\ UNCHANGED <<registry, badgeVars, sbtVars, completions>>

get_score_config ==
  IF registry.config = None
  THEN [gold |-> DEFAULT_GOLD_TIER, zero_fee |-> DEFAULT_ZERO_FEE_TIER]
  ELSE registry.config

fee_bps_for(score, base, config) ==
  CASE score >= config.zero_fee -> 0
    [] score < config.zero_fee /\ score >= config.gold -> base \div 2
    [] OTHER -> base

get_fee_bps(b, base) == fee_bps_for(get_score(b), base, get_score_config)

set_score_config(config) ==
  /\ registry.admin
  /\ config.zero_fee >= config.gold
  /\ config.zero_fee <= MAX_SCORE
  /\ config.gold # 0
  /\ registry' = [registry EXCEPT !.config = config]
  /\ UNCHANGED <<badgeVars, creditVars, sbtVars>>

(***************************************************************************)
(* Merchant credentials.  Moving or delegating one always fails, so these  *)
(* three calls are all that changes them.                                  *)
(***************************************************************************)
ValidClasses == 1..3

issue(m, class) ==
  /\ registry.admin
  /\ class \in ValidClasses
  /\ m \notin revoked
  /\ sbts[m] = None
  /\ sbts' = [sbts EXCEPT ![m] = [token_id |-> registry.sbtCount, class |-> class,
                                  issued_at |-> now, slashed_at |-> None]]
  /\ registry' = [registry EXCEPT !.sbtCount = @ + 1]
  /\ UNCHANGED <<badgeVars, creditVars, revoked>>

\* The credential is deleted and its owner gets the tombstone.
revoke(m) ==
  /\ registry.admin
  /\ sbts[m] # None
  /\ sbts' = [sbts EXCEPT ![m] = None]
  /\ revoked' = revoked \union {m}
  /\ UNCHANGED <<registry, badgeVars, creditVars>>

\* slashed is slashed_at # None.
slash(m) ==
  /\ registry.admin
  /\ sbts[m] # None
  /\ sbts[m].slashed_at = None
  /\ sbts' = [sbts EXCEPT ![m].slashed_at = now]
  /\ UNCHANGED <<registry, badgeVars, creditVars, revoked>>

BadgeStep == \E a \in Holders, d \in Disputes, ok \in BOOLEAN : record_resolution(a, d, ok)
CreditStep ==
  \/ \E b \in Holders, e \in Escrows : record_completion(b, e)
  \/ \E b \in Holders : record_fraud(b)
  \/ \E c \in Configs : set_score_config(c)
SbtStep ==
  \/ \E m \in Holders, c \in Classes : issue(m, c)
  \/ \E m \in Holders : revoke(m) \/ slash(m)

RepStep == rep_initialize \/ BadgeStep \/ CreditStep \/ SbtStep
RepNext == (RepStep /\ UNCHANGED now) \/ (NextLedger /\ UNCHANGED repVars)
RepSpec == ClockInit /\ RepInit /\ [][RepNext]_<<repVars, now>>

-----------------------------------------------------------------------------
\* Every stored record is of its type and no score leaves 0..MAX_SCORE, so the
\* headroom MAX_SCORE - old_score of record_completion never underflows.
RepTypeOK ==
  /\ registry \in [admin : BOOLEAN, badgeCount : Nat, sbtCount : Nat,
                   config : {None} \union [gold : Nat, zero_fee : Nat]]
  /\ badges \in [Holders -> {None} \union Badge]
  /\ resolutions \in [Disputes -> {None} \union Holders]
  /\ credits \in [Holders -> {None} \union CreditRecord]
  /\ completions \in [Escrows -> {None} \union Holders]
  /\ sbts \in [Holders -> {None} \union [token_id : Nat, class : ValidClasses,
                                         issued_at : Nat, slashed_at : {None} \union Nat]]
  /\ revoked \subseteq Holders

\* A badge counts exactly the distinct disputes marked for its owner, its tier is
\* the best one that count has earned (Bronze from the first), and no two badges
\* share a token id, however often and for whomever record_resolution is repeated.
BadgesEarned ==
  \A a \in Holders :
    LET n == Cardinality({d \in Disputes : resolutions[d] = a}) IN
      /\ badges[a] = None => n = 0
      /\ badges[a] # None =>
           /\ badges[a].accurate = n
           /\ badges[a].tier = Higher(1, for_accurate(n))
           /\ badges[a].token_id < registry.badgeCount
           /\ \A b \in Holders \ {a} :
                badges[b] # None => badges[b].token_id # badges[a].token_id

\* A buyer's completions are the escrows recorded for the buyer, each once.
CompletionsCounted ==
  \A b \in Holders :
    get_credit_record(b).completions = Cardinality({e \in Escrows : completions[e] = b})

\* What one step may do to the score of b.
ScoreMoved(b) ==
  /\ get_score(b)' > get_score(b) => \E e \in Escrows : completions[e] # b /\ completions'[e] = b
  /\ get_score(b)' < get_score(b) => now' > now \/ credits'[b].frauds > get_credit_record(b).frauds
  /\ now' > now => get_score(b)' >= SCORE_FLOOR \/ get_score(b)' = get_score(b)

\* The score get_score reports rises only when a completion is recorded for the
\* buyer and falls only with a recorded fraud or with time, and time alone never
\* takes it below the floor: what decay has already taken is not given back by
\* the next event.
ScoreMovesByEvents == [][\A b \in Holders : ScoreMoved(b)]_<<repVars, now>>

\* Whatever cut-offs the authority sets, the best score pays no fee, score zero
\* pays the full one, and of two buyers the better score never pays more.
FeesFollowScores ==
  \A base \in BaseFees :
    /\ fee_bps_for(MAX_SCORE, base, get_score_config) = 0
    /\ fee_bps_for(0, base, get_score_config) = base
    /\ \A b, c \in Holders :
         get_score(b) >= get_score(c) => get_fee_bps(b, base) <= get_fee_bps(c, base)

\* What one step may do to the credential of m.
CredentialKept(m) ==
  /\ sbts[m] # None =>
       \/ sbts'[m] = None /\ m \in revoked'
       \/ sbts'[m] = sbts[m]
       \/ sbts[m].slashed_at = None /\ sbts'[m] = [sbts[m] EXCEPT !.slashed_at = now]
  /\ m \in revoked => m \in revoked' /\ sbts'[m] = None
  /\ sbts[m] = None /\ sbts'[m] # None =>
       /\ sbts'[m].token_id = registry.sbtCount
       /\ registry'.sbtCount > registry.sbtCount

\* A credential ends only by being revoked, a revoked owner never holds one
\* again, a slash is never lifted, and a new credential gets an id never used.
CredentialsBind == [][\A m \in Holders : CredentialKept(m)]_<<repVars, now>>

\* Badges, completions and fees follow the events recorded, each counted once.
ReputationSound == RepTypeOK /\ BadgesEarned /\ CompletionsCounted /\ FeesFollowScores
=============================================================================
