---------------------------- MODULE PriceOracle ----------------------------
(***************************************************************************)
(* Price feeds and the gate a refund vault builds on them: consumers that  *)
(* store the rounds a relayer pushes, the vault's whitelist of consumers,  *)
(* and the median of the fresh answers that decides whether a refund is    *)
(* permitted.  Relayers push late, out of order and repeatedly.  The feeds *)
(* are called through clients that trap on an error.                       *)
(***************************************************************************)
EXTENDS LedgerClock, Sequences, SequencesExt

CONSTANTS Feeds,      \* consumer contracts
          Rounds,     \* rounds that may be pushed
          Policies    \* gates the merchant may set: threshold, max_staleness, below

VARIABLES feedAdmin,    \* feeds with an Admin
          roundData,    \* Round(id) of each feed, or None
          latestRound,  \* LatestRound of each feed, or None
          whitelist     \* Oracles of the vault

oracleVars == <<feedAdmin, roundData, latestRound, whitelist>>

RoundIds == {r.round_id : r \in Rounds}

OracleInit ==
  /\ feedAdmin = {}
  /\ roundData = [f \in Feeds |-> [i \in RoundIds |-> None]]
  /\ latestRound = [f \in Feeds |-> None]
  /\ whitelist = <<>>

oracle_initialize(f) ==
  /\ f \notin feedAdmin
  /\ feedAdmin' = feedAdmin \union {f}
  /\ UNCHANGED <<roundData, latestRound, whitelist>>

LatestId(f) == IF latestRound[f] = None THEN 0 ELSE latestRound[f]

Complete(r) == r.answered_in_round >= r.round_id /\ r.updated_at # 0 /\ r.answer > 0

set_round_data(f, r) ==
  /\ f \in feedAdmin
  /\ Complete(r)
  /\ r.round_id > LatestId(f) \/ LatestId(f) = 0
  /\ latestRound' = [latestRound EXCEPT ![f] = r.round_id]
  /\ roundData' = [roundData EXCEPT ![f][r.round_id] = r]
  /\ UNCHANGED <<feedAdmin, whitelist>>

HasData(f) == latestRound[f] # None
latest_round(f) == roundData[f][latestRound[f]]

\* validate_round without a bound on the age; what is stored is complete.
get_price(f) == latest_round(f).answer
get_last_update_ledger(f) == IF HasData(f) THEN latest_round(f).updated_at ELSE 0

(***************************************************************************)
(* The vault's side.                                                       *)
(***************************************************************************)
add_oracle(f) ==
  /\ ~Contains(whitelist, f)
  /\ whitelist' = Append(whitelist, f)
  /\ UNCHANGED <<feedAdmin, roundData, latestRound>>

remove_oracle(f) ==
  /\ Contains(whitelist, f)
  /\ whitelist' = Remove(whitelist, f)
  /\ UNCHANGED <<feedAdmin, roundData, latestRound>>

Stale(f, max) == max > 0 /\ get_last_update_ledger(f) + max < now

\* One turn of the insertion sort: x goes after the entries not above it.
Insert(sorted, x) ==
  SelectSeq(sorted, LAMBDA y : y <= x) \o <<x>> \o SelectSeq(sorted, LAMBDA y : y > x)
Sorted(prices) == FoldLeft(Insert, <<>>, prices)

\* Mutant of median: the largest price instead of the middle one.
median_last(prices) == Sorted(prices)[Len(prices)]

median(prices) ==
  LET s   == Sorted(prices)
      mid == Len(s) \div 2
  IN  IF Len(s) % 2 = 1 THEN s[mid + 1] ELSE s[mid] + (s[mid + 1] - s[mid]) \div 2

Fresh(max) == SelectSeq(whitelist, LAMBDA f : ~Stale(f, max))

\* No whitelist, or only stale members, is an error; a member that is not stale
\* and has no round traps.
Evaluable(max) == Fresh(max) # <<>> /\ \A f \in ToSet(Fresh(max)) : HasData(f)
median_price(max) == median([i \in 1..Len(Fresh(max)) |-> get_price(Fresh(max)[i])])

\* The gate lets a refund pass.
evaluate_policy(p) ==
  /\ Evaluable(p.max_staleness)
  /\ IF p.below THEN median_price(p.max_staleness) < p.threshold
                ELSE median_price(p.max_staleness) > p.threshold

OracleStep ==
  \E f \in Feeds :
    \/ oracle_initialize(f)
    \/ \E r \in Rounds : set_round_data(f, r)
    \/ add_oracle(f) \/ remove_oracle(f)
OracleNext == (OracleStep /\ UNCHANGED now) \/ (NextLedger /\ UNCHANGED oracleVars)
OracleSpec == ClockInit /\ OracleInit /\ [][OracleNext]_<<oracleVars, now>>

-----------------------------------------------------------------------------
\* A refund that passes the gate has at least half of the fresh whitelisted feeds
\* on its side, by their latest rounds and by strict comparison: no minority of
\* them, no stale feed and no feed taken off the list can let one pass.  That is
\* less than the majority of the whitelist which the documentation of the
\* aggregator promises: stale feeds do not count at all, and of two fresh ones,
\* whose prices are averaged, one may be enough.
PermittedByHalf ==
  \A p \in Policies :
    LET fresh == {f \in ToSet(whitelist) :
                    p.max_staleness = 0 \/ now - get_last_update_ledger(f) <= p.max_staleness}
        agree == {f \in fresh : HasData(f) /\ IF p.below THEN get_price(f) < p.threshold
                                                        ELSE get_price(f) > p.threshold}
    IN  evaluate_policy(p) => fresh # {} /\ 2 * Cardinality(agree) >= Cardinality(fresh)

\* The latest round of a feed is the newest one ever stored for it, whatever order
\* the relayer pushes rounds in.
LatestIsNewest ==
  \A f \in Feeds, i \in RoundIds :
    roundData[f][i] # None => HasData(f) /\ i <= latestRound[f] /\ roundData[f][i].round_id = i

\* A permission rests on half of the fresh feeds, each by its newest round, not
\* on a majority of the whitelist,
\* however pushes, changes of the whitelist and ledgers interleave.
FeedsSound == PermittedByHalf /\ LatestIsNewest
=============================================================================
