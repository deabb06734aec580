--------------------------- MODULE ReceiptAnchor ---------------------------
(***************************************************************************)
(* The router of anchored receipts (receipt-anchor) over its shards.  Each *)
(* logical stream numbers its batches from 1 and cuts them into shards of  *)
(* SHARD_CAPACITY ids that the router deploys when the first id of a shard *)
(* is anchored.  Pruning runs on two levels: the router keeps a cursor per *)
(* stream, every shard its own, and anybody may prune a shard by age       *)
(* without the router.                                                     *)
(***************************************************************************)
EXTENDS ReceiptShard, IncrementalMerkle

CONSTANTS
  Streams,                \* logical shard ids
  Roots, Counts,          \* arguments of anchor_batch
  ZkProven,               \* external: <<root, count>> with a valid proof
  Merchants,
  RateLimits,             \* arguments of set_anchor_rate_limit
  Intervals,              \* arguments of set_min_anchor_interval
  MaxCounts,              \* arguments of prune_expired_receipts
  PruneBefore,            \* arguments of prune_batches
  MigratedRecords,        \* arguments of insert_migrated_batch
  SHARD_CAPACITY,
  ROOT_BUFFER_SIZE,
  MAX_BATCH_SIZE, MAX_PRUNE_BATCHES,
  MAX_RATE_BURST, MAX_RATE_REFILL_INTERVAL, MAX_ANCHOR_INTERVAL,
  MaxLeaves,              \* bound on the leaves inserted
  MaxTotalLeaves          \* bound on the leaves a shard ever held

VARIABLES
  router,
  shard,                  \* [Streams \X Indices -> shard or None]
  anchored,               \* history: the batches of a stream, in order
  era,                    \* history: anchors under the current rate limit
  max_burst,              \* history: the largest burst ever configured
  foreign,                \* history: <<stream, index, id>> touched by a migration
  inserted,               \* history: <<id, record>> inserted by a call of its own
  leaves                  \* history: the leaves inserted

rcVars == <<router, shard, anchored, era, max_burst, foreign, inserted, leaves>>

Indices == 0 .. (MaxBatches - 1) \div SHARD_CAPACITY
ShardIndex(id) == (id - 1) \div SHARD_CAPACITY

NoRateLimit == [burst_capacity |-> 0, refill_interval_secs |-> 0]

\* After initialize.
RcInit ==
  /\ \E merchant \in Merchants :
       router = [admin |-> merchant, pending_admin |-> None,
                 batch_count |-> [s \in Streams |-> 0],
                 pruned_up_to |-> [s \in Streams |-> 1],
                 root_buffer |-> [s \in Streams |-> <<>>],
                 shard_ids |-> <<>>,
                 rate_limit |-> NoRateLimit,
                 bucket |-> [m \in Merchants |-> None],
                 min_interval |-> 0,
                 tree |-> empty]
  /\ shard = [k \in Streams \X Indices |-> None]
  /\ anchored = [s \in Streams |-> <<>>]
  /\ era = <<>>
  /\ max_burst = 0
  /\ foreign = {}
  /\ inserted = {}
  /\ leaves = <<>>

-----------------------------------------------------------------------------
(* The token bucket. *)

RateLimitActive ==
  router.rate_limit.burst_capacity > 0 /\ router.rate_limit.refill_interval_secs > 0

refill_bucket(state) ==
  LET elapsed == now - state.last_refill
      config == router.rate_limit
  IN IF elapsed < config.refill_interval_secs THEN state
     ELSE [tokens |-> Min({state.tokens + elapsed \div config.refill_interval_secs,
                           config.burst_capacity}),
           last_refill |-> now]

\* The bucket of the merchant as it stands now; a missing one is full.
CurrentBucket ==
  LET state == router.bucket[router.admin]
  IN refill_bucket(IF state # None THEN state
                   ELSE [tokens |-> router.rate_limit.burst_capacity, last_refill |-> now])

rate_limit_admitted == RateLimitActive => CurrentBucket.tokens > 0

rate_limit_consume ==
  IF RateLimitActive
  THEN [router.bucket EXCEPT ![router.admin] = [CurrentBucket EXCEPT !.tokens = Max({0, @ - 1})]]
  ELSE router.bucket

is_valid_rate_limit(config) ==
  \/ config = NoRateLimit
  \/ /\ config.burst_capacity \in 1 .. MAX_RATE_BURST
     /\ config.refill_interval_secs \in 1 .. MAX_RATE_REFILL_INTERVAL

set_anchor_rate_limit(config) ==
  /\ is_valid_rate_limit(config)
  /\ router' = [router EXCEPT !.rate_limit = config]
  /\ era' = <<>>
  /\ max_burst' = Max({max_burst, config.burst_capacity})
  /\ UNCHANGED <<shard, anchored, foreign, inserted, leaves>>

-----------------------------------------------------------------------------
(* Anchoring. *)

\* None where no shard was deployed for the id.
shard_for_batch(s, id) == IF id = 0 THEN None ELSE shard[<<s, ShardIndex(id)>>]

get_batch(s, id) == IF shard_for_batch(s, id) = None THEN None ELSE shard_for_batch(s, id).batch[id]

check_no_duplicate_root(s, batch_count, root) ==
  batch_count > 0 /\ get_batch(s, batch_count) # None => get_batch(s, batch_count).root # root

get_or_create_shard(s, index) ==
  IF shard[<<s, index>>] # None THEN shard[<<s, index>>]
  ELSE NewShard(index * SHARD_CAPACITY + 1, index * SHARD_CAPACITY + 1 + SHARD_CAPACITY)

push_shard_root(buffer, root) ==
  Append(IF Len(buffer) >= ROOT_BUFFER_SIZE THEN Tail(buffer) ELSE buffer, root)

register_shard_id(ids, s) == IF Contains(ids, s) THEN ids ELSE Append(ids, s)

anchor_batch_internal(s, root, count) ==
  LET id == router.batch_count[s] + 1
      target == get_or_create_shard(s, ShardIndex(id))
  IN /\ id <= MaxBatches
     /\ count <= MAX_BATCH_SIZE
     /\ rate_limit_admitted
     /\ check_no_duplicate_root(s, id - 1, root)
     /\ CanAnchor(target, id)
     /\ shard' = [shard EXCEPT ![<<s, ShardIndex(id)>>] = shard_anchor_batch(target, id, root, count)]
     /\ router' = [router EXCEPT
          !.batch_count[s] = id,
          !.shard_ids = register_shard_id(@, s),
          !.bucket = rate_limit_consume,
          !.root_buffer[s] = push_shard_root(@, root)]
     /\ anchored' = [anchored EXCEPT ![s] =
          Append(@, [root |-> root, count |-> count, anchored_ledger |-> now])]
     /\ era' = IF RateLimitActive THEN Append(era, [by |-> router.admin, at |-> now]) ELSE era
     /\ UNCHANGED <<max_burst, foreign, inserted, leaves>>

anchor_batch(s, root, count) == anchor_batch_internal(s, root, count)

anchor_batch_zk(s, root, count) ==
  <<root, count>> \in ZkProven /\ anchor_batch_internal(s, root, count)

\* Stored and reported; no entry point reads it.
set_min_anchor_interval(interval) ==
  /\ interval <= MAX_ANCHOR_INTERVAL
  /\ router' = [router EXCEPT !.min_interval = interval]
  /\ UNCHANGED <<shard, anchored, era, max_burst, foreign, inserted, leaves>>

transfer_admin(proposed) ==
  /\ router' = [router EXCEPT !.pending_admin = proposed]
  /\ UNCHANGED <<shard, anchored, era, max_burst, foreign, inserted, leaves>>

accept_admin ==
  /\ router.pending_admin # None
  /\ router' = [router EXCEPT !.admin = router.pending_admin, !.pending_admin = None]
  /\ UNCHANGED <<shard, anchored, era, max_burst, foreign, inserted, leaves>>

insert_receipt_leaf ==
  /\ router.tree.count < Min({MAX_LEAVES, MaxLeaves})
  /\ leaves' = Append(leaves, Leaf(Len(leaves) + 1))
  /\ router' = [router EXCEPT !.tree = insert(@, Leaf(Len(leaves) + 1))]
  /\ UNCHANGED <<shard, anchored, era, max_burst, foreign, inserted>>

-----------------------------------------------------------------------------
(* Pruning. *)

\* One turn of the router's loop, over one shard of the stream.  A shard that
\* is not active traps, and the whole call with it.
PruneTurn(s, before_ledger, st, index) ==
  LET target == st.shard[<<s, index>>]
      next == shard_prune_end(target, before_ledger, MAX_PRUNE_BATCHES - st.pruned,
                              router.batch_count[s] + 1)
  IN IF \/ st.done \/ st.trap
        \/ st.cursor > router.batch_count[s] \/ st.pruned >= MAX_PRUNE_BATCHES
        \/ ShardIndex(st.cursor) # index
     THEN st
     ELSE IF ~target.active THEN [st EXCEPT !.trap = TRUE]
     ELSE [cursor |-> next,
           pruned |-> st.pruned + (next - target.pruned_up_to),
           shard |-> [st.shard EXCEPT ![<<s, index>>] = ShardPruned(target, next)],
           done |-> next = st.cursor,
           trap |-> FALSE]

router_prune_batches(s, before_ledger) ==
  LET start == [cursor |-> router.pruned_up_to[s], pruned |-> 0, shard |-> shard,
                done |-> FALSE, trap |-> FALSE]
      end == FoldLeft(LAMBDA st, i : PruneTurn(s, before_ledger, st, i - 1), start,
                      [i \in 1 .. Cardinality(Indices) |-> i])
  IN /\ ~end.trap
     /\ router' = [router EXCEPT !.pruned_up_to[s] = end.cursor]
     /\ shard' = end.shard
     /\ UNCHANGED <<anchored, era, max_burst, foreign, inserted, leaves>>

OnlyShard(k, s) ==
  /\ shard' = [shard EXCEPT ![k] = s]
  /\ UNCHANGED <<router, anchored, era, max_burst, leaves>>

PruneExpired(k, pruner, max_count) ==
  /\ shard[k] # None
  /\ shard[k].active
  /\ OnlyShard(k, prune_expired_receipts(shard[k], pruner, max_count))
  /\ UNCHANGED <<foreign, inserted>>

ClaimBounty(k, claimer) ==
  /\ shard[k] # None
  /\ OnlyShard(k, claim_prune_bounty(shard[k], claimer))
  /\ UNCHANGED <<foreign, inserted>>

-----------------------------------------------------------------------------
(* Consolidation.  The router's authorization is given here without an     *)
(* entry point of the router that would ask for it.                        *)

\* Mutant of consolidate: a failing write of the destination is not noticed.
consolidate_without_check(source, destination, ids) ==
  /\ source # destination
  /\ shard[source] # None /\ shard[destination] # None
  /\ shard[source].active /\ ids # {}
  /\ ids \subseteq LiveIds(shard[source])
  /\ shard' = [shard EXCEPT
       ![source] = Drained(shard[source], ids),
       ![destination] = Received(shard[destination], shard[source], ids)]
  /\ shard'[destination].stats.total_leaves <= MaxTotalLeaves   \* bound
  /\ foreign' = foreign \union {<<k[1], k[2], id>> : k \in {source, destination}, id \in ids}
  /\ UNCHANGED <<router, anchored, era, max_burst, inserted, leaves>>

\* A failing write of the destination reverts the whole call.
consolidate(source, destination, ids) ==
  /\ source # destination
  /\ shard[source] # None /\ shard[destination] # None
  /\ shard[source].active /\ ids # {}
  /\ ids \subseteq LiveIds(shard[source])
  /\ \A id \in ids : CanInsertMigrated(shard[destination], id)
  /\ shard' = [shard EXCEPT
       ![source] = Drained(shard[source], ids),
       ![destination] = Received(shard[destination], shard[source], ids)]
  /\ shard'[destination].stats.total_leaves <= MaxTotalLeaves   \* bound
  /\ foreign' = foreign \union {<<k[1], k[2], id>> : k \in {source, destination}, id \in ids}
  /\ UNCHANGED <<router, anchored, era, max_burst, inserted, leaves>>

\* insert_migrated_batch is an entry point of its own too.  It asks for the
\* authorization of the source its caller names, which need not be a shard, and
\* takes the record as it is given.
InsertMigrated(k, id, record) ==
  /\ shard[k] # None
  /\ CanInsertMigrated(shard[k], id)
  /\ OnlyShard(k, insert_migrated_batch(shard[k], id, record))
  /\ shard'[k].stats.total_leaves <= MaxTotalLeaves   \* bound
  /\ foreign' = foreign \union {<<k[1], k[2], id>>}
  /\ inserted' = inserted \union {<<id, record>>}

decommission(k) ==
  /\ shard[k] # None
  /\ shard[k].active
  /\ ~has_live_records(shard[k])
  /\ OnlyShard(k, [shard[k] EXCEPT !.active = FALSE])
  /\ UNCHANGED <<foreign, inserted>>

-----------------------------------------------------------------------------
ShardKeys == Streams \X Indices

AnchorStep ==
  \E s \in Streams, root \in Roots, count \in Counts :
    anchor_batch(s, root, count) \/ anchor_batch_zk(s, root, count)

LimitStep ==
  \/ \E config \in RateLimits : set_anchor_rate_limit(config)
  \/ \E m \in Merchants : transfer_admin(m)
  \/ accept_admin

IntervalStep == \E interval \in Intervals : set_min_anchor_interval(interval)

PruneStep ==
  \/ \E s \in Streams, before_ledger \in PruneBefore : router_prune_batches(s, before_ledger)
  \/ \E k \in ShardKeys, p \in Pruners :
       ClaimBounty(k, p) \/ \E max_count \in MaxCounts : PruneExpired(k, p, max_count)

ConsolidationStep ==
  \/ \E source, destination \in ShardKeys : \E ids \in SUBSET BatchIds :
       consolidate(source, destination, ids)
  \/ \E k \in ShardKeys : decommission(k)

InsertionStep ==
  \E k \in ShardKeys, id \in BatchIds, record \in MigratedRecords :
    InsertMigrated(k, id, record)

RcNext ==
  \/ AnchorStep \/ LimitStep \/ IntervalStep
  \/ PruneStep \/ ConsolidationStep \/ InsertionStep \/ insert_receipt_leaf

RcSpec ==
  RcInit /\ ClockInit /\
  [][(RcNext /\ UNCHANGED now) \/ (NextLedger /\ UNCHANGED rcVars)]_<<rcVars, now>>

-----------------------------------------------------------------------------
(* Properties. *)

Deployed == {k \in ShardKeys : shard[k] # None}
Touched(k) == \E id \in BatchIds : <<k[1], k[2], id>> \in foreign

\* Router and shards have their types.
RcTypeOK ==
  /\ router.admin \in Merchants /\ router.pending_admin \in Merchants \union {None}
  /\ router.batch_count \in [Streams -> 0 .. MaxBatches]
  /\ router.pruned_up_to \in [Streams -> 1 .. MaxBatches + 1]
  /\ \A m \in Merchants : router.bucket[m] # None => router.bucket[m].tokens \in 0 .. MAX_RATE_BURST
  /\ \A k \in Deployed :
       /\ shard[k].active \in BOOLEAN
       /\ shard[k].funds \in 0 .. ShardFunds
       /\ shard[k].pruned_up_to \in shard[k].start .. shard[k].end

\* A shard's counters are those of its records, whatever mixture of anchoring,
\* the two ways of pruning and consolidation led here, records overwritten
\* and holes included (record_anchor, record_removals, record_migration).
StatsExact ==
  \A k \in Deployed :
    LET s == shard[k]
    IN /\ s.stats.live_batches = Cardinality(LiveIds(s))
       /\ s.stats.live_leaves = LeavesOf(s, LiveIds(s))
       /\ \A id \in LiveIds(s) : id < s.stats.high_water

\* For a shard no migration has touched, the health snapshot is right: it is
\* consistent, and the binary search of count_retained finds exactly the
\* batches inside the retention window.
DiagnosticsExact ==
  \A k \in Deployed : ~Touched(k) =>
    LET d == get_shard_diagnostics(shard[k])
    IN /\ d.consistent
       /\ d.active_dispute_count = Cardinality({id \in BatchIds : Retained(shard[k], id)})

\* Every batch of a stream is read back through the router as it was anchored,
\* unless its id is behind its shard's cursor, or a consolidation or a direct
\* insertion touched it.
AnchoredReadsBack ==
  \A s \in Streams : \A id \in DOMAIN anchored[s] :
    LET k == <<s, ShardIndex(id)>>
    IN \/ get_batch(s, id) = anchored[s][id]
       \/ id < shard[k].pruned_up_to
       \/ <<k[1], k[2], id>> \in foreign

\* A record that a shard holds was anchored under its id, in the shard's own
\* stream unless a migration touched the id, or it was given to
\* insert_migrated_batch by a direct call: consolidation moves records and never
\* alters, renumbers or revives one.
RecordsHaveASource ==
  \A k \in Deployed : \A id \in LiveIds(shard[k]) :
    \/ id \in DOMAIN anchored[k[1]] /\ shard[k].batch[id] = anchored[k[1]][id]
    \/ /\ <<k[1], k[2], id>> \in foreign
       /\ \/ <<id, shard[k].batch[id]>> \in inserted
          \/ \E s \in Streams : /\ id \in DOMAIN anchored[s]
                               /\ shard[k].batch[id] = anchored[s][id]

\* Without migrations no cursor of the router is ahead of what was anchored, and
\* what lies behind a cursor of the router or of a shard is gone: a batch is
\* never anchored behind a cursor, where no pruning would ever reach it (the
\* high-water bound of prune_batches).
PrunedPrefixGone ==
  /\ \A k \in Deployed : \A id \in LiveIds(shard[k]) :
       id < shard[k].pruned_up_to => <<k[1], k[2], id>> \in foreign
  /\ \A s \in Streams : (\A i \in Indices : ~Touched(<<s, i>>)) =>
       /\ router.pruned_up_to[s] <= router.batch_count[s] + 1
       /\ \A id \in 1 .. router.pruned_up_to[s] - 1 : get_batch(s, id) = None

\* Two consecutive batches of a stream have the same root only if the first was
\* pruned or moved before the second was anchored, across the boundary of two
\* shards too (check_no_duplicate_root).
NoDuplicateInSequence ==
  \A s \in Streams : \A id \in DOMAIN anchored[s] :
    id > 1 /\ anchored[s][id].root = anchored[s][id - 1].root =>
      LET k == <<s, ShardIndex(id - 1)>>
      IN id - 1 < shard[k].pruned_up_to \/ <<k[1], k[2], id - 1>> \in foreign

\* Within the life of one rate limit, a merchant anchors in any span of time at
\* most the burst plus one for every full refill interval of the span; the
\* burst is the largest ever configured, because a lowered burst cuts down a
\* fuller bucket only at its next refill (refill_bucket).
RateBound ==
  RateLimitActive =>
    \A m \in Merchants :
      LET mine == SelectSeq(era, LAMBDA e : e.by = m)
      IN \A i \in DOMAIN mine : \A j \in i .. Len(mine) :
           j - i + 1 <= max_burst + (mine[j].at - mine[i].at) \div router.rate_limit.refill_interval_secs

\* A pruner has been paid and is owed no more than the bounty of the batches
\* deleted in the pruner's name (claim_prune_bounty).
BountiesEarned ==
  \A k \in Deployed : \A p \in Pruners :
    shard[k].paid[p] + shard[k].bounty[p] <= PRUNE_BOUNTY_PER_BATCH * shard[k].evicted[p]

\* The root kept from the frontier alone is the root of the batch tree over all
\* leaves inserted, and the batch proof of every leaf verifies against it.
IncrementalRootIsBatchRoot ==
  leaves # <<>> =>
    /\ router.tree.root = BatchRoot(leaves)
    /\ \A i \in DOMAIN leaves : verify(router.tree.root, leaves[i], BatchProof(leaves, i))

\* What the shards, the rate limiter and the bounty ledger count is what
\* happened.
ReceiptsCounted == RcTypeOK /\ StatsExact /\ DiagnosticsExact /\ RateBound /\ BountiesEarned

\* What the router reads for an id that neither a consolidation nor a direct
\* insertion touched is what was anchored under it, or nothing once it was
\* pruned; a touched id holds a record anchored in some stream under that id, or
\* one given to insert_migrated_batch, which takes any.
ReceiptsReadBack ==
  /\ AnchoredReadsBack /\ RecordsHaveASource
  /\ PrunedPrefixGone /\ NoDuplicateInSequence
  /\ IncrementalRootIsBatchRoot
=============================================================================
