---------------------------- MODULE ReceiptShard ----------------------------
(***************************************************************************)
(* A storage shard of anchored batches (receipt-shard): the batch records  *)
(* of one range of ids, the cursor of pruned ids, the counters reported to *)
(* indexers, and the bounties of those who prune.  A shard is a record;    *)
(* every operation gives the shard after it.  ReceiptAnchor composes the   *)
(* shards with their router.                                               *)
(***************************************************************************)
EXTENDS LedgerClock, SequencesExt

CONSTANTS
  MaxBatches,             \* bound on the batch ids of a stream
  Pruners,
  RETENTION_LEDGERS,
  PRUNE_BOUNTY_PER_BATCH,
  MAX_PROOF_LEN,
  ShardFunds              \* external: tokens a shard is given for bounties

BatchIds == 1 .. MaxBatches

ShardStats == [live_batches |-> 0, live_leaves |-> 0, total_leaves |-> 0,
               high_water |-> 0, max_batch_count |-> 0]

\* evicted and paid are history: deletions credited to a pruner, and payments.
NewShard(start, end) ==
  [start |-> start, end |-> end, batch |-> [id \in BatchIds |-> None],
   pruned_up_to |-> start, active |-> TRUE, stats |-> ShardStats,
   bounty |-> [p \in Pruners |-> 0], funds |-> ShardFunds,
   evicted |-> [p \in Pruners |-> 0], paid |-> [p \in Pruners |-> 0]]

-----------------------------------------------------------------------------
(* Counters. *)

record_anchor(stats, id, previous, count) ==
  [live_batches |-> IF previous = None THEN stats.live_batches + 1 ELSE stats.live_batches,
   live_leaves |-> (IF previous = None THEN stats.live_leaves
                    ELSE Max({0, stats.live_leaves - previous.count})) + count,
   total_leaves |-> stats.total_leaves + count,
   high_water |-> Max({stats.high_water, id + 1}),
   max_batch_count |-> Max({stats.max_batch_count, count})]

record_removals(stats, count, leaves) ==
  [stats EXCEPT !.live_batches = Max({0, @ - count}), !.live_leaves = Max({0, @ - leaves})]

record_migration(stats, id, count) ==
  [stats EXCEPT !.live_batches = @ + 1, !.live_leaves = @ + count, !.total_leaves = @ + count,
                !.high_water = Max({@, id + 1}), !.max_batch_count = Max({@, count})]

LiveIds(s) == {id \in BatchIds : s.batch[id] # None}
LeavesOf(s, ids) == MapThenSumSet(LAMBDA id : s.batch[id].count, ids)

\* The least depth of a tree with count leaves.
merkle_depth(count) ==
  CHOOSE d \in 0 .. 32 : 2 ^ d >= count /\ \A k \in 0 .. d - 1 : 2 ^ k < count

Retained(s, id) == s.batch[id] # None /\ now - s.batch[id].anchored_ledger < RETENTION_LEDGERS

\* The binary search for the first retained batch of lo .. hi - 1.
count_retained(s, cursor, high_water) ==
  LET first[w \in (1 .. MaxBatches + 1) \X (1 .. MaxBatches + 1)] ==
        LET lo == w[1]
            hi == w[2]
            mid == lo + (hi - lo) \div 2
        IN IF lo >= hi THEN lo
           ELSE IF Retained(s, mid) THEN first[<<lo, mid>>] ELSE first[<<mid + 1, hi>>]
  IN high_water - first[<<cursor, high_water>>]

get_shard_diagnostics(s) ==
  LET high_water == Max({s.stats.high_water, s.start})
      cursor == s.pruned_up_to
  IN [high_water_batch_id |-> high_water,
      active_dispute_count |->
        IF cursor < high_water
        THEN Min({count_retained(s, cursor, high_water), s.stats.live_batches}) ELSE 0,
      consistent |->
        /\ s.start <= cursor /\ cursor <= s.end
        /\ s.start <= high_water /\ high_water <= s.end
        /\ s.stats.live_batches <= Max({0, high_water - cursor})
        /\ s.stats.live_leaves <= s.stats.total_leaves
        /\ merkle_depth(s.stats.max_batch_count) <= MAX_PROOF_LEN]

-----------------------------------------------------------------------------
(* Anchoring, pruning and bounties.  A shard that is not active refuses    *)
(* every call that changes it.                                             *)

CanAnchor(s, id) == s.active /\ id >= s.start /\ id < s.end

shard_anchor_batch(s, id, root, count) ==
  [s EXCEPT
     !.stats = record_anchor(@, id, s.batch[id], count),
     !.batch[id] = [root |-> root, count |-> count, anchored_ledger |-> now]]

\* The shard after ids cursor .. next - 1 were deleted or found absent.
ShardPruned(s, next) ==
  LET removed == {id \in s.pruned_up_to .. next - 1 : s.batch[id] # None}
  IN [s EXCEPT
        !.batch = [id \in BatchIds |-> IF id \in removed THEN None ELSE @[id]],
        !.stats = record_removals(@, Cardinality(removed), LeavesOf(s, removed)),
        !.pruned_up_to = next]

\* Where a scan from the cursor stops: at the ceiling, after max ids, or at the
\* first id that may not be passed.
ScanEnd(s, ceiling, max, passable) ==
  Max({next \in s.pruned_up_to .. Min({ceiling, s.pruned_up_to + max}) :
         \A id \in s.pruned_up_to .. next - 1 : id \in passable} \union {s.pruned_up_to})

\* Mutant of shard_prune_end: the scan does not stop at the high water.
shard_prune_end_unbounded(s, before_ledger, max_batches, high_water_batch_id) ==
  ScanEnd(s, Min({MaxBatches + 1, s.end}), max_batches,
          {id \in BatchIds : s.batch[id] = None \/ s.batch[id].anchored_ledger < before_ledger})

\* The router's pruning: absent ids are passed over.
shard_prune_end(s, before_ledger, max_batches, high_water_batch_id) ==
  ScanEnd(s, Min({high_water_batch_id, s.end}), max_batches,
          {id \in BatchIds : s.batch[id] = None \/ s.batch[id].anchored_ledger < before_ledger})

\* Anybody's pruning by age: an absent id ends the scan.
expired_prune_end(s, max_count) ==
  ScanEnd(s, Min({MaxBatches + 1, s.end}), max_count,
          {id \in BatchIds : s.batch[id] # None
                              /\ now - s.batch[id].anchored_ledger >= RETENTION_LEDGERS})

prune_expired_receipts(s, pruner, max_count) ==
  LET next == expired_prune_end(s, max_count)
      pruned == next - s.pruned_up_to
  IN [ShardPruned(s, next) EXCEPT
        !.bounty[pruner] = @ + PRUNE_BOUNTY_PER_BATCH * pruned,
        !.evicted[pruner] = @ + pruned]

\* What the balance does not cover is forfeited.
claim_prune_bounty(s, claimer) ==
  LET payout == Min({s.bounty[claimer], s.funds})
  IN [s EXCEPT !.bounty[claimer] = 0, !.funds = @ - payout, !.paid[claimer] = @ + payout]

-----------------------------------------------------------------------------
(* Consolidation. *)

has_live_records(s) == \E id \in s.start .. Min({s.end - 1, MaxBatches}) : s.batch[id] # None

CanInsertMigrated(s, id) ==
  s.active /\ id >= s.start /\ id < s.end /\ s.batch[id] = None

insert_migrated_batch(s, id, record) ==
  [s EXCEPT !.batch[id] = record, !.stats = record_migration(@, id, record.count)]

\* The source without the moved ids; drained, it is taken out of service.
Drained(s, ids) ==
  LET rest == [s EXCEPT
        !.batch = [id \in BatchIds |-> IF id \in ids THEN None ELSE @[id]],
        !.stats = record_removals(@, Cardinality(ids), LeavesOf(s, ids))]
  IN [rest EXCEPT !.active = has_live_records(rest)]

Received(s, source, ids) ==
  FoldSet(LAMBDA id, d : insert_migrated_batch(d, id, source.batch[id]), s, ids)
=============================================================================
