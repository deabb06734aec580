----------------------------- MODULE MCRecords -----------------------------
(***************************************************************************)
(* Instances for TLC of the contracts that keep records: the receipt       *)
(* anchor with its shards, the vault's custody of collectibles and         *)
(* commitments, the price feeds, the vault factory and the concealed       *)
(* escrows.  A behaviour exercises the group chosen at its start; groups   *)
(* of different contracts share no storage.                                *)
(***************************************************************************)
EXTENDS ReceiptAnchor, VaultCustody, PriceOracle, VaultFactory, ConcealedEscrow

VARIABLE focus

Limit(b, r) == [burst_capacity |-> b, refill_interval_secs |-> r]
ReceiptLimits == {Limit(0, 0), Limit(1, 2), Limit(2, 1), Limit(2, 0), Limit(3, 1)}
ReceiptMigrations == {[root |-> "r3", count |-> 3, anchored_ledger |-> 0]}
ReceiptZk == {<<"r2", 2>>}

Round(id, a, at) == [round_id |-> id, answer |-> a, updated_at |-> at, answered_in_round |-> id]
FeedRounds ==
  {Round(0, 3, 1), Round(1, 5, 1), Round(2, 1, 3), Round(2, 5, 3), Round(2, 5, 0),
   [Round(2, 5, 3) EXCEPT !.answered_in_round = 1]}
FeedPolicies ==
  [threshold : {3, 4}, max_staleness : {0, 1}, below : BOOLEAN]

EscrowFloors == {-1, 1, 2}
EscrowProofs ==
  [sound : BOOLEAN, inputs : {0, 1, 3}, amount : {1, 2}, opening : Commitments]

First == CHOOSE s \in Streams : TRUE

RecordsInit ==
  /\ ClockInit
  /\ RcInit /\ CustodyInit /\ OracleInit /\ FactoryInit /\ ConcealedInit
  /\ focus \in {"limits", "prune", "consolidate", "tree", "nft", "commit", "feeds",
                "factory", "concealed", "fallback"}
  /\ focus # "limits" => router.admin = "m1"
  /\ focus # "nft" => custodian.admin = "a1" /\ nftOwner = [n \in Nfts |-> "a1"]

\* Rate limits: one stream.  Pruning: one stream over two shards.
\* Consolidation: two streams, batches of one shard each, one pruner, and one
\* record inserted directly.
ReceiptSteps ==
  \/ /\ focus = "limits"
     /\ \/ LimitStep
        \/ \E root \in Roots : anchor_batch(First, root, 1)
  \/ /\ focus = "prune"
     /\ \/ \E root \in Roots : anchor_batch(First, root, 1)
        \/ \E root \in Roots, count \in Counts : anchor_batch_zk(First, root, count)
        \/ PruneStep
  \/ /\ focus = "consolidate"
     /\ \/ \E s \in Streams :
             /\ router.batch_count[s] < SHARD_CAPACITY
             /\ anchor_batch(s, IF router.batch_count[s] = 0 THEN "r1" ELSE "r2", 2)
        \/ ConsolidationStep
        \/ inserted = {} /\ InsertionStep
        \/ \E s \in Streams, before_ledger \in PruneBefore : router_prune_batches(s, before_ledger)
        \/ \E k \in ShardKeys, max_count \in MaxCounts : PruneExpired(k, "p1", max_count)
  \/ focus = "tree" /\ (insert_receipt_leaf \/ IntervalStep)

CustodySteps ==
  \/ focus = "nft" /\ (HandoverStep \/ NftStep)
  \/ focus = "commit" /\ (HandoverStep \/ CommitStep)

ContractStep ==
  /\ \/ /\ ReceiptSteps
        /\ UNCHANGED <<custodyVars, oracleVars, factoryVars, concealedVars, fallbackVars>>
     \/ /\ CustodySteps
        /\ UNCHANGED <<rcVars, oracleVars, factoryVars, concealedVars, fallbackVars>>
     \/ /\ focus = "feeds" /\ OracleStep
        /\ UNCHANGED <<rcVars, custodyVars, factoryVars, concealedVars, fallbackVars>>
     \/ /\ focus = "factory" /\ FactoryStep
        /\ UNCHANGED <<rcVars, custodyVars, oracleVars, concealedVars, fallbackVars>>
     \/ /\ focus = "concealed" /\ ConcealedStep
        /\ UNCHANGED <<rcVars, custodyVars, oracleVars, factoryVars, fallbackVars>>
     \/ /\ focus = "fallback" /\ FallbackStep
        /\ UNCHANGED <<rcVars, custodyVars, oracleVars, factoryVars, concealedVars>>
  /\ UNCHANGED now

LedgerStep ==
  /\ focus \notin {"nft", "factory", "concealed"}
  /\ focus = "consolidate" => now < RETENTION_LEDGERS
  /\ NextLedger
  /\ UNCHANGED <<rcVars, custodyVars, oracleVars, factoryVars, concealedVars, fallbackVars>>

RecordsNext == (ContractStep \/ LedgerStep) /\ UNCHANGED focus

RecordsSpec ==
  RecordsInit /\ [][RecordsNext]_<<rcVars, custodyVars, oracleVars, factoryVars, concealedVars,
                                   fallbackVars, now, focus>>
=============================================================================
