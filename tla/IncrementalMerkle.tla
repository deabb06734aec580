------------------------- MODULE IncrementalMerkle -------------------------
(***************************************************************************)
(* The append-only Merkle tree of receipt leaves                           *)
(* (receipt-anchor/src/incremental_merkle.rs) and the proofs that verify   *)
(* against a root (merkle.rs).  SHA-256 of a sorted pair is abstracted to  *)
(* the unordered pair of its arguments: equal exactly when they are.       *)
(***************************************************************************)
EXTENDS Integers, SequencesExt

CONSTANT MAX_DEPTH

MAX_LEAVES == 2 ^ MAX_DEPTH

Leaf(i) == <<"leaf", i>>
hash_pair(a, b) == <<"node", {a, b}>>

\* (n >> level) & 1
BitSet(n, level) == (n \div 2 ^ level) % 2 = 1

\* Number of nodes on a level of a tree of count leaves.
NodesAt(count, level) == (count - 1) \div 2 ^ level + 1

Levels(n) == [i \in 1 .. n |-> i - 1]

empty == [count |-> 0, root |-> Leaf(0), frontier |-> <<>>]

slot(frontier, level) == frontier[level + 1]

set_slot(frontier, level, node) ==
  IF Len(frontier) = level THEN Append(frontier, node) ELSE [frontier EXCEPT ![level + 1] = node]

\* One level up: partial is the node right of the last complete subtree, an
\* empty sequence where there is none.
LiftPartial(frontier, count, partial, level) ==
  CASE partial # <<>> /\ BitSet(count, level) -> hash_pair(slot(frontier, level), partial)
    [] partial # <<>> /\ ~BitSet(count, level) -> hash_pair(partial, partial)
    [] partial = <<>> /\ BitSet(count, level) ->
         hash_pair(slot(frontier, level), slot(frontier, level))
    [] OTHER -> <<>>

compute_root(frontier, count) ==
  LET top == CHOOSE l \in 0 .. MAX_DEPTH :
               NodesAt(count, l) = 1 /\ \A k \in 0 .. l - 1 : NodesAt(count, k) > 1
      partial == FoldLeft(LAMBDA p, level : LiftPartial(frontier, count, p, level),
                          <<>>, Levels(top))
  IN IF partial # <<>> THEN partial ELSE slot(frontier, top)

\* The tree after a leaf: the leaf is carried up through the complete
\* subtrees it closes.
insert(tree, leaf) ==
  LET top == CHOOSE l \in 0 .. MAX_DEPTH :
               ~BitSet(tree.count, l) /\ \A k \in 0 .. l - 1 : BitSet(tree.count, k)
      node == FoldLeft(LAMBDA n, level : hash_pair(slot(tree.frontier, level), n),
                       leaf, Levels(top))
      frontier == set_slot(tree.frontier, top, node)
  IN [count |-> tree.count + 1,
      root |-> compute_root(frontier, tree.count + 1),
      frontier |-> frontier]

fold_proof(leaf, proof) == FoldLeft(LAMBDA node, sibling : hash_pair(node, sibling), leaf, proof)

verify(root, leaf, proof) == fold_proof(leaf, proof) = root

-----------------------------------------------------------------------------
(* The reference: the tree of a whole batch, level by level; the last of   *)
(* an odd number of nodes is paired with itself.                           *)

PartnerOf(nodes, i) ==
  IF i % 2 = 0 THEN nodes[i - 1] ELSE IF i < Len(nodes) THEN nodes[i + 1] ELSE nodes[i]

LevelAbove(nodes) ==
  [i \in 1 .. (Len(nodes) + 1) \div 2 |-> hash_pair(nodes[2 * i - 1], PartnerOf(nodes, 2 * i - 1))]

BatchRoot(leaves) ==
  FoldLeft(LAMBDA nodes, level : IF Len(nodes) = 1 THEN nodes ELSE LevelAbove(nodes),
           leaves, Levels(MAX_DEPTH))[1]

\* Siblings of leaf i from the leaves to the root.
BatchProof(leaves, i) ==
  FoldLeft(LAMBDA s, level :
             IF Len(s.nodes) = 1 THEN s
             ELSE [nodes |-> LevelAbove(s.nodes),
                   at |-> (s.at + 1) \div 2,
                   proof |-> Append(s.proof, PartnerOf(s.nodes, s.at))],
           [nodes |-> leaves, at |-> i, proof |-> <<>>], Levels(MAX_DEPTH)).proof
=============================================================================
