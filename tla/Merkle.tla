------------------------------- MODULE Merkle -------------------------------
(***************************************************************************)
(* The Merkle tree of core/MerkleTree.h.  SHA-256 is collision-free and is *)
(* modelled by what it is taken of: a leaf is <<transaction>>, an inner    *)
(* node the pair of its children.  (No transaction's JSON text is a pair   *)
(* of digests, so a leaf is never an inner node.)                          *)
(***************************************************************************)
EXTENDS Integers, SequencesExt

Leaf(x) == <<x>>

Pair(left, right) == <<left, right>>

\* Mutant: the last node of an odd level is left out.
DroppingParents(level) ==
  [k \in 1..(Len(level) \div 2) |-> Pair(level[2 * k - 1], level[2 * k])]

\* One round of buildTree: neighbours are hashed in pairs, the last node of
\* an odd level with itself.
Parents(level) ==
  [k \in 1..((Len(level) + 1) \div 2) |->
     Pair(level[2 * k - 1], level[IF 2 * k <= Len(level) THEN 2 * k ELSE 2 * k - 1])]

\* One level up; a level of one node is the root.
Above(level) == IF Len(level) = 1 THEN level ELSE Parents(level)

\* The levels of the tree, the leaves at 0, more than enough of them: the
\* last level repeats.
Levels(leaves) ==
  LET level[n \in 0..Len(leaves)] ==
        IF n = 0 THEN [i \in DOMAIN leaves |-> Leaf(leaves[i])] ELSE Above(level[n - 1])
  IN  level

\* How many times the leaves are paired; levels.size() is one more.
Depth(leaves) ==
  CHOOSE d \in 0..Len(leaves) :
    /\ Len(Levels(leaves)[d]) = 1
    /\ \A e \in 0..(d - 1) : Len(Levels(leaves)[e]) > 1

\* getRoot: hash("") for the empty list.
MerkleRoot(leaves) ==
  IF leaves = <<>> THEN <<>> ELSE Levels(leaves)[Depth(leaves)][1]

\* The sibling of node i (counted from 0) of a level; the last node of an
\* odd level is its own.
Sibling(level, i) ==
  IF i % 2 = 1 THEN [hash |-> level[i], isLeft |-> TRUE]
  ELSE [hash |-> level[IF i + 1 < Len(level) THEN i + 2 ELSE i + 1], isLeft |-> FALSE]

\* Where the ancestors of node i are on their levels, counted from 0.
Ancestors(i, height) ==
  LET idx[n \in 0..height] == IF n = 0 THEN i ELSE idx[n - 1] \div 2
  IN  idx

\* The index of the first leaf of this hash.
FirstLeaf(leaves, x) ==
  CHOOSE i \in DOMAIN leaves : leaves[i] = x /\ \A j \in 1..(i - 1) : leaves[j] # x

\* getProof: from that leaf up to the root.
GetProof(leaves, x) ==
  IF x \notin Range(leaves) THEN <<>>
  ELSE LET idx == Ancestors(FirstLeaf(leaves, x) - 1, Depth(leaves))
       IN  [n \in 1..Depth(leaves) |-> Sibling(Levels(leaves)[n - 1], idx[n - 1])]

\* Mutant: the side of a proof node is ignored.
OneSidedClimb(x, proof) ==
  FoldLeft(LAMBDA node, p : Pair(node, p.hash), Leaf(x), proof)

\* The hash that a proof leads to from a leaf.
Climb(x, proof) ==
  FoldLeft(LAMBDA node, p : IF p.isLeft THEN Pair(p.hash, node) ELSE Pair(node, p.hash),
           Leaf(x), proof)

\* Mutant: an empty proof is accepted, as if the leaf were the root.
LenientVerifyProof(root, x, proof) == proof = <<>> \/ Climb(x, proof) = root

VerifyProof(root, x, proof) == Climb(x, proof) = root
=============================================================================
