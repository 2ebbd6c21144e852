------------------------------- MODULE Bodies -------------------------------
(***************************************************************************)
(* Every body of up to MaxLeaves transactions of Leaves, built one at a    *)
(* time, with the tree of each, its proofs, and every short proof that can *)
(* be put together from the tree's own hashes.                             *)
(***************************************************************************)
EXTENDS Merkle

CONSTANTS
  Leaves,      \* transactions
  Stranger,    \* a transaction of no body
  MaxLeaves,   \* bound on the length of a body, for TLC
  MaxProof     \* bound on the length of the proofs put together, for TLC

ASSUME BodyAssumption == MaxLeaves \in Nat /\ MaxProof \in Nat

VARIABLE body

Empty == body = <<>>

Grow == Len(body) < MaxLeaves /\ \E x \in Leaves : body' = Append(body, x)

BodySpec == Empty /\ [][Grow]_body

Nodes ==
  IF body = <<>> THEN {}
  ELSE UNION {Range(Levels(body)[n]) : n \in 0..Depth(body)}

Proofs == UNION {[1..n -> [hash : Nodes, isLeft : BOOLEAN]] : n \in 0..MaxProof}

\* Every transaction of a body has a proof that verifies, at every position
\* of every tree shape, and the proof is as long as the tree is high.
ProofsVerify ==
  \A x \in Range(body) :
    LET proof == GetProof(body, x)
    IN  VerifyProof(MerkleRoot(body), x, proof) /\ Len(proof) = Depth(body)

\* No proof made of the tree's hashes verifies for a transaction that is not
\* in the body, whatever its length and order.
VerifiedIsMember ==
  LET root == MerkleRoot(body)
  IN  \A x \in (Leaves \cup {Stranger}) \ Range(body) : \A proof \in Proofs :
        ~VerifyProof(root, x, proof)

\* The root determines which transactions a body has, and all of the body
\* but repetitions at its end: of two bodies with one root the shorter begins
\* the longer.
RootBindsMembers ==
  LET root == MerkleRoot(body)
  IN  \A n \in 0..MaxLeaves : \A other \in [1..n -> Leaves] :
        MerkleRoot(other) = root =>
          /\ Range(other) = Range(body)
          /\ IsPrefix(other, body) \/ IsPrefix(body, other)
=============================================================================
