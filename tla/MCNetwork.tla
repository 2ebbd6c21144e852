----------------------------- MODULE MCNetwork -----------------------------
(***************************************************************************)
(* A small instance of Network: two nodes that list each other, as those   *)
(* of scripts/launch_cluster.sh do.  To reach a long way with few blocks   *)
(* and crashes, a run begins in one of two states that Network's Init      *)
(* leads to; each of its behaviours is the end of one of Network's.        *)
(***************************************************************************)
EXTENDS Network

CONSTANTS n1, n2, t1

Pairs == [n \in Process |-> IF n = n1 THEN <<n2>> ELSE <<n1>>]

Quiet ==
  /\ todo = [n \in Process |-> <<>>] /\ pool = [n \in Process |-> {}]
  /\ cache = [n \in Process |-> [m \in Process |-> {}]]
  /\ fetched = [n \in Process |-> [m \in Process |-> {}]]
  /\ wire = {} /\ mined = 1

\* A node mined alone and crashed: nobody knows its block, all starts over.
Forgotten ==
  /\ phase = [n \in Process |-> "down"] /\ conn = [n \in Process |-> {}]
  /\ chain = [n \in Process |-> <<>>] /\ crashes = 1

\* n1 connected to n2, n2 crashed and connected to n1, and n1 has mined a
\* block that does not apply; the POST with it is lost.
Broken ==
  /\ phase = [n \in Process |-> "up"] /\ conn = [n \in Process |-> Process \ {n}]
  /\ chain = [n \in Process |->
       IF n = n1 THEN <<[number |-> 1, txns |-> {t1}, flaw |-> "state"]>> ELSE <<>>]
  /\ crashes = 1

MCInit == Quiet /\ (Forgotten \/ Broken)

MCSpec == MCInit /\ [][Next]_vars /\ Fairness
=============================================================================
