---------------------------- MODULE LightClient ----------------------------
(***************************************************************************)
(* The light client (scripts/citizen_client.cpp) against one node: it      *)
(* fetches the headers, then a proof for one transaction id, and compares  *)
(* the two.  The node answers each request from a snapshot it takes under  *)
(* chainMutex; between the two requests its chain may grow or be replaced. *)
(*                                                                         *)
(* The client hashes the text it received, not the one that the node       *)
(* hashed: on the way a transaction is read and written again by crow,     *)
(* whose numbers have six decimals.  Blocks from peers were written the    *)
(* same way (Block::toJson, Block::fromJson), so PeerBlock and PeerChain   *)
(* hold transactions with such amounts only; the bodies that the node      *)
(* mines itself come from /transact, which keeps every digit.              *)
(***************************************************************************)
EXTENDS Blockchain

CONSTANTS
  Wanted,   \* identifiers a client may ask for, unknown ones included
  Grain     \* 0.000001, the last decimal that crow prints, in the unit of amounts

VARIABLES
  txId,      \* the argument --txId
  at,        \* the next step: "headers", "proof", "check" or "done"
  headers,   \* the answer to /headers
  payload,   \* the answer to /proof
  verdict,   \* the exit status, by name
  seen,      \* history: the chain that answered /headers (not in the code)
  found      \* history: the transaction /proof found, or {} (not in the code)

client == <<txId, at, headers, payload, verdict, seen, found>>

vars == <<chain, client>>

ASSUME WantedAssumption == Wanted \subseteq TxnId \ {NoId} /\ Grain \in Nat \ {0}

-----------------------------------------------------------------------------
(* The node's answers. *)

\* Block::headerToJson, as far as the client reads it.
HeaderOf(b) == [hash |-> b.hash, root |-> b.root]

\* Blockchain::findTransactionInChain: the blocks with a transaction of this
\* id, the first of them, and the first such transaction in it.
Holding(id) == {i \in DOMAIN chain : \E t \in Range(chain[i].txns) : t.id = id}

FoundIn(id) == chain[CHOOSE i \in Holding(id) : \A j \in Holding(id) : i <= j]

FoundTxn(id) ==
  LET body == FoundIn(id).txns
  IN  body[SelectInSeq(body, LAMBDA t : t.id = id)]

\* An amount as crow prints it: to the nearest of its last decimals.
SixDecimals(n) == Grain * ((2 * n + Grain) \div (2 * Grain))

\* What is left of a transaction when its text has been through crow: a
\* signature over another amount no longer verifies.
Wire(t) ==
  IF t.kind = "ASSET" \/ SixDecimals(t.amount) = t.amount THEN t
  ELSE [t EXCEPT !.amount = SixDecimals(@), !.signer = NoAddr]

\* Mutant: the proof is taken from the newest block's tree.
NewestProofAnswer(id) ==
  [txn |-> Wire(FoundTxn(id)), root |-> FoundIn(id).root, block |-> FoundIn(id).hash,
   proof |-> GetProof(Latest.txns, FoundTxn(id))]

\* The /proof route: the tree is built again from the block's body, and the
\* leaf is the hash of the text before crow read it.
ProofAnswer(id) ==
  [txn |-> Wire(FoundTxn(id)), root |-> FoundIn(id).root, block |-> FoundIn(id).hash,
   proof |-> GetProof(FoundIn(id).txns, FoundTxn(id))]

-----------------------------------------------------------------------------
(* The client. *)

Finish(v) == at' = "done" /\ verdict' = v

FetchHeaders ==
  /\ at = "headers" /\ at' = "proof"
  /\ headers' = [i \in DOMAIN chain |-> HeaderOf(chain[i])]
  /\ seen' = chain
  /\ UNCHANGED <<chain, txId, payload, verdict, found>>

FetchProof ==
  /\ at = "proof" /\ Holding(txId) # {}
  /\ at' = "check" /\ payload' = ProofAnswer(txId) /\ found' = FoundTxn(txId)
  /\ UNCHANGED <<chain, txId, headers, verdict, seen>>

\* A request that times out, and the answer 404: the exception ends the run.
FailRequest ==
  /\ at \in {"headers", "proof"}
  /\ Finish("error")
  /\ UNCHANGED <<chain, txId, headers, payload, seen, found>>

\* Mutant: only the newest header is compared.
NewestMatches(h) == headers[Len(headers)] = h

\* Mutant: the headers are not compared.
AnyMatches(h) == TRUE

Matches(h) == h \in Range(headers)

\* The two comparisons of main, the proof first.
Check ==
  /\ at = "check"
  /\ Finish(IF ~VerifyProof(payload.root, payload.txn, payload.proof) THEN "merkle"
            ELSE IF Matches([hash |-> payload.block, root |-> payload.root])
              THEN "pass" ELSE "header")
  /\ UNCHANGED <<chain, txId, headers, payload, seen, found>>

Init ==
  /\ ChainInit
  /\ txId \in Wanted /\ at = "headers"
  /\ headers = <<>> /\ payload = {} /\ verdict = "none" /\ seen = <<>> /\ found = {}

ClientStep == FetchHeaders \/ FetchProof \/ FailRequest \/ Check

Next == ClientStep \/ (ChainNext /\ UNCHANGED client)

Spec == Init /\ [][Next]_vars

-----------------------------------------------------------------------------
(* Properties. *)

\* A transaction that passes is in the body of a block that was on the chain
\* when the headers were served, whatever happened to the chain since: the
\* proof may come from a fork, and a block of the fork may repeat the end of
\* a body under the same root.
PassMeansIncluded ==
  verdict = "pass" =>
    /\ payload.txn.id = txId
    /\ \E i \in DOMAIN seen :
         seen[i].hash = payload.block /\ payload.txn \in Range(seen[i].txns)

\* An honest node's answer fails the Merkle comparison only if the amount of
\* the transaction has more decimals than crow prints, and is turned down for
\* lack of a header only when its block is no ancestor of the newest block
\* the headers showed.
NoFalseAlarm ==
  /\ verdict = "merkle" => Wire(found) # found
  /\ verdict = "header" => ~IsPrefix(payload.block, seen[Len(seen)].hash)
=============================================================================
