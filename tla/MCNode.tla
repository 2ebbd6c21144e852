------------------------------- MODULE MCNode -------------------------------
(***************************************************************************)
(* Small instances of Node.  Two accounts, a and b; "A" is another         *)
(* spelling of a.  Rewards go to a, so a can pay one reward away from the  *)
(* first block on.                                                         *)
(***************************************************************************)
EXTENDS Node

CONSTANTS a, A, b, item, TxnNames, BodyNames, PeerLength

MCNorm == [r \in Raw |-> CASE r = NoRaw -> NoAddr [] r = A -> a [] OTHER -> r]

Currency(id, from, to, n, signer) ==
  [id |-> id, kind |-> "CURRENCY", from |-> from, to |-> to, amount |-> n,
   item |-> NoItem, signer |-> signer]
Asset(id, from, to, signer) ==
  [id |-> id, kind |-> "ASSET", from |-> from, to |-> to, amount |-> 0,
   item |-> item, signer |-> signer]

Named ==
  [pay     |-> Currency(1, a, b, Reward, a),
   again   |-> Currency(2, A, b, Reward, a),   \* the same sender, spelled otherwise
   claim   |-> Asset(3, a, A, a),
   give    |-> Asset(4, a, b, a),
   rival   |-> Asset(6, b, b, b),              \* b's claim of the item
   nothing |-> Currency(7, a, b, 0, a),
   forged  |-> Currency(8, a, b, Reward, b),
   coin    |-> RewardTxn(a)]

MCTxn == {Named[n] : n \in TxnNames \cup {"coin"}} \cup {RewardTxn(m) : m \in Miner}

\* Bodies are named by their transactions.
MCBody == {[i \in DOMAIN names |-> Named[names[i]]] : names \in BodyNames}

Extensions(C) ==
  {Append(c, MineBlock(c[Len(c)], body, now)) : c \in C, body \in MCBody, now \in Time}

\* Every chain of up to PeerLength blocks over these bodies, sound or not.
MCPeerChain ==
  LET upto[n \in 1..PeerLength] ==
        IF n = 1 THEN {<<Genesis>>} ELSE upto[n - 1] \cup Extensions(upto[n - 1])
  IN  upto[PeerLength]

Tips == {c[Len(c)] : c \in {d \in MCPeerChain : Len(d) > 1}}

\* A block whose work was done for a difficulty two above the one due.
Jumped(blk) ==
  [blk EXCEPT !.diff = @ + 2, !.nonce = @ + 2,
              !.hash = Hash(blk.ts, blk.last, blk.root, blk.nonce + 2, blk.diff + 2)]

MCPeerBlock == Tips \cup {Jumped(blk) : blk \in Tips}

\* Bodies that peers may mine: honest ones, and ones with rival claims, two
\* rewards or a forged signature.
PayBodies == {<<"coin">>, <<"coin", "pay">>}
MineableBodies == {<<"coin">>, <<"coin", "pay">>, <<"coin", "claim">>}
SpoiltBodies == {<<"coin">>, <<"coin", "claim">>, <<"coin", "rival">>, <<"coin", "coin">>, <<"coin", "forged">>}
NoBodies == {}

\* The workers are alike.
WorkerSymmetry == Permutations(Worker)
=============================================================================
