------------------------------ MODULE MCReplay ------------------------------
(***************************************************************************)
(* A small instance of Replay: accounts a (also spelled A) and b, two      *)
(* items, rewards and payments around the slack Eps, of zero and of        *)
(* negative amounts, to nobody and to oneself, transfers by owners and by  *)
(* others, and forged signatures.                                          *)
(***************************************************************************)
EXTENDS Replay

CONSTANTS a, A, b, i1, i2

MCNorm == [r \in Raw |-> CASE r = NoRaw -> NoAddr [] r = A -> a [] OTHER -> r]

Coin(to, n) ==
  [id |-> 1, kind |-> "CURRENCY", from |-> Coinbase, to |-> to, amount |-> n,
   item |-> NoItem, signer |-> NoAddr]
Pay(from, to, n, signer) ==
  [id |-> 1, kind |-> "CURRENCY", from |-> from, to |-> to, amount |-> n,
   item |-> NoItem, signer |-> signer]
Asset(from, to, i, signer) ==
  [id |-> 1, kind |-> "ASSET", from |-> from, to |-> to, amount |-> 0,
   item |-> i, signer |-> signer]

MCTxn ==
  {Coin(to, n) : to \in {a, NoRaw}, n \in {Reward, Reward + Eps, Reward + 2 * Eps}}
  \cup {Pay(a, to, n, a) : to \in {A, b, NoRaw}, n \in {-2, 0, 1, Reward, Reward + Eps}}
  \cup {Pay(b, a, 2, s) : s \in {a, b, NoAddr}}
  \cup {Asset(f, t, i, MCNorm[f]) : f \in {a, A, b}, t \in {a, A, b}, i \in {i1, i2}}
  \cup {Asset(a, b, i1, b), Asset(a, NoRaw, i1, a), Asset(a, a, NoItem, a),
        Asset(Coinbase, a, i1, NoAddr)}
=============================================================================
