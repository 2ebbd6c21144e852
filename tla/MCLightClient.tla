--------------------------- MODULE MCLightClient ---------------------------
(***************************************************************************)
(* A small instance of Blockchain and its light client: two accounts,      *)
(* bodies good and bad, among them two with one Merkle root (the last      *)
(* transaction repeated) and one with an amount that crow rounds, two      *)
(* different transactions under one id, two clock readings (one too soon   *)
(* after the previous block, one late), and chains of up to three blocks   *)
(* that a peer can have mined with them, as they arrive, the short ones    *)
(* also with one field of their last block altered, or with transactions   *)
(* in the genesis block.                                                   *)
(***************************************************************************)
EXTENDS LightClient

CONSTANTS a, b

MCNorm == [r \in Raw |-> IF r = NoRaw THEN NoAddr ELSE r]

Coin(to) == [id |-> 1, kind |-> "CURRENCY", from |-> Coinbase, to |-> to,
             amount |-> Reward, item |-> NoItem, signer |-> NoAddr]
Pay(n, signer) == [id |-> 2, kind |-> "CURRENCY", from |-> a, to |-> b,
                   amount |-> n, item |-> NoItem, signer |-> signer]

MCTxn == {Coin(a), Pay(Reward, a), Pay(3, a), Pay(6, a), Pay(3, b), Pay(1, a), Pay(0, NoAddr)}

MCBody ==
  {<<>>, <<Coin(a), Coin(a)>>, <<Pay(3, b)>>, <<Coin(a), Pay(Reward, a)>>,
   <<Coin(a), Pay(1, a)>>, <<Coin(a), Pay(3, a), Pay(6, a)>>,
   <<Coin(a), Pay(3, a), Pay(6, a), Pay(6, a)>>}

Extensions(C, bodies) ==
  {Append(c, MineBlock(c[Len(c)], body, now)) : c \in C, body \in bodies, now \in Time}

Mined1 == {<<Genesis>>}
Mined2 == Extensions(Mined1, MCBody)
Mined3 == Extensions(Mined2, {<<>>, <<Coin(a), Pay(3, a), Pay(6, a), Pay(6, a)>>})

\* A peer's block and chain as they are read: the transactions rounded, the
\* root that of the peer's own body.
Read(blk) == [blk EXCEPT !.txns = [i \in DOMAIN @ |-> Wire(@[i])]]
ReadAll(C) == {[i \in DOMAIN c |-> Read(c[i])] : c \in C}

\* One field of a block changed, the hash left as it was or recomputed.
Altered(blk) ==
  {[blk EXCEPT !.diff = 0], [blk EXCEPT !.diff = 9], [blk EXCEPT !.ts = @ + 1],
   [blk EXCEPT !.txns = Append(@, Pay(3, a))],
   [blk EXCEPT !.nonce = 0,
               !.hash = Hash(blk.ts, blk.last, blk.root, 0, blk.diff)],
   [blk EXCEPT !.diff = @ + 2, !.nonce = @ + 2,
               !.hash = Hash(blk.ts, blk.last, blk.root, blk.nonce + 2, blk.diff + 2)]}

AlteredTip(C) ==
  UNION {{[c EXCEPT ![Len(c)] = x] : x \in Altered(c[Len(c)])} : c \in C}

MCPeerChain ==
  {<<>>} \cup Mined1
  \cup ReadAll(Mined2 \cup Mined3 \cup AlteredTip(Mined1) \cup AlteredTip(Mined2))
  \cup ReadAll({[c EXCEPT ![1].txns = <<Pay(3, a)>>] : c \in Mined2})

MCPeerBlock == {Read(c[Len(c)]) : c \in Mined2 \cup Mined3 \cup AlteredTip(Mined2)}
=============================================================================
