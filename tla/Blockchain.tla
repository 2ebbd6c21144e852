----------------------------- MODULE Blockchain -----------------------------
(***************************************************************************)
(* One node's chain of blocks: block.cpp and chain.cpp.  The three         *)
(* functions that change the chain (addBlock with a mined body, addBlock   *)
(* with a peer's block, replaceBlockchain) hold chainMutex from their      *)
(* first to their last line and are one action each.                       *)
(*                                                                         *)
(* SHA-256 is modelled by what it commits to: a block's hash is the        *)
(* sequence of the headers from the genesis block to this one.  (The code  *)
(* hashes the fields without separators; nonce and difficulty, the two     *)
(* decimal numbers that touch, are still told apart by isValidBlock, which *)
(* fixes the difficulty to within one of the previous block's.)  A nonce   *)
(* stands for the number of leading zeros it gives the hash.               *)
(***************************************************************************)
EXTENDS State, Merkle

CONSTANTS
  Time,               \* clock readings, in some unit
  GenesisTime,        \* GENESIS_TIMESTAMP
  MineRate,           \* MINE_RATE_MS
  InitialDifficulty,  \* INITIAL_DIFFICULTY
  NoRoot,             \* the empty string the genesis block has for a root
  Body,               \* transaction lists that a block may be mined with
  PeerBlock,          \* blocks that peers may send, as their text is read here
  PeerChain,          \* chains that peers may send or serve, the same
  MaxBlocks           \* bound on the length of a chain, for TLC

VARIABLE chain        \* Blockchain::chain, genesis first

ASSUME ClockAssumption ==
  /\ Time \subseteq Int /\ GenesisTime \in Int /\ MineRate \in Nat
  /\ InitialDifficulty \in Nat \ {0} /\ MaxBlocks \in Nat

IsList(s) == s \in Seq(Range(s))

\* The types of a block's fields, as far as the code relies on them.
IsBlock(b) ==
  /\ b.ts \in Int /\ b.nonce \in Int /\ b.diff \in Int
  /\ IsList(b.last) /\ IsList(b.hash)
  /\ b.txns \in Seq(Txn)

ASSUME PeerAssumption ==
  /\ \A b \in PeerBlock : IsBlock(b)
  /\ \A c \in PeerChain : IsList(c) /\ \A i \in DOMAIN c : IsBlock(c[i])
  /\ Body \subseteq Seq(Txn)

-----------------------------------------------------------------------------
(* Blocks. *)

Hash(ts, last, root, nonce, diff) ==
  Append(last, [ts |-> ts, root |-> root, nonce |-> nonce, diff |-> diff])

LeadingZeros(hash) == hash[Len(hash)].nonce

Genesis ==
  [ts |-> GenesisTime, last |-> <<>>,
   hash |-> Hash(GenesisTime, <<>>, NoRoot, 0, InitialDifficulty),
   root |-> NoRoot, txns |-> <<>>, nonce |-> 0, diff |-> InitialDifficulty]

AdjustDifficulty(prev, now) ==
  IF prev.ts + MineRate > now THEN prev.diff + 1
  ELSE IF prev.diff > 1 THEN prev.diff - 1 ELSE 1

\* Block::mineBlock: the loop leaves with a nonce whose hash has as many
\* zeros as the difficulty of the clock reading "now" it last took.
MineBlock(prev, txns, now) ==
  LET diff == AdjustDifficulty(prev, now)
      root == MerkleRoot(txns)
  IN  [ts |-> now, last |-> prev.hash,
       hash |-> Hash(now, prev.hash, root, diff, diff),
       root |-> root, txns |-> txns, nonce |-> diff, diff |-> diff]

\* Mutant: the body is not compared with the Merkle root.
RootlessFromJsonAccepts(b) == b.diff >= 1

\* Block::fromJson throws unless these hold.
FromJsonAccepts(b) == b.diff >= 1 /\ b.root = MerkleRoot(b.txns)

\* Mutant: the difficulty may jump.
JumpingIsValidBlock(b, prev) ==
  /\ b.last = prev.hash
  /\ b.diff >= 1
  /\ b.hash = Hash(b.ts, b.last, b.root, b.nonce, b.diff)
  /\ LeadingZeros(b.hash) >= b.diff

\* Mutant: the hash of the block before is not compared.
UnlinkedIsValidBlock(b, prev) ==
  /\ b.diff >= 1 /\ b.diff - prev.diff \in -1..1
  /\ b.hash = Hash(b.ts, b.last, b.root, b.nonce, b.diff)
  /\ LeadingZeros(b.hash) >= b.diff

\* Blockchain::isValidBlock.
IsValidBlock(b, prev) ==
  /\ b.last = prev.hash
  /\ b.diff >= 1
  /\ b.diff - prev.diff \in -1..1
  /\ b.hash = Hash(b.ts, b.last, b.root, b.nonce, b.diff)
  /\ LeadingZeros(b.hash) >= b.diff

\* The comparison of a received first block with Block::genesis(): every
\* field but the transactions.
IsGenesis(b) == [b EXCEPT !.txns = <<>>] = Genesis

\* Blockchain::isValidBlockchain.
IsValidBlockchain(c) ==
  /\ c # <<>> /\ IsGenesis(c[1])
  /\ \A i \in 2..Len(c) : IsValidBlock(c[i], c[i - 1])

-----------------------------------------------------------------------------
(* The chain. *)

Latest == chain[Len(chain)]

ChainInit == chain = <<Genesis>>

\* Blockchain::addBlock(txns): mine on the latest block and append.  The
\* body is not checked against the chain's state here.
AppendMined(txns) ==
  /\ Len(chain) < MaxBlocks
  /\ \E now \in Time :
       LET newBlock == MineBlock(Latest, txns, now)
       IN  chain' = IF IsValidBlock(newBlock, Latest) THEN Append(chain, newBlock)
                    ELSE chain

\* Blockchain::addBlock(block).
Appendable(b) == AppendValid(b, chain) /\ IsValidBlock(b, Latest)

AppendReceived(b) ==
  /\ Len(chain) < MaxBlocks
  /\ chain' = IF Appendable(b) THEN Append(chain, b) ELSE chain

\* Mutant: the received genesis block is kept.
KeptParsed(c) == c

\* The conversion of a CHAIN message: the received genesis is compared and
\* replaced, the other blocks are parsed.
Parsed(c) == <<Genesis>> \o Tail(c)

ParseAccepts(c) ==
  c # <<>> /\ IsGenesis(c[1]) /\ \A i \in 2..Len(c) : FromJsonAccepts(c[i])

\* Mutant: a chain of the same length replaces ours.
EqualLengthReplaces(c) ==
  Len(c) >= Len(chain) /\ IsValidBlockchain(c) /\ Derivable(c)

\* Blockchain::replaceBlockchain.
Replaces(c) ==
  Len(c) > Len(chain) /\ IsValidBlockchain(c) /\ Derivable(c)

\* P2pServer::processMessage on a CHAIN message, whole: what it does before
\* the lock reads the message alone.
ReceiveChain(c) ==
  chain' = IF ParseAccepts(c) /\ Derivable(Parsed(c)) /\ Replaces(Parsed(c))
             THEN Parsed(c) ELSE chain

\* Blocks reach addBlock through Block::fromJson.
ReceiveBlock(b) == FromJsonAccepts(b) /\ AppendReceived(b)

ChainNext ==
  \/ \E txns \in Body : AppendMined(txns)
  \/ \E b \in PeerBlock : ReceiveBlock(b)
  \/ \E c \in PeerChain : ReceiveChain(c)

ChainSpec == ChainInit /\ [][ChainNext]_chain

-----------------------------------------------------------------------------
(* Properties. *)

\* The chain is a sequence of blocks.
ChainTypeOK == IsList(chain) /\ \A i \in DOMAIN chain : IsBlock(chain[i])

\* Every block names the hash of the block before it, moves the difficulty
\* by at most one, never below one, and carries the work it claims, however
\* the block came to the chain (mined, sent by a peer, or adopted with a
\* peer's chain).
ChainLinked ==
  /\ chain # <<>> /\ chain[1] = Genesis
  /\ \A i \in 2..Len(chain) :
       /\ chain[i].last = chain[i - 1].hash
       /\ chain[i].diff >= 1
       /\ chain[i].diff - chain[i - 1].diff \in -1..1
       /\ chain[i].nonce >= chain[i].diff

\* The hash of the latest block seals the whole chain: it contains the
\* header of every block, and each header the root of the body the node
\* holds, so that two nodes with one latest hash agree on every header; the
\* genesis block, whose body no root seals, has none, though the comparison
\* with a received one leaves the body out.
TipSealsChain ==
  /\ Len(Latest.hash) = Len(chain)
  /\ \A i \in 1..Len(chain) :
       Latest.hash[i] = [ts |-> chain[i].ts, root |-> chain[i].root,
                         nonce |-> chain[i].nonce, diff |-> chain[i].diff]
  /\ \A i \in 2..Len(chain) : chain[i].root = MerkleRoot(chain[i].txns)
  /\ chain[1].txns = <<>>

\* A step extends the chain by one block or replaces it by a longer one
\* that derives; a chain is never rewritten at its own length.
OnlyGrows ==
  [][ \/ Len(chain') = Len(chain) + 1 /\ SubSeq(chain', 1, Len(chain)) = chain
      \/ Len(chain') > Len(chain) /\ Derivable(chain') ]_chain
=============================================================================
