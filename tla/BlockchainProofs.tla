-------------------------- MODULE BlockchainProofs --------------------------
(***************************************************************************)
(* Proofs about the chain: one lemma for each way it changes, used by the  *)
(* proofs about the node and the light client, and what the hash of its    *)
(* latest block seals.                                                     *)
(***************************************************************************)
EXTENDS Blockchain, Lists, FiniteSetTheorems

-----------------------------------------------------------------------------
(* Lists. *)

\* A sequence over any set is a list.
LEMMA SeqIsList ==
  ASSUME NEW S, NEW s \in Seq(S)
  PROVE  IsList(s)
<1>1. \A i \in 1..Len(s) : s[i] \in Range(s)
  BY DEF Range
<1>2. QED
  BY <1>1 DEF IsList

\* Appending to a list: the result, its length and its elements.
LEMMA AppendList ==
  ASSUME NEW s, IsList(s), NEW e
  PROVE  /\ IsList(Append(s, e))
         /\ Len(s) \in Nat /\ DOMAIN s = 1..Len(s)
         /\ Len(Append(s, e)) = Len(s) + 1
         /\ DOMAIN Append(s, e) = 1..(Len(s) + 1)
         /\ \A i \in 1..Len(s) : Append(s, e)[i] = s[i]
         /\ Append(s, e)[Len(s) + 1] = e
<1> DEFINE T == Range(s) \cup {e}
<1>1. s \in Seq(T) /\ e \in T
  BY DEF IsList
<1>2. Append(s, e) \in Seq(T)
  BY <1>1
<1>3. IsList(Append(s, e))
  BY <1>2, SeqIsList
<1> HIDE DEF T
<1>4. QED
  BY <1>1, <1>2, <1>3

-----------------------------------------------------------------------------
(* Blocks. *)

\* The genesis block is a block.
LEMMA GenesisIsBlock == IsBlock(Genesis)
<1>1. <<>> \in Seq({}) /\ <<>> \in Seq(Txn)
  OBVIOUS
<1>2. IsList(<<>>)
  BY <1>1, SeqIsList
<1>3. IsList(Genesis.hash)
  BY <1>2, AppendList DEF Genesis, Hash
<1>4. QED
  BY <1>1, <1>2, <1>3, ClockAssumption DEF Genesis, IsBlock

\* The first chain of a process is linked.
LEMMA GenesisChain ==
  ASSUME chain = <<Genesis>>
  PROVE  ChainTypeOK /\ ChainLinked
<1>1. chain \in Seq({Genesis}) /\ Len(chain) = 1 /\ chain[1] = Genesis
  OBVIOUS
<1>2. IsList(chain)
  BY <1>1, SeqIsList
<1>3. QED
  BY <1>1, <1>2, GenesisIsBlock DEF ChainTypeOK, ChainLinked

\* A mined block is a block.
LEMMA MinedIsBlock ==
  ASSUME NEW prev, IsBlock(prev), NEW txns \in Seq(Txn), NEW now \in Time
  PROVE  IsBlock(MineBlock(prev, txns, now)) /\ MineBlock(prev, txns, now).txns = txns
<1>1. AdjustDifficulty(prev, now) \in Int
  BY ClockAssumption DEF AdjustDifficulty, IsBlock
<1>2. IsList(MineBlock(prev, txns, now).hash)
  BY AppendList DEF MineBlock, Hash, IsBlock
<1>3. QED
  BY <1>1, <1>2, ClockAssumption DEF MineBlock, IsBlock

\* What the hash of a block adds to that of the block before it.
Header(b) == [ts |-> b.ts, root |-> b.root, nonce |-> b.nonce, diff |-> b.diff]

\* What isValidBlock establishes of a block and the one before it.
LEMMA ValidBlockLinks ==
  ASSUME NEW b, NEW prev, IsBlock(b), IsValidBlock(b, prev)
  PROVE  /\ b.last = prev.hash
         /\ b.hash = Append(prev.hash, Header(b)) /\ IsList(prev.hash)
         /\ b.diff >= 1 /\ b.diff - prev.diff \in -1..1
         /\ b.nonce >= b.diff
<1>1. b.hash = Append(b.last, Header(b)) /\ b.last = prev.hash /\ IsList(b.last)
  BY DEF IsValidBlock, Hash, Header, IsBlock
<1>2. b.hash[Len(b.hash)] = Header(b)
  BY <1>1, AppendList
<1>3. QED
  BY <1>1, <1>2 DEF IsValidBlock, LeadingZeros, Header

-----------------------------------------------------------------------------
(* The three ways the chain changes. *)

\* A step that appends a valid block, or takes a longer valid chain whose
\* bodies have the roots their blocks name.
Extends(b) == IsBlock(b) /\ IsValidBlock(b, Latest) /\ chain' = Append(chain, b)

Adopts ==
  /\ Len(chain') > Len(chain) /\ IsValidBlockchain(chain') /\ Derivable(chain')
  /\ \A i \in 2..Len(chain') : chain'[i].root = MerkleRoot(chain'[i].txns)

\* Appending a valid block.
LEMMA AppendKeepsLinks ==
  ASSUME ChainTypeOK, ChainLinked, NEW b, Extends(b)
  PROVE  ChainTypeOK' /\ ChainLinked'
<1> USE DEF Extends
<1> DEFINE n == Len(chain)
<1>1. /\ IsList(chain') /\ n \in Nat /\ DOMAIN chain = 1..n
      /\ Len(chain') = n + 1 /\ DOMAIN chain' = 1..(n + 1)
      /\ \A i \in 1..n : chain'[i] = chain[i]
      /\ chain'[n + 1] = b
  BY AppendList DEF ChainTypeOK
<1>2. n >= 1
  BY <1>1 DEF ChainLinked, ChainTypeOK, IsList
<1>3. ChainTypeOK'
  <2>1. \A i \in 1..(n + 1) : IsBlock(chain'[i])
    BY <1>1 DEF ChainTypeOK
  <2>2. QED
    BY <1>1, <2>1 DEF ChainTypeOK, IsList, IsBlock
<1>4. ChainLinked'
  <2>1. chain' # <<>> /\ chain'[1] = Genesis
    BY <1>1, <1>2 DEF ChainLinked
  <2>2. /\ b.last = chain[n].hash
        /\ b.diff >= 1 /\ b.diff - chain[n].diff \in -1..1 /\ b.nonce >= b.diff
    BY ValidBlockLinks DEF Latest
  <2>3. ASSUME NEW i \in 2..(n + 1)
        PROVE  /\ chain'[i].last = chain'[i - 1].hash
               /\ chain'[i].diff >= 1
               /\ chain'[i].diff - chain'[i - 1].diff \in -1..1
               /\ chain'[i].nonce >= chain'[i].diff
    <3>1. CASE i = n + 1
      <4>1. i - 1 \in 1..n /\ chain'[i] = b /\ chain'[i - 1] = chain[n]
        BY <1>1, <1>2, <3>1
      <4>2. QED
        BY <2>2, <4>1
    <3>2. CASE i # n + 1
      <4>1. i \in 2..n /\ chain'[i] = chain[i] /\ chain'[i - 1] = chain[i - 1]
        BY <1>1, <1>2, <3>2
      <4>2. QED
        BY <4>1 DEF ChainLinked
    <3>3. QED
      BY <3>1, <3>2
  <2>4. Genesis' = Genesis
    BY DEF Genesis, Hash
  <2>5. QED
    BY <1>1, <2>1, <2>3, <2>4 DEF ChainLinked
<1>5. QED
  BY <1>3, <1>4

\* Mining: whatever the clock reads, the chain stays a linked chain, and it
\* is extended by a block with the given transactions or not at all.
LEMMA AppendMinedKeepsLinks ==
  ASSUME ChainTypeOK, ChainLinked, NEW txns \in Seq(Txn), AppendMined(txns)
  PROVE  /\ ChainTypeOK' /\ ChainLinked'
         /\ \/ chain' = chain
            \/ \E b : Extends(b) /\ b.txns = txns /\ b.root = MerkleRoot(txns)
<1>1. PICK now \in Time :
        LET newBlock == MineBlock(Latest, txns, now)
        IN  chain' = IF IsValidBlock(newBlock, Latest) THEN Append(chain, newBlock)
                     ELSE chain
  BY DEF AppendMined
<1> DEFINE b == MineBlock(Latest, txns, now)
<1>2. IsBlock(Latest)
  <2>1. Len(chain) \in 1..Len(chain) /\ DOMAIN chain = 1..Len(chain)
    BY DEF ChainTypeOK, ChainLinked, IsList
  <2>2. QED
    BY <2>1 DEF Latest, ChainTypeOK
<1>3. IsBlock(b) /\ b.txns = txns /\ b.root = MerkleRoot(txns)
  <2>1. b.root = MerkleRoot(txns)
    BY DEF MineBlock
  <2>2. QED
    BY <1>2, <2>1, MinedIsBlock
<1> HIDE DEF b
<1>4. CASE IsValidBlock(b, Latest) /\ chain' = Append(chain, b)
  BY <1>3, <1>4, AppendKeepsLinks DEF Extends
<1>5. CASE chain' = chain
  BY <1>5 DEF ChainTypeOK, ChainLinked, IsBlock, IsList, Genesis, Hash
<1>6. QED
  BY <1>1, <1>4, <1>5 DEF b

\* A peer's block.
LEMMA AppendReceivedKeepsLinks ==
  ASSUME ChainTypeOK, ChainLinked, NEW b \in PeerBlock, AppendReceived(b)
  PROVE  /\ ChainTypeOK' /\ ChainLinked'
         /\ \/ chain' = chain
            \/ Extends(b) /\ Authentic(b.txns)
<1>1. IsBlock(b)
  BY PeerAssumption
<1>2. CASE Appendable(b) /\ chain' = Append(chain, b)
  <2>1. IsValidBlock(b, Latest) /\ Authentic(b.txns)
    BY <1>2 DEF Appendable, AppendValid
  <2>2. QED
    BY <1>1, <1>2, <2>1, AppendKeepsLinks DEF Extends
<1>3. CASE chain' = chain
  BY <1>3 DEF ChainTypeOK, ChainLinked, IsBlock, IsList, Genesis, Hash
<1>4. QED
  BY <1>2, <1>3 DEF AppendReceived

\* A peer's chain.
LEMMA ReceiveChainKeepsLinks ==
  ASSUME ChainTypeOK, ChainLinked, NEW c \in PeerChain, ReceiveChain(c)
  PROVE  /\ ChainTypeOK' /\ ChainLinked'
         /\ chain' = chain \/ Adopts
<1> DEFINE d == Parsed(c)
<1>1. CASE chain' = chain
  BY <1>1 DEF ChainTypeOK, ChainLinked, IsBlock, IsList, Genesis, Hash
<1>2. CASE ParseAccepts(c) /\ Derivable(d) /\ Replaces(d) /\ chain' = d
  <2>1. IsList(c) /\ c # <<>> /\ \A i \in DOMAIN c : IsBlock(c[i])
    BY <1>2, PeerAssumption DEF ParseAccepts
  <2>2. /\ d \in Seq(Range(c) \cup {Genesis}) /\ Len(d) = Len(c)
        /\ d[1] = Genesis
        /\ Len(c) \in Nat \ {0} /\ \A i \in 2..Len(c) : d[i] = c[i]
    <3>1. <<Genesis>> \in Seq(Range(c) \cup {Genesis}) /\ c \in Seq(Range(c) \cup {Genesis})
      BY <2>1 DEF IsList
    <3> HIDE DEF d
    <3>2. QED
      BY <2>1, <3>1 DEF Parsed, d
  <2>3. IsList(d)
    BY <2>2, SeqIsList
  <2>5. \A i \in 1..Len(d) : IsBlock(d[i])
    BY <2>1, <2>2, GenesisIsBlock
  <2>6. \A i \in 2..Len(d) : IsValidBlock(d[i], d[i - 1])
    BY <1>2 DEF Replaces, IsValidBlockchain
  <2>7. ASSUME NEW i \in 2..Len(d)
        PROVE  /\ d[i].last = d[i - 1].hash
               /\ d[i].diff >= 1 /\ d[i].diff - d[i - 1].diff \in -1..1
               /\ d[i].nonce >= d[i].diff
    BY <2>2, <2>5, <2>6, ValidBlockLinks
  <2> HIDE DEF d
  <2>8. ChainTypeOK'
    BY <1>2, <2>2, <2>3, <2>5 DEF ChainTypeOK, IsList, IsBlock
  <2>9. Genesis' = Genesis
    BY DEF Genesis, Hash
  <2>10. ChainLinked'
    BY <1>2, <2>2, <2>7, <2>9 DEF ChainLinked
  <2>11. \A i \in 2..Len(d) : d[i].root = MerkleRoot(d[i].txns)
    BY <1>2, <2>2 DEF ParseAccepts, FromJsonAccepts
  <2>12. Adopts
    BY <1>2, <2>11 DEF Adopts, Replaces
  <2>13. QED
    BY <2>8, <2>10, <2>12
<1>3. QED
  BY <1>1, <1>2 DEF ReceiveChain

-----------------------------------------------------------------------------
(* What the hashes seal. *)

\* The hash of every block continues the one before it: ChainLinked names the
\* hash of the block before, this also its own.
Hashed(c) ==
  /\ c[1] = Genesis
  /\ \A i \in 2..Len(c) : /\ IsList(c[i - 1].hash)
                          /\ c[i].hash = Append(c[i - 1].hash, Header(c[i]))

\* The hash of every block is the sequence of the headers up to its own.
Sealed(c) ==
  \A i \in 1..Len(c) :
    /\ IsList(c[i].hash) /\ Len(c[i].hash) = i
    /\ \A j \in 1..i : c[i].hash[j] = Header(c[j])

\* By induction on the length.
LEMMA HashedIsSealed ==
  ASSUME NEW c, Len(c) \in Nat, Hashed(c)
  PROVE  Sealed(c)
<1> DEFINE Q(i) == /\ IsList(c[i].hash) /\ Len(c[i].hash) = i
                   /\ \A j \in 1..i : c[i].hash[j] = Header(c[j])
           T == {n \in Nat : n + 1 \in 1..Len(c) => Q(n + 1)}
<1>1. 0 \in T
  <2>1. Genesis.hash = Append(<<>>, Header(Genesis))
    BY DEF Genesis, Hash, Header
  <2>2. IsList(<<>>) /\ Len(<<>>) = 0
    <3>1. <<>> \in Seq({})
      OBVIOUS
    <3>2. QED
      BY <3>1, SeqIsList
  <2>3. /\ IsList(Genesis.hash) /\ Len(Genesis.hash) = 0 + 1
        /\ Genesis.hash[0 + 1] = Header(Genesis)
    <3> DEFINE s == <<>>
               e == Header(Genesis)
    <3>1. IsList(s) /\ Len(s) = 0 /\ Genesis.hash = Append(s, e)
      BY <2>1, <2>2
    <3> HIDE DEF s, e
    <3>2. /\ IsList(Append(s, e)) /\ Len(Append(s, e)) = Len(s) + 1
          /\ Append(s, e)[Len(s) + 1] = e
      BY <3>1, AppendList
    <3>3. QED
      BY <3>1, <3>2 DEF e
  <2>4. Q(1)
    BY <2>3 DEF Hashed
  <2>5. QED
    BY <2>4
<1>2. ASSUME NEW n \in T PROVE n + 1 \in T
  <2> SUFFICES ASSUME n + 2 \in 1..Len(c) PROVE Q(n + 2)
    BY <1>2
  <2> DEFINE k == n + 1
  <2>1. k \in Nat /\ k + 1 = n + 2 /\ k + 1 \in 2..Len(c) /\ k + 1 - 1 = k
    BY <1>2
  <2>2. Q(k)
    BY <1>2, <2>1
  <2> HIDE DEF k
  <2>3. c[k + 1].hash = Append(c[k].hash, Header(c[k + 1]))
    BY <2>1 DEF Hashed
  <2>4. /\ IsList(c[k + 1].hash) /\ Len(c[k + 1].hash) = k + 1
        /\ \A j \in 1..k : c[k + 1].hash[j] = c[k].hash[j]
        /\ c[k + 1].hash[k + 1] = Header(c[k + 1])
    <3> DEFINE s == c[k].hash
               e == Header(c[k + 1])
    <3>1. IsList(s) /\ Len(s) = k /\ c[k + 1].hash = Append(s, e)
      BY <2>2, <2>3
    <3> HIDE DEF s, e
    <3>2. /\ IsList(Append(s, e)) /\ Len(Append(s, e)) = Len(s) + 1
          /\ \A j \in 1..Len(s) : Append(s, e)[j] = s[j]
          /\ Append(s, e)[Len(s) + 1] = e
      BY <3>1, AppendList
    <3>3. QED
      BY <3>1, <3>2 DEF s, e
  <2>5. ASSUME NEW j \in 1..(k + 1) PROVE c[k + 1].hash[j] = Header(c[j])
    <3>1. CASE j = k + 1
      BY <2>4, <3>1
    <3>2. CASE j \in 1..k
      BY <2>2, <2>4, <3>2
    <3>3. QED
      BY <2>1, <3>1, <3>2
  <2>6. Q(k + 1)
    BY <2>4, <2>5
  <2>7. QED
    BY <2>1, <2>6
<1>3. T = Nat
  <2>1. T \in SUBSET Nat
    OBVIOUS
  <2> HIDE DEF T
  <2>2. QED
    BY <1>1, <1>2, <2>1, SetInduction
<1>4. ASSUME NEW i \in 1..Len(c) PROVE Q(i)
  <2>1. i - 1 \in Nat /\ i - 1 + 1 = i
    OBVIOUS
  <2> HIDE DEF Q
  <2>2. i - 1 + 1 \in 1..Len(c) => Q(i - 1 + 1)
    BY <1>3, <2>1
  <2>3. QED
    BY <2>1, <2>2
<1>5. QED
  BY <1>4 DEF Sealed

\* The first chain.
LEMMA GenesisHashed ==
  ASSUME chain = <<Genesis>>
  PROVE  Hashed(chain)
BY DEF Hashed

\* Hashes go on as the chain does.
LEMMA HashedStep ==
  ASSUME ChainTypeOK, ChainLinked, Hashed(chain), ChainTypeOK', ChainLinked',
         chain' = chain \/ (\E b : Extends(b)) \/ Adopts
  PROVE  Hashed(chain')
<1>1. CASE chain' = chain
  BY <1>1
<1>2. ASSUME NEW b, Extends(b) PROVE Hashed(chain')
  <2> DEFINE n == Len(chain)
  <2>1. /\ n \in Nat /\ Len(chain') = n + 1
        /\ \A i \in 1..n : chain'[i] = chain[i]
        /\ chain'[n + 1] = b
    BY <1>2, AppendList DEF ChainTypeOK, Extends
  <2>2. n >= 1
    BY <2>1 DEF ChainLinked, ChainTypeOK, IsList
  <2>3. b.hash = Append(chain[n].hash, Header(b)) /\ IsList(chain[n].hash)
    BY <1>2, ValidBlockLinks DEF Extends, Latest
  <2>4. ASSUME NEW i \in 2..(n + 1)
        PROVE  /\ IsList(chain'[i - 1].hash)
               /\ chain'[i].hash = Append(chain'[i - 1].hash, Header(chain'[i]))
    <3>1. CASE i = n + 1
      <4>1. i - 1 = n /\ n \in 1..n
        BY <2>1, <2>2, <3>1
      <4>2. QED
        BY <2>1, <2>3, <3>1, <4>1
    <3>2. CASE i # n + 1
      <4>1. i \in 2..n /\ chain'[i] = chain[i] /\ chain'[i - 1] = chain[i - 1]
        BY <2>1, <2>2, <3>2
      <4>2. QED
        BY <4>1 DEF Hashed
    <3>3. QED
      BY <3>1, <3>2
  <2>5. chain'[1] = Genesis
    BY <2>1, <2>2 DEF Hashed
  <2>6. QED
    BY <2>1, <2>4, <2>5 DEF Hashed
<1>3. CASE Adopts
  <2>1. Len(chain') \in Nat /\ chain'[1] = Genesis
    <3>1. Genesis' = Genesis
      BY DEF Genesis, Hash
    <3>2. QED
      BY <3>1 DEF ChainTypeOK, ChainLinked, IsList
  <2>2. ASSUME NEW i \in 2..Len(chain')
        PROVE  /\ IsList(chain'[i - 1].hash)
               /\ chain'[i].hash = Append(chain'[i - 1].hash, Header(chain'[i]))
    <3>1. IsBlock(chain'[i])
      <4>1. i \in DOMAIN chain'
        BY <2>1 DEF ChainTypeOK, IsList
      <4>2. QED
        BY <4>1 DEF ChainTypeOK, IsBlock, IsList
    <3>2. IsValidBlock(chain'[i], chain'[i - 1])
      BY <1>3 DEF Adopts, IsValidBlockchain
    <3>3. QED
      BY <3>1, <3>2, ValidBlockLinks
  <2>3. QED
    BY <2>1, <2>2 DEF Hashed
<1>4. QED
  BY <1>1, <1>2, <1>3

\* Every block past the genesis block names the root of the body it has.
Rooted(c) == \A i \in 2..Len(c) : c[i].root = MerkleRoot(c[i].txns)

\* Roots go on as the chain does, if every block appended has the root of its
\* body.
LEMMA RootedStep ==
  ASSUME ChainTypeOK, Rooted(chain),
         \/ chain' = chain
         \/ \E b : Extends(b) /\ b.root = MerkleRoot(b.txns)
         \/ Adopts
  PROVE  Rooted(chain')
<1>1. ASSUME NEW b, Extends(b), b.root = MerkleRoot(b.txns) PROVE Rooted(chain')
  <2> DEFINE n == Len(chain)
  <2>1. /\ n \in Nat /\ Len(chain') = n + 1
        /\ \A i \in 1..n : chain'[i] = chain[i]
        /\ chain'[n + 1] = b
    BY <1>1, AppendList DEF ChainTypeOK, Extends
  <2>2. ASSUME NEW i \in 2..(n + 1) PROVE chain'[i].root = MerkleRoot(chain'[i].txns)
    <3>1. CASE i = n + 1
      BY <1>1, <2>1, <3>1
    <3>2. CASE i # n + 1
      <4>1. i \in 2..n /\ chain'[i] = chain[i]
        BY <2>1, <3>2
      <4>2. QED
        BY <4>1 DEF Rooted
    <3>3. QED
      BY <3>1, <3>2
  <2>3. QED
    BY <2>1, <2>2 DEF Rooted
<1>2. QED
  BY <1>1 DEF Adopts, Rooted

\* What the latest block seals.
LEMMA TipSeals ==
  ASSUME ChainTypeOK, ChainLinked, Hashed(chain), Rooted(chain)
  PROVE  TipSealsChain
<1>1. Len(chain) \in Nat \ {0}
  BY DEF ChainTypeOK, ChainLinked, IsList
<1>2. Sealed(chain)
  BY <1>1, HashedIsSealed
<1>3. /\ Len(Latest.hash) = Len(chain)
      /\ \A j \in 1..Len(chain) : Latest.hash[j] = Header(chain[j])
  BY <1>1, <1>2 DEF Sealed, Latest
<1>4. QED
  BY <1>3 DEF TipSealsChain, Rooted, Header, Hashed, Genesis

-----------------------------------------------------------------------------
\* A chain on its own: types, links, hashes and roots.
ChainInv == ChainTypeOK /\ ChainLinked /\ Hashed(chain) /\ Rooted(chain)

\* It holds at the start.
LEMMA ChainInvInit == ChainInit => ChainInv
<1> SUFFICES ASSUME ChainInit PROVE ChainInv
  OBVIOUS
<1>1. chain = <<Genesis>> /\ Len(<<Genesis>>) = 1
  BY DEF ChainInit
<1>2. Rooted(chain)
  BY <1>1 DEF Rooted
<1>3. QED
  BY <1>1, <1>2, GenesisChain, GenesisHashed DEF ChainInv

\* Every step of the chain leaves it alone, extends it by one block or
\* adopts a longer chain, and keeps the invariant.
LEMMA ChainInvStep ==
  ASSUME ChainInv, ChainNext
  PROVE  ChainInv' /\ (chain' = chain \/ (\E b : Extends(b)) \/ Adopts)
<1> USE DEF ChainInv
<1>1. ASSUME ChainTypeOK', ChainLinked',
             \/ chain' = chain
             \/ \E b : Extends(b) /\ b.root = MerkleRoot(b.txns)
             \/ Adopts
      PROVE  ChainInv' /\ (chain' = chain \/ (\E b : Extends(b)) \/ Adopts)
  <2>1. Hashed(chain')
    BY <1>1, HashedStep
  <2>2. Rooted(chain')
    BY <1>1, RootedStep
  <2>3. Hashed(chain)' /\ Rooted(chain)'
    BY <2>1, <2>2 DEF Hashed, Rooted, Header, Genesis, Hash, IsList, MerkleRoot, Levels, Depth
  <2>4. QED
    BY <1>1, <2>3
<1>2. ASSUME NEW txns \in Body, AppendMined(txns)
      PROVE  ChainInv' /\ (chain' = chain \/ (\E b : Extends(b)) \/ Adopts)
  BY <1>1, <1>2, PeerAssumption, AppendMinedKeepsLinks
<1>3. ASSUME NEW b \in PeerBlock, ReceiveBlock(b)
      PROVE  ChainInv' /\ (chain' = chain \/ (\E e : Extends(e)) \/ Adopts)
  BY <1>1, <1>3, AppendReceivedKeepsLinks DEF ReceiveBlock, FromJsonAccepts
<1>4. ASSUME NEW c \in PeerChain, ReceiveChain(c)
      PROVE  ChainInv' /\ (chain' = chain \/ (\E b : Extends(b)) \/ Adopts)
  BY <1>1, <1>4, ReceiveChainKeepsLinks
<1>5. QED
  BY <1>2, <1>3, <1>4 DEF ChainNext

\* A step that changes the chain is one that OnlyGrows allows.
LEMMA StepGrows ==
  ASSUME ChainInv, ChainNext
  PROVE  \/ chain' = chain
         \/ Len(chain') = Len(chain) + 1 /\ SubSeq(chain', 1, Len(chain)) = chain
         \/ Len(chain') > Len(chain) /\ Derivable(chain')
<1>1. ASSUME NEW b, Extends(b)
      PROVE  Len(chain') = Len(chain) + 1 /\ SubSeq(chain', 1, Len(chain)) = chain
  <2> DEFINE n == Len(chain)
             S == Range(chain) \cup {b}
             d == Append(chain, b)
  <2>1. chain \in Seq(S) /\ d \in Seq(S) /\ n \in Nat
    BY DEF ChainInv, ChainTypeOK, IsList
  <2>2. Len(d) = n + 1 /\ \A i \in 1..n : d[i] = chain[i]
    BY AppendList DEF ChainInv, ChainTypeOK
  <2> HIDE DEF d, S
  <2>3. SubSeq(d, 1, n) = SubSeq(chain, 1, n)
    <3>1. n <= Len(d) /\ n <= Len(chain)
      BY <2>1, <2>2
    <3>2. QED
      BY <2>1, <2>2, <3>1, SameCut
  <2>4. SubSeq(chain, 1, n) = chain
    BY <2>1, SubSeqFull
  <2>5. QED
    BY <1>1, <2>2, <2>3, <2>4 DEF Extends, d
<1>2. QED
  BY <1>1, ChainInvStep DEF Adopts

-----------------------------------------------------------------------------
(* What one transaction does to the state.                                 *)

\* What a payment that applies does to the balances: the sender's falls, to
\* no less than the floor, the recipient's rises, nobody else's moves; a
\* payment to oneself changes nothing.
LEMMA PaymentEffect ==
  ASSUME NEW s \in DerivedState, NEW t \in Txn, t.kind = "CURRENCY", ~IsReward(t),
         PaymentApplies(t, s)
  PROVE  /\ Norm[t.from] \in Addr /\ Norm[t.to] \in Addr /\ t.amount \in Nat
         /\ Effect(t, s).ok = s.ok
         /\ Effect(t, s).owner = s.owner /\ Effect(t, s).assets = s.assets
         /\ Effect(t, s).bal \in [Addr -> Int]
         /\ \A x \in Addr :
              Effect(t, s).bal[x] =
                IF Norm[t.from] = Norm[t.to] THEN s.bal[x]
                ELSE IF x = Norm[t.from] THEN s.bal[x] - t.amount
                ELSE IF x = Norm[t.to] THEN s.bal[x] + t.amount
                ELSE s.bal[x]
<1> DEFINE f == Norm[t.from]
           g == Norm[t.to]
<1>1. f \in Addr /\ g \in Addr /\ t.amount \in Nat
  BY AddressAssumption, TxnAssumption DEF PaymentApplies, TxnRecord, Holder
<1>2. t.amount \in Int /\ s.bal \in [Addr -> Int]
  BY <1>1 DEF DerivedState
<1>3. t.kind # "ASSET"
  OBVIOUS
<1>4. Effect(t, s) = [s EXCEPT !.bal = Credit(Debited(t, s), g, t.amount)]
  BY <1>3 DEF Effect
<1>5. Credit(Debited(t, s), g, t.amount)
        = [[s.bal EXCEPT ![f] = s.bal[f] - t.amount] EXCEPT ![g] = @ + t.amount]
  BY DEF Credit, Debited
<1> HIDE DEF f, g
<1>6. /\ Effect(t, s).ok = s.ok /\ Effect(t, s).owner = s.owner
      /\ Effect(t, s).assets = s.assets
      /\ Effect(t, s).bal = [[s.bal EXCEPT ![f] = s.bal[f] - t.amount] EXCEPT ![g] = @ + t.amount]
  BY <1>4, <1>5 DEF DerivedState
<1>7. Effect(t, s).bal \in [Addr -> Int]
  BY <1>1, <1>2, <1>6
<1>8. \A x \in Addr : Effect(t, s).bal[x] =
                IF f = g THEN s.bal[x]
                ELSE IF x = f THEN s.bal[x] - t.amount
                ELSE IF x = g THEN s.bal[x] + t.amount
                ELSE s.bal[x]
  BY <1>1, <1>2, <1>6
<1>9. QED
  BY <1>1, <1>6, <1>7, <1>8 DEF f, g

\* What a reward that applies does: the recipient's balance rises.
LEMMA RewardEffect ==
  ASSUME NEW s \in DerivedState, NEW t \in Txn, IsReward(t), RewardApplies(t)
  PROVE  /\ Norm[t.to] \in Addr /\ t.amount \in Nat
         /\ Effect(t, s).ok = s.ok
         /\ Effect(t, s).owner = s.owner /\ Effect(t, s).assets = s.assets
         /\ Effect(t, s).bal \in [Addr -> Int]
         /\ \A x \in Addr : Effect(t, s).bal[x] =
              IF x = Norm[t.to] THEN s.bal[x] + t.amount ELSE s.bal[x]
<1>1. Norm[t.to] \in Addr /\ t.amount \in Nat /\ t.kind = "CURRENCY"
  BY AddressAssumption, TxnAssumption DEF RewardApplies, TxnRecord, Holder, IsReward
<1>2. Effect(t, s) = [s EXCEPT !.bal = [s.bal EXCEPT ![Norm[t.to]] = @ + t.amount]]
  BY <1>1 DEF Effect, Credit
<1>3. QED
  BY <1>1, <1>2 DEF DerivedState

\* What an asset transaction that applies does: the item is the recipient's,
\* in both indexes, and nothing else moves.
LEMMA AssetEffect ==
  ASSUME NEW s \in DerivedState, NEW t \in Txn, t.kind = "ASSET", AssetApplies(t, s)
  PROVE  /\ Norm[t.from] \in Addr /\ Norm[t.to] \in Addr /\ t.item \in Item
         /\ Effect(t, s).ok = s.ok /\ Effect(t, s).bal = s.bal
         /\ Effect(t, s).owner = [s.owner EXCEPT ![t.item] = Norm[t.to]]
         /\ Effect(t, s).assets = Reindexed(t, s)
         /\ Reindexed(t, s) \in [Addr -> SUBSET Item]
         /\ \A x \in Addr : Reindexed(t, s)[x] =
              IF x = Norm[t.to] THEN s.assets[x] \cup {t.item}
              ELSE IF s.owner[t.item] # Unowned /\ x = Norm[t.from]
                THEN s.assets[x] \ {t.item}
              ELSE s.assets[x]
<1>1. Norm[t.from] \in Addr /\ Norm[t.to] \in Addr /\ t.item \in Item
  BY AddressAssumption, TxnAssumption DEF AssetApplies, TxnRecord, Holder
<1>2. ~IsReward(t) /\ t.kind # "CURRENCY"
  BY DEF IsReward
<1>3. Effect(t, s) = [s EXCEPT !.owner[t.item] = Norm[t.to], !.assets = Reindexed(t, s)]
  BY <1>2 DEF Effect
<1>4. /\ Effect(t, s).ok = s.ok /\ Effect(t, s).bal = s.bal
      /\ Effect(t, s).owner = [s.owner EXCEPT ![t.item] = Norm[t.to]]
      /\ Effect(t, s).assets = Reindexed(t, s)
  BY <1>3 DEF DerivedState
<1>5. s.assets \in [Addr -> SUBSET Item]
  BY DEF DerivedState
<1> DEFINE f == Norm[t.from]
           g == Norm[t.to]
           i == t.item
           index == s.assets
<1>6. f \in Addr /\ g \in Addr /\ i \in Item /\ index \in [Addr -> SUBSET Item]
  BY <1>1, <1>5
<1>7. CASE s.owner[i] = Unowned
  <2>1. Reindexed(t, s) = [index EXCEPT ![g] = @ \cup {i}]
    BY <1>7 DEF Reindexed
  <2> HIDE DEF f, g, i, index
  <2>2. /\ Reindexed(t, s) \in [Addr -> SUBSET Item]
        /\ \A x \in Addr : Reindexed(t, s)[x] = IF x = g THEN index[x] \cup {i} ELSE index[x]
    BY <2>1, <1>6
  <2>3. QED
    BY <2>2, <1>1, <1>4, <1>7 DEF f, g, i, index
<1>8. CASE s.owner[i] # Unowned
  <2>1. Reindexed(t, s) = [[index EXCEPT ![f] = @ \ {i}] EXCEPT ![g] = @ \cup {i}]
    BY <1>8 DEF Reindexed
  <2> HIDE DEF f, g, i, index
  <2>2. Reindexed(t, s) \in [Addr -> SUBSET Item]
    BY <2>1, <1>6
  <2>3. \A x \in Addr : Reindexed(t, s)[x] =
          IF x = g THEN index[x] \cup {i}
          ELSE IF x = f THEN index[x] \ {i} ELSE index[x]
    BY <2>1, <1>6
  <2>4. QED
    BY <2>2, <2>3, <1>1, <1>4, <1>8 DEF f, g, i, index
<1>9. QED
  BY <1>7, <1>8

\* The three ways a transaction can apply, which exclude one another.
LEMMA AppliesCases ==
  ASSUME NEW s, NEW t, Applies(t, s)
  PROVE  \/ IsReward(t) /\ RewardApplies(t)
         \/ t.kind = "CURRENCY" /\ ~IsReward(t) /\ PaymentApplies(t, s)
         \/ t.kind = "ASSET" /\ AssetApplies(t, s)
BY DEF Applies

\* Applying a transaction yields a derived state again.
LEMMA EffectType ==
  ASSUME NEW s \in DerivedState, NEW t \in Txn, Applies(t, s)
  PROVE  Effect(t, s) \in DerivedState /\ Effect(t, s).ok = s.ok
<1>1. CASE IsReward(t) /\ RewardApplies(t)
  <2>1. Effect(t, s) = [s EXCEPT !.bal = Credit(s.bal, Norm[t.to], t.amount)]
    BY <1>1 DEF Effect, IsReward
  <2>2. Effect(t, s) = [ok |-> s.ok, bal |-> Effect(t, s).bal,
                        owner |-> s.owner, assets |-> s.assets]
    BY <2>1 DEF DerivedState
  <2>3. QED
    BY <1>1, <2>2, RewardEffect DEF DerivedState
<1>2. CASE t.kind = "CURRENCY" /\ ~IsReward(t) /\ PaymentApplies(t, s)
  <2>1. Effect(t, s) = [s EXCEPT !.bal = Credit(Debited(t, s), Norm[t.to], t.amount)]
    BY <1>2 DEF Effect
  <2>2. Effect(t, s) = [ok |-> s.ok, bal |-> Effect(t, s).bal,
                        owner |-> s.owner, assets |-> s.assets]
    BY <2>1 DEF DerivedState
  <2>3. QED
    BY <1>2, <2>2, PaymentEffect DEF DerivedState
<1>3. CASE t.kind = "ASSET" /\ AssetApplies(t, s)
  <2>1. Effect(t, s) = [s EXCEPT !.owner[t.item] = Norm[t.to], !.assets = Reindexed(t, s)]
    BY <1>3 DEF Effect, IsReward
  <2>2. Effect(t, s) = [ok |-> s.ok, bal |-> s.bal,
                        owner |-> [s.owner EXCEPT ![t.item] = Norm[t.to]],
                        assets |-> Reindexed(t, s)]
    BY <2>1 DEF DerivedState
  <2>3. [s.owner EXCEPT ![t.item] = Norm[t.to]] \in [Item -> Addr \cup {Unowned}]
    BY <1>3, AssetEffect DEF DerivedState
  <2>4. QED
    BY <1>3, <2>2, <2>3, AssetEffect DEF DerivedState
<1>4. QED
  BY <1>1, <1>2, <1>3, AppliesCases

-----------------------------------------------------------------------------
(* The state of a chain, transaction by transaction and block by block.      *)

\* One step of each of the folds over transactions and blocks: a transaction
\* applied, a whole block applied, what account a has pending to pay counted,
\* a pending transfer followed.
Advance(s, x, unit, a) ==
  IF unit = "block" THEN ApplyBody(s, x.txns)
  ELSE IF unit = "txn" THEN Step(s, x)
  ELSE IF unit = "outflow" THEN s + Outflow(x, a)
  ELSE IF x.kind = "ASSET" /\ s[x.item] # Unowned /\ s[x.item] = Norm[x.from]
         THEN [s EXCEPT ![x.item] = Norm[x.to]] ELSE s

\* The function that a fold over the sets of indices in D is chosen as.
AdvanceIter(g, base, list, unit, a, D) ==
  g = [s \in SUBSET D |-> IF s = {} THEN base
                          ELSE Advance(g[s \ {Max(s)}], list[Max(s)], unit, a)]

\* There is such a function, whatever the values (Lists has the same fact for
\* folds whose values are in a set).
LEMMA AdvanceExists ==
  ASSUME NEW base, NEW list, NEW unit, NEW a, NEW n \in Nat
  PROVE  \E g : AdvanceIter(g, base, list, unit, a, 1..n)
<1> DEFINE T == {k \in Nat : \E g : AdvanceIter(g, base, list, unit, a, 1..k)}
<1>1. 0 \in T
  <2> DEFINE g == [s \in SUBSET (1..0) |-> base]
  <2>1. 1..0 = {} /\ SUBSET (1..0) = {{}}
    OBVIOUS
  <2>2. AdvanceIter(g, base, list, unit, a, 1..0)
    BY <2>1 DEF AdvanceIter
  <2> HIDE DEF g
  <2>3. QED
    BY <2>2
<1>2. ASSUME NEW k \in T PROVE k + 1 \in T
  <2>1. PICK h : AdvanceIter(h, base, list, unit, a, 1..k)
    OBVIOUS
  <2> DEFINE D == 1..(k + 1)
             x == list[k + 1]
             g == [s \in SUBSET D |-> IF k + 1 \in s THEN Advance(h[s \ {k + 1}], x, unit, a)
                                      ELSE h[s]]
  <2>2. k \in Nat
    OBVIOUS
  <2>3. ASSUME NEW s \in SUBSET D
        PROVE  g[s] = IF s = {} THEN base
                      ELSE Advance(g[s \ {Max(s)}], list[Max(s)], unit, a)
    <3>1. CASE k + 1 \in s
      <4>1. Max(s) = k + 1
        BY <2>2, <3>1, MaxOfSet
      <4>2. s \ {k + 1} \in SUBSET D /\ k + 1 \notin s \ {k + 1}
        BY <2>2
      <4>3. g[s \ {k + 1}] = h[s \ {k + 1}]
        BY <4>2
      <4>4. g[s] = Advance(h[s \ {k + 1}], x, unit, a)
        BY <3>1
      <4> HIDE DEF g
      <4>5. QED
        BY <3>1, <4>1, <4>3, <4>4
    <3>2. CASE k + 1 \notin s
      <4>1. s \in SUBSET (1..k) /\ g[s] = h[s]
        BY <2>2, <3>2
      <4>2. h[s] = IF s = {} THEN base
                   ELSE Advance(h[s \ {Max(s)}], list[Max(s)], unit, a)
        BY <2>1, <4>1, Zenon DEF AdvanceIter
      <4>3. s \ {Max(s)} \in SUBSET D /\ k + 1 \notin s \ {Max(s)}
        BY <3>2
      <4>4. g[s \ {Max(s)}] = h[s \ {Max(s)}]
        BY <4>3
      <4> HIDE DEF g
      <4>5. QED
        BY <4>1, <4>2, <4>4
    <3>3. QED
      BY <3>1, <3>2
  <2>4. g = [s \in SUBSET D |-> g[s]]
    OBVIOUS
  <2> HIDE DEF g
  <2>5. AdvanceIter(g, base, list, unit, a, D)
    BY <2>3, <2>4 DEF AdvanceIter
  <2>6. QED
    BY <2>2, <2>5
<1>3. T \in SUBSET Nat
  OBVIOUS
<1> HIDE DEF T
<1>4. T = Nat
  BY <1>1, <1>2, <1>3, SetInduction
<1>5. QED
  BY <1>4 DEF T

\* acc[k] is the value after the first k elements of the list.
Advancing(acc, base, list, unit, a) ==
  /\ acc[0] = base
  /\ \A k \in 1..Len(list) : acc[k] = Advance(acc[k - 1], list[k], unit, a)

\* v is what the list makes of base.
FoldsTo(v, base, list, unit, a) ==
  \E acc : Advancing(acc, base, list, unit, a) /\ v = acc[Len(list)]

\* The chosen function, read along the list.
LEMMA IterFolds ==
  ASSUME NEW base, NEW list, IsList(list), NEW unit, NEW a,
         NEW g, AdvanceIter(g, base, list, unit, a, 1..Len(list))
  PROVE  FoldsTo(g[1..Len(list)], base, list, unit, a)
<1> DEFINE n == Len(list)
           acc == [k \in 0..n |-> g[1..k]]
<1>1. n \in Nat /\ 1..0 = {} /\ {} \in SUBSET (1..n)
  BY DEF IsList
<1>2. acc[0] = base
  <2>1. g[{}] = base
    BY <1>1, Zenon DEF AdvanceIter
  <2>2. QED
    BY <1>1, <2>1
<1>3. ASSUME NEW k \in 1..n PROVE acc[k] = Advance(acc[k - 1], list[k], unit, a)
  <2>1. Max(1..k) = k /\ 1..k \in SUBSET (1..n) /\ 1..k # {} /\ (1..k) \ {k} = 1..(k - 1)
    BY <1>1, IndexSets
  <2>2. g[1..k] = Advance(g[(1..k) \ {Max(1..k)}], list[Max(1..k)], unit, a)
    BY <2>1, Zenon DEF AdvanceIter
  <2>3. acc[k] = g[1..k] /\ acc[k - 1] = g[1..(k - 1)]
    BY <1>1
  <2> HIDE DEF acc
  <2>4. QED
    BY <2>1, <2>2, <2>3
<1>4. g[1..n] = acc[n]
  BY <1>1
<1> HIDE DEF acc
<1>5. QED
  BY <1>2, <1>3, <1>4 DEF Advancing, FoldsTo

\* Applying a body, one transaction after the other.
LEMMA BodyFold ==
  ASSUME NEW s, NEW list, IsList(list)
  PROVE  FoldsTo(ApplyBody(s, list), s, list, "txn", NoAddr)
<1> DEFINE g == CHOOSE h : AdvanceIter(h, s, list, "txn", NoAddr, 1..Len(list))
<1>1. Len(list) \in Nat /\ DOMAIN list = 1..Len(list) /\ IsList(list)
  BY DEF IsList
<1>2. AdvanceIter(g, s, list, "txn", NoAddr, 1..Len(list))
  BY <1>1, AdvanceExists
<1>3. ApplyBody(s, list) = g[1..Len(list)]
  BY <1>1 DEF ApplyBody, FoldLeft, MapThenFoldSet, AdvanceIter, Advance
<1> HIDE DEF g
<1>4. QED
  BY <1>1, <1>2, <1>3, IterFolds

\* Deriving the state of a chain, one block after the other.
LEMMA DeriveFold ==
  ASSUME NEW c, IsList(Tail(c))
  PROVE  FoldsTo(Derive(c), Fresh, Tail(c), "block", NoAddr)
<1> DEFINE list == Tail(c)
           g == CHOOSE h : AdvanceIter(h, Fresh, list, "block", NoAddr, 1..Len(list))
<1>1. Len(list) \in Nat /\ DOMAIN list = 1..Len(list) /\ IsList(list)
  BY DEF IsList
<1>2. AdvanceIter(g, Fresh, list, "block", NoAddr, 1..Len(list))
  BY <1>1, AdvanceExists
<1>3. Derive(c) = g[1..Len(list)]
  BY <1>1 DEF Derive, FoldLeft, MapThenFoldSet, AdvanceIter, Advance
<1> HIDE DEF g, list
<1>4. QED
  BY <1>1, <1>2, <1>3, IterFolds DEF list

\* Counting what an account has pending to pay.
LEMMA OutflowFold ==
  ASSUME NEW a, NEW list, IsList(list)
  PROVE  FoldsTo(PendingOutflow(list, a), 0, list, "outflow", a)
<1> DEFINE g == CHOOSE h : AdvanceIter(h, 0, list, "outflow", a, 1..Len(list))
<1>1. Len(list) \in Nat /\ DOMAIN list = 1..Len(list) /\ IsList(list)
  BY DEF IsList
<1>2. AdvanceIter(g, 0, list, "outflow", a, 1..Len(list))
  BY <1>1, AdvanceExists
<1>3. PendingOutflow(list, a) = g[1..Len(list)]
  BY <1>1 DEF PendingOutflow, FoldLeft, MapThenFoldSet, AdvanceIter, Advance
<1> HIDE DEF g
<1>4. QED
  BY <1>1, <1>2, <1>3, IterFolds

\* Following the pending transfers.
LEMMA OwnerFold ==
  ASSUME NEW owner, NEW list, IsList(list)
  PROVE  FoldsTo(EffectiveOwner(owner, list), owner, list, "owner", NoAddr)
<1> DEFINE g == CHOOSE h : AdvanceIter(h, owner, list, "owner", NoAddr, 1..Len(list))
<1>1. Len(list) \in Nat /\ DOMAIN list = 1..Len(list) /\ IsList(list)
  BY DEF IsList
<1>2. AdvanceIter(g, owner, list, "owner", NoAddr, 1..Len(list))
  BY <1>1, AdvanceExists
<1>3. EffectiveOwner(owner, list) = g[1..Len(list)]
  BY <1>1 DEF EffectiveOwner, FoldLeft, MapThenFoldSet, AdvanceIter, Advance
<1> HIDE DEF g
<1>4. QED
  BY <1>1, <1>2, <1>3, IterFolds

\* A fold stays in a set that its steps do not leave.
LEMMA FoldStaysIn ==
  ASSUME NEW v, NEW base, NEW list, NEW unit, NEW a, NEW V, IsList(list),
         FoldsTo(v, base, list, unit, a), base \in V,
         \A s \in V, i \in 1..Len(list) : Advance(s, list[i], unit, a) \in V
  PROVE  v \in V
<1> DEFINE n == Len(list)
<1>1. PICK acc : Advancing(acc, base, list, unit, a) /\ v = acc[n]
  BY DEF FoldsTo
<1> DEFINE T == {k \in Nat : k <= n => acc[k] \in V}
<1>2. n \in Nat
  BY DEF IsList
<1>3. T \in SUBSET Nat /\ 0 \in T
  BY <1>1 DEF Advancing
<1>4. ASSUME NEW k \in T PROVE k + 1 \in T
  <2> SUFFICES ASSUME k + 1 <= n PROVE acc[k + 1] \in V
    BY <1>4
  <2> DEFINE p == k + 1
  <2>1. k \in Nat /\ p \in 1..n /\ p - 1 = k /\ acc[k] \in V
    BY <1>2
  <2> HIDE DEF p
  <2>2. acc[p] = Advance(acc[p - 1], list[p], unit, a)
    BY <1>1, <2>1 DEF Advancing
  <2>3. QED
    BY <2>1, <2>2 DEF p
<1>5. T = Nat
  <2> HIDE DEF T
  <2>1. QED
    BY <1>3, <1>4, SetInduction
<1>6. QED
  BY <1>1, <1>2, <1>5

\* The same fold over a list and over the list with one element more: the
\* second is one step further.
LEMMA FoldAppend ==
  ASSUME NEW v, NEW w, NEW base, NEW list, NEW x, NEW unit, NEW a, IsList(list),
         FoldsTo(v, base, list, unit, a), FoldsTo(w, base, Append(list, x), unit, a)
  PROVE  w = Advance(v, x, unit, a)
<1> DEFINE n == Len(list)
           more == Append(list, x)
<1>1. /\ n \in Nat /\ Len(more) = n + 1
      /\ \A i \in 1..n : more[i] = list[i]
      /\ more[n + 1] = x
  BY AppendList
<1>2. PICK acc : Advancing(acc, base, list, unit, a) /\ v = acc[n]
  BY DEF FoldsTo
<1>3. PICK nxt : Advancing(nxt, base, more, unit, a) /\ w = nxt[Len(more)]
  BY DEF FoldsTo
<1> HIDE DEF more
<1>4. acc[0] = base /\ \A k \in 1..n : acc[k] = Advance(acc[k - 1], list[k], unit, a)
  BY <1>2 DEF Advancing
<1>5. nxt[0] = base /\ \A k \in 1..(n + 1) : nxt[k] = Advance(nxt[k - 1], more[k], unit, a)
  BY <1>1, <1>3 DEF Advancing
<1> DEFINE T == {k \in Nat : k <= n => nxt[k] = acc[k]}
<1> HIDE DEF n
<1>6. T \in SUBSET Nat /\ 0 \in T
  BY <1>4, <1>5
<1>7. ASSUME NEW k \in T PROVE k + 1 \in T
  <2> SUFFICES ASSUME k + 1 <= n PROVE nxt[k + 1] = acc[k + 1]
    BY <1>7
  <2> DEFINE p == k + 1
  <2>1. k \in Nat /\ p \in 1..n /\ p \in 1..(n + 1) /\ p - 1 = k /\ nxt[k] = acc[k]
    BY <1>1
  <2> HIDE DEF p
  <2>2. more[p] = list[p]
    BY <1>1, <2>1
  <2>3. acc[p] = Advance(acc[p - 1], list[p], unit, a)
    BY <1>4, <2>1
  <2>4. nxt[p] = Advance(nxt[p - 1], more[p], unit, a)
    BY <1>5, <2>1
  <2>5. QED
    BY <2>1, <2>2, <2>3, <2>4 DEF p
<1>8. T = Nat
  <2> HIDE DEF T
  <2>1. QED
    BY <1>6, <1>7, SetInduction
<1>9. nxt[n] = acc[n]
  BY <1>1, <1>8
<1> DEFINE p == n + 1
<1>10. p \in 1..(n + 1) /\ p - 1 = n /\ more[p] = x /\ Len(more) = p
  BY <1>1
<1> HIDE DEF p
<1>11. nxt[p] = Advance(nxt[p - 1], more[p], unit, a)
  BY <1>5, <1>10
<1>12. QED
  BY <1>2, <1>3, <1>9, <1>10, <1>11

-----------------------------------------------------------------------------
(* The derived state is well typed, and a derivation that has failed stays   *)
(* failed.                                                                   *)

\* One transaction.
LEMMA StepType ==
  ASSUME NEW s \in DerivedState, NEW t \in Txn
  PROVE  Step(s, t) \in DerivedState /\ (Step(s, t).ok => s.ok)
<1>1. CASE s.ok /\ Applies(t, s)
  BY <1>1, EffectType DEF Step
<1>2. CASE ~(s.ok /\ Applies(t, s))
  <2>1. Step(s, t) = [ok |-> FALSE, bal |-> s.bal, owner |-> s.owner, assets |-> s.assets]
    BY <1>2 DEF Step, DerivedState
  <2>2. QED
    BY <2>1 DEF DerivedState
<1>3. QED
  BY <1>1, <1>2

\* A body.
LEMMA BodyType ==
  ASSUME NEW s \in DerivedState, NEW body \in Seq(Txn)
  PROVE  ApplyBody(s, body) \in DerivedState /\ (ApplyBody(s, body).ok => s.ok)
<1> DEFINE V == {r \in DerivedState : r.ok => s.ok}
<1>1. IsList(body) /\ \A i \in 1..Len(body) : body[i] \in Txn
  BY SeqIsList
<1>2. \A r \in V, i \in 1..Len(body) : Advance(r, body[i], "txn", NoAddr) \in V
  BY <1>1, StepType DEF Advance
<1>3. s \in V
  OBVIOUS
<1> HIDE DEF V
<1>4. ApplyBody(s, body) \in V
  BY <1>1, <1>2, <1>3, BodyFold, FoldStaysIn
<1>5. QED
  BY <1>4 DEF V

\* The state of a process that has replayed nothing.
LEMMA FreshType == Fresh \in DerivedState /\ Fresh.ok
BY DEF Fresh, DerivedState

\* The bodies of a chain, without the genesis block's.
HasBodies(c) == IsList(Tail(c)) /\ \A i \in 1..Len(Tail(c)) : Tail(c)[i].txns \in Seq(Txn)

\* A chain.
LEMMA DeriveType ==
  ASSUME NEW c, HasBodies(c)
  PROVE  Derive(c) \in DerivedState
<1> DEFINE list == Tail(c)
<1>1. IsList(list) /\ \A i \in 1..Len(list) : list[i].txns \in Seq(Txn)
  BY DEF HasBodies
<1>2. \A s \in DerivedState, i \in 1..Len(list) : Advance(s, list[i], "block", NoAddr) \in DerivedState
  BY <1>1, BodyType DEF Advance
<1>3. FoldsTo(Derive(c), Fresh, list, "block", NoAddr)
  BY <1>1, DeriveFold
<1> HIDE DEF list
<1>4. QED
  BY <1>1, <1>2, <1>3, FreshType, FoldStaysIn

\* Applying a body with one transaction more.
LEMMA BodyAppend ==
  ASSUME NEW s, NEW body, IsList(body), NEW t
  PROVE  ApplyBody(s, Append(body, t)) = Step(ApplyBody(s, body), t)
<1>1. IsList(Append(body, t))
  BY AppendList
<1>2. ApplyBody(s, Append(body, t)) = Advance(ApplyBody(s, body), t, "txn", NoAddr)
  BY <1>1, BodyFold, FoldAppend
<1>3. QED
  BY <1>2 DEF Advance

\* The state after a block more is the state before it with the block's body
\* applied: validateBlockAppend computes what deriveFromChain will.
LEMMA DeriveAppend ==
  ASSUME NEW c, IsList(c), c # <<>>, NEW b
  PROVE  Derive(Append(c, b)) = ApplyBody(Derive(c), b.txns)
<1> DEFINE S == Range(c) \cup {b}
           list == Tail(c)
<1>1. list \in Seq(S) /\ Tail(Append(c, b)) = Append(list, b)
  <2>1. c \in Seq(S) /\ b \in S
    BY DEF IsList
  <2> HIDE DEF S
  <2>2. QED
    BY <2>1
<1>2. IsList(list) /\ IsList(Append(list, b))
  <2>1. IsList(list)
    BY <1>1, SeqIsList
  <2>2. QED
    BY <2>1, AppendList
<1>3. FoldsTo(Derive(c), Fresh, list, "block", NoAddr)
  BY <1>2, DeriveFold
<1>4. FoldsTo(Derive(Append(c, b)), Fresh, Append(list, b), "block", NoAddr)
  BY <1>1, <1>2, DeriveFold
<1> HIDE DEF S, list
<1>5. Derive(Append(c, b)) = Advance(Derive(c), b, "block", NoAddr)
  BY <1>2, <1>3, <1>4, FoldAppend
<1>6. QED
  BY <1>5 DEF Advance

\* A list of blocks has bodies.
LEMMA BlocksHaveBodies ==
  ASSUME NEW c, IsList(c), c # <<>>, \A i \in DOMAIN c : IsBlock(c[i])
  PROVE  HasBodies(c)
<1> DEFINE S == Range(c)
           list == Tail(c)
<1>1. /\ list \in Seq(S) /\ Len(list) = Len(c) - 1 /\ Len(c) \in Nat
      /\ DOMAIN c = 1..Len(c)
      /\ \A i \in 1..Len(list) : list[i] = c[i + 1]
  <2>1. c \in Seq(S)
    BY DEF IsList
  <2> HIDE DEF S
  <2>2. QED
    BY <2>1
<1>2. IsList(list)
  BY <1>1, SeqIsList
<1>3. ASSUME NEW i \in 1..Len(list) PROVE list[i].txns \in Seq(Txn)
  <2>1. i + 1 \in DOMAIN c /\ list[i] = c[i + 1]
    BY <1>1
  <2>2. QED
    BY <2>1 DEF IsBlock
<1>4. QED
  BY <1>2, <1>3 DEF HasBodies

\* validateBlockAppend accepts a block just when deriveFromChain will accept
\* the chain that the block makes: neither looser nor stricter.
THEOREM AppendValidIsDerivable ==
  ASSUME NEW c, IsList(c), c # <<>>, \A i \in DOMAIN c : IsBlock(c[i]),
         NEW b, IsBlock(b)
  PROVE  Derivable(Append(c, b)) <=> AppendValid(b, c)
<1> DEFINE d == Append(c, b)
           n == Len(c)
<1>1. /\ n \in Nat /\ Len(d) = n + 1 /\ d[n + 1] = b
      /\ \A i \in 1..n : d[i] = c[i]
  BY AppendList
<1>2. n >= 1 /\ d # <<>>
  BY <1>1 DEF IsList
<1>3. Derive(d) = ApplyBody(Derive(c), b.txns)
  BY DeriveAppend
<1>4. Derive(c) \in DerivedState
  BY BlocksHaveBodies, DeriveType
<1>5. b.txns \in Seq(Txn)
  BY DEF IsBlock
<1>6. ApplyBody(Derive(c), b.txns).ok => Derive(c).ok
  BY <1>4, <1>5, BodyType
<1> HIDE DEF d, n
<1>7. (\A i \in 2..Len(d) : Authentic(d[i].txns))
      <=> (\A i \in 2..n : Authentic(c[i].txns)) /\ Authentic(b.txns)
  <2>1. ASSUME \A i \in 2..(n + 1) : Authentic(d[i].txns), NEW i \in 2..n
        PROVE  Authentic(c[i].txns)
    <3>1. i \in 2..(n + 1) /\ d[i] = c[i]
      BY <1>1
    <3>2. QED
      BY <2>1, <3>1
  <2>2. ASSUME \A i \in 2..(n + 1) : Authentic(d[i].txns) PROVE Authentic(b.txns)
    <3>1. n + 1 \in 2..(n + 1)
      BY <1>1, <1>2
    <3>2. QED
      BY <1>1, <2>2, <3>1
  <2>3. ASSUME \A i \in 2..n : Authentic(c[i].txns), Authentic(b.txns), NEW i \in 2..(n + 1)
        PROVE  Authentic(d[i].txns)
    <3>1. CASE i = n + 1
      BY <1>1, <2>3, <3>1
    <3>2. CASE i # n + 1
      <4>1. i \in 2..n /\ d[i] = c[i]
        BY <1>1, <3>2
      <4>2. QED
        BY <2>3, <4>1
    <3>3. QED
      BY <3>1, <3>2
  <2>4. QED
    BY <1>1, <2>1, <2>2, <2>3
<1>8. Derivable(d) <=> AppendValid(b, c)
  BY <1>2, <1>3, <1>6, <1>7 DEF Derivable, AppendValid, n
<1>9. QED
  BY <1>8 DEF d

\* The first chain of a process derives.
LEMMA GenesisDerivable == Derivable(<<Genesis>>)
<1> DEFINE c == <<Genesis>>
<1>1. c # <<>> /\ Len(c) = 1 /\ Tail(c) = <<>> /\ <<>> \in Seq({}) /\ Len(<<>>) = 0
  OBVIOUS
<1>2. IsList(<<>>)
  BY <1>1, SeqIsList
<1> HIDE DEF c
<1>3. FoldsTo(Derive(c), Fresh, <<>>, "block", NoAddr)
  BY <1>1, <1>2, DeriveFold
<1>4. Derive(c) = Fresh
  BY <1>1, <1>3 DEF FoldsTo, Advancing
<1>5. Derivable(c)
  BY <1>1, <1>4 DEF Derivable, Fresh
<1>6. QED
  BY <1>5 DEF c
=============================================================================
