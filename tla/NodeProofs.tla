----------------------------- MODULE NodeProofs -----------------------------
(***************************************************************************)
(* Proofs about a node with any number of workers, transactions, peers'    *)
(* blocks and peers' chains.  What an append or a replacement does to the  *)
(* chain comes from BlockchainProofs; the theorems follow every worker     *)
(* action.                                                                 *)
(***************************************************************************)
EXTENDS Node, BlockchainProofs

-----------------------------------------------------------------------------
(* Type correctness and links, through every action of the workers. *)

TypedAndLinked == TypeOK /\ ChainLinked

\* TxnPool::getTxn lists transactions of the pool.
LEMMA ListingIsSeq ==
  ASSUME pool \subseteq Txn, IsFiniteSet(pool), NEW s \in Listings(pool)
  PROVE  s \in Seq(Txn)
<1>1. Cardinality(pool) \in Nat
  BY FS_CardinalityType
<1>2. s \in [1..Cardinality(pool) -> Txn]
  BY DEF Listings
<1>3. QED
  BY <1>1, <1>2

\* A job is a job wherever it is sent, and the other workers keep theirs.
LEMMA GotoType ==
  ASSUME job \in [Worker -> Job], NEW w \in Worker, NEW j \in Job, Goto(w, j)
  PROVE  job' \in [Worker -> Job] /\ job'[w] = j
         /\ \A v \in Worker \ {w} : job'[v] = job[v]
BY DEF Goto

\* A worker that has purged, or has nothing to purge, is idle.
LEMMA PurgingType ==
  ASSUME NEW s \in Seq(Txn)
  PROVE  Purging(s) \in Job /\ Purging(s).at \in {"idle", "purge"}
<1>1. CASE s = <<>>
  BY <1>1 DEF Purging, Idle, Job
<1>2. CASE s # <<>>
  <2>1. Purging(s) = [at |-> "purge", rest |-> s]
    BY <1>2 DEF Purging
  <2>2. [at |-> "purge", rest |-> s] \in [at : {"purge"}, rest : Seq(Txn) \ {<<>>}]
    BY <1>2
  <2>3. QED
    BY <2>1, <2>2 DEF Job
<1>3. QED
  BY <1>1, <1>2

\* The fields a job has, by the place it is at.
LEMMA JobFields ==
  ASSUME NEW j \in Job
  PROVE  /\ j.at = "admit" => j.txn \in Txn /\ j.seen \in Seq(Txn)
         /\ j.at \in {"verify", "insert"} => j.txn \in Txn
         /\ j.at = "select" => j.to \in Miner /\ j.rest \in Seq(Txn) /\ j.kept \in Seq(Txn)
         /\ j.at = "append" => j.block \in PeerBlock
         /\ j.at = "purge" => j.rest \in Seq(Txn) /\ j.rest # <<>>
BY DEF Job, Idle

\* Removing an id from the pool, and storing a transaction.
LEMMA PoolUpdate ==
  ASSUME pool \subseteq Txn, IsFiniteSet(pool), NEW id, NEW t \in Txn
  PROVE  /\ pool \ Keyed(pool, id) \subseteq Txn
         /\ IsFiniteSet(pool \ Keyed(pool, id))
         /\ (pool \ Keyed(pool, id)) \cup {t} \subseteq Txn
         /\ IsFiniteSet((pool \ Keyed(pool, id)) \cup {t})
<1>1. IsFiniteSet(pool \ Keyed(pool, id))
  BY FS_Subset
<1>2. IsFiniteSet((pool \ Keyed(pool, id)) \cup {t})
  BY <1>1, FS_AddElement
<1>3. QED
  BY <1>1, <1>2

\* A chain that does not change stays what it is.
LEMMA SameChain ==
  ASSUME ChainTypeOK, ChainLinked, UNCHANGED chain
  PROVE  ChainTypeOK' /\ ChainLinked'
BY DEF ChainTypeOK, ChainLinked, IsBlock, IsList, Genesis, Hash

-----------------------------------------------------------------------------
\* The inductive step, one action at a time.
LEMMA TypedAndLinkedStep == TypedAndLinked /\ [Next]_vars => TypedAndLinked'
<1> SUFFICES ASSUME TypedAndLinked, [Next]_vars PROVE TypedAndLinked'
  OBVIOUS
<1> USE DEF TypedAndLinked, TypeOK
<1>1. ASSUME UNCHANGED <<chain, pool>>, NEW w \in Worker, NEW j \in Job, Goto(w, j)
      PROVE  TypedAndLinked'
  BY <1>1, SameChain, GotoType
<1>2. ASSUME NEW w \in Worker, NEW t \in Txn, ReceiveTxn(w, t) PROVE TypedAndLinked'
  <2>1. PICK s \in Listings(pool) : Goto(w, [at |-> "admit", txn |-> t, seen |-> s])
    BY <1>2 DEF ReceiveTxn
  <2>2. [at |-> "admit", txn |-> t, seen |-> s] \in Job
    BY ListingIsSeq DEF Job
  <2>3. QED
    BY <1>1, <1>2, <2>1, <2>2 DEF ReceiveTxn
<1>3. ASSUME NEW w \in Worker, Admit(w) PROVE TypedAndLinked'
  <2>1. job[w].txn \in Txn
    BY <1>3, JobFields DEF Admit
  <2>2. [at |-> "verify", txn |-> job[w].txn] \in Job /\ Idle \in Job
    BY <2>1 DEF Job
  <2>3. QED
    BY <1>1, <1>3, <2>2 DEF Admit
<1>4. ASSUME NEW w \in Worker, LookUp(w) PROVE TypedAndLinked'
  <2>1. job[w].txn \in Txn
    BY <1>4, JobFields DEF LookUp
  <2>2. [at |-> "insert", txn |-> job[w].txn] \in Job /\ Idle \in Job
    BY <2>1 DEF Job
  <2>3. QED
    BY <1>1, <1>4, <2>2 DEF LookUp
<1>5. ASSUME NEW w \in Worker, Insert(w) PROVE TypedAndLinked'
  <2>1. job[w].txn \in Txn
    BY <1>5, JobFields DEF Insert
  <2>2. pool' \subseteq Txn /\ IsFiniteSet(pool')
    BY <1>5, <2>1, PoolUpdate DEF Insert
  <2>3. Idle \in Job
    BY DEF Job
  <2>4. job' \in [Worker -> Job]
    BY <1>5, <2>3, GotoType DEF Insert
  <2>5. QED
    BY <1>5, <2>2, <2>4, SameChain DEF Insert
<1>6. ASSUME NEW w \in Worker, NEW m \in Miner, StartMine(w, m) PROVE TypedAndLinked'
  <2>1. PICK s \in Listings(pool) :
          Goto(w, [at |-> "select", to |-> m, rest |-> s, kept |-> <<>>])
    BY <1>6 DEF StartMine
  <2>2. [at |-> "select", to |-> m, rest |-> s, kept |-> <<>>] \in Job
    BY ListingIsSeq DEF Job
  <2>3. QED
    BY <1>1, <1>6, <2>1, <2>2 DEF StartMine
<1>7. ASSUME NEW w \in Worker, Select(w) PROVE TypedAndLinked'
  <2> DEFINE t == Head(job[w].rest)
             kept == IF PoolAdmission(t, chain, job[w].kept)
                       THEN Append(job[w].kept, t) ELSE job[w].kept
  <2>1. /\ job[w].to \in Miner /\ job[w].rest \in Seq(Txn) /\ job[w].kept \in Seq(Txn)
        /\ job[w].rest # <<>>
    BY <1>7, JobFields DEF Select
  <2>2. t \in Txn /\ Tail(job[w].rest) \in Seq(Txn)
    BY <2>1
  <2>3. kept \in Seq(Txn)
    BY <2>1, <2>2
  <2>4. Goto(w, [at |-> "select", to |-> job[w].to,
                 rest |-> Tail(job[w].rest), kept |-> kept])
    BY <1>7 DEF Select
  <2> HIDE DEF t, kept
  <2>5. [at |-> "select", to |-> job[w].to,
         rest |-> Tail(job[w].rest), kept |-> kept] \in Job
    BY <2>1, <2>2, <2>3 DEF Job
  <2>6. QED
    BY <1>1, <1>7, <2>4, <2>5 DEF Select
<1>8. ASSUME NEW w \in Worker, Mine(w) PROVE TypedAndLinked'
  <2>1. job[w].to \in Miner /\ job[w].kept \in Seq(Txn)
    BY <1>8, JobFields DEF Mine
  <2>2. <<RewardTxn(job[w].to)>> \o job[w].kept \in Seq(Txn)
    BY <2>1, NodeAssumption
  <2>3. ChainTypeOK' /\ ChainLinked'
    BY <1>8, <2>2, AppendMinedKeepsLinks DEF Mine
  <2>4. Idle \in Job /\ Purging(job[w].kept) \in Job
    BY <2>1, PurgingType DEF Job
  <2>5. job' \in [Worker -> Job]
    BY <1>8, <2>4, GotoType DEF Mine
  <2>6. QED
    BY <1>8, <2>3, <2>5 DEF Mine
<1>9. ASSUME NEW w \in Worker, Purge(w) PROVE TypedAndLinked'
  <2>1. job[w].rest \in Seq(Txn) /\ job[w].rest # <<>>
    BY <1>9, JobFields DEF Purge
  <2>2. pool' \subseteq Txn /\ IsFiniteSet(pool')
    BY <1>9, FS_Subset DEF Purge
  <2>3. Purging(Tail(job[w].rest)) \in Job
    <3>1. Tail(job[w].rest) \in Seq(Txn)
      BY <2>1
    <3>2. QED
      BY <3>1, PurgingType, Zenon
  <2>4. job' \in [Worker -> Job]
    BY <1>9, <2>3, GotoType DEF Purge
  <2>5. QED
    BY <1>9, <2>2, <2>4, SameChain DEF Purge
<1>10. ASSUME NEW w \in Worker, NEW b \in PeerBlock, CheckBlock(w, b)
       PROVE  TypedAndLinked'
  <2>1. [at |-> "append", block |-> b] \in Job
    BY DEF Job
  <2>2. QED
    BY <1>1, <1>10, <2>1 DEF CheckBlock
<1>11. ASSUME NEW w \in Worker, AddBlock(w) PROVE TypedAndLinked'
  <2>1. job[w].block \in PeerBlock
    BY <1>11, JobFields DEF AddBlock
  <2>2. ChainTypeOK' /\ ChainLinked'
    BY <1>11, <2>1, AppendReceivedKeepsLinks DEF AddBlock
  <2>3. Idle \in Job /\ Purging(job[w].block.txns) \in Job
    BY <2>1, PeerAssumption, PurgingType DEF Job, IsBlock
  <2>4. job' \in [Worker -> Job]
    BY <1>11, <2>3, GotoType DEF AddBlock
  <2>5. QED
    BY <1>11, <2>2, <2>4 DEF AddBlock
<1>12. ASSUME NEW w \in Worker, NEW c \in PeerChain, AdoptChain(w, c)
       PROVE  TypedAndLinked'
  BY <1>12, ReceiveChainKeepsLinks DEF AdoptChain
<1>13. ASSUME Restart PROVE TypedAndLinked'
  <2>1. ChainTypeOK' /\ ChainLinked'
    <3>1. IsList(<<Genesis>>) /\ Len(<<Genesis>>) = 1 /\ <<Genesis>>[1] = Genesis
          /\ DOMAIN <<Genesis>> = {1}
      <4>1. <<Genesis>> \in Seq({Genesis})
        OBVIOUS
      <4>2. IsList(<<Genesis>>)
        BY <4>1, SeqIsList
      <4>3. QED
        BY <4>2
    <3>2. chain' = <<Genesis>> /\ Genesis' = Genesis
      BY <1>13 DEF Restart, Genesis, Hash
    <3>3. QED
      BY <3>1, <3>2, GenesisIsBlock DEF ChainTypeOK, ChainLinked, IsList, IsBlock
  <2>2. pool' \subseteq Txn /\ IsFiniteSet(pool')
    BY <1>13, FS_EmptySet DEF Restart
  <2>3. job' \in [Worker -> Job]
    BY <1>13 DEF Restart, Job
  <2>4. QED
    BY <2>1, <2>2, <2>3
<1>14. CASE UNCHANGED vars
  BY <1>14, SameChain DEF vars
<1>15. QED
  BY <1>2, <1>3, <1>4, <1>5, <1>6, <1>7, <1>8, <1>9, <1>10, <1>11, <1>12, <1>13, <1>14
     DEF Next, WorkerStep

\* The initial state.
LEMMA TypedAndLinkedInit == Init => TypedAndLinked
<1> SUFFICES ASSUME Init PROVE TypedAndLinked
  OBVIOUS
<1>1. ChainTypeOK /\ ChainLinked
  BY GenesisChain DEF Init, ChainInit
<1>2. pool \subseteq Txn /\ IsFiniteSet(pool)
  BY FS_EmptySet DEF Init
<1>3. job \in [Worker -> Job]
  BY DEF Init, Job
<1>4. QED
  BY <1>1, <1>2, <1>3 DEF TypedAndLinked, TypeOK

\* Type correctness of the node.
THEOREM TypeCorrect == Spec => []TypeOK
<1>1. TypedAndLinked => TypeOK
  BY DEF TypedAndLinked
<1>2. QED
  BY <1>1, TypedAndLinkedInit, TypedAndLinkedStep, PTL DEF Spec

\* The chain of a node is linked whatever its workers and its peers do.
THEOREM AlwaysLinked == Spec => []ChainLinked
<1>1. TypedAndLinked => ChainLinked
  BY DEF TypedAndLinked
<1>2. QED
  BY <1>1, TypedAndLinkedInit, TypedAndLinkedStep, PTL DEF Spec

-----------------------------------------------------------------------------
(* Authenticity of the chain.  What a mined block holds was checked when    *)
(* the miner selected it, so the selections in progress join the invariant. *)
(* The pool's own contents need not: the miner verifies them again.         *)

KeptAuthentic ==
  \A w \in Worker : job[w].at = "select" =>
    \A k \in 1..Len(job[w].kept) :
      Verified(job[w].kept[k]) /\ job[w].kept[k].from # Coinbase

AuthenticInv == ChainAuthentic /\ KeptAuthentic

\* The elements of a sequence with one element put before it.
LEMMA PrefixElements ==
  ASSUME NEW S, NEW e \in S, NEW s \in Seq(S)
  PROVE  /\ Len(s) \in Nat
         /\ DOMAIN (<<e>> \o s) = 1..(Len(s) + 1)
         /\ (<<e>> \o s)[1] = e
         /\ \A k \in 2..(Len(s) + 1) : (<<e>> \o s)[k] = s[k - 1]
<1> DEFINE r == <<e>>
           c == r \o s
<1>1. r \in Seq(S) /\ Len(r) = 1 /\ r[1] = e /\ Len(s) \in Nat
  OBVIOUS
<1> HIDE DEF r
<1>2. c \in Seq(S) /\ Len(c) = Len(r) + Len(s)
  BY <1>1, ConcatProperties, Zenon
<1>3. \A k \in 1..(Len(r) + Len(s)) : c[k] = IF k <= Len(r) THEN r[k] ELSE s[k - Len(r)]
  BY <1>1, ConcatProperties, Zenon
<1> HIDE DEF c
<1>4. DOMAIN c = 1..(Len(s) + 1)
  BY <1>1, <1>2
<1>5. c[1] = e
  BY <1>1, <1>3
<1>6. \A k \in 2..(Len(s) + 1) : c[k] = s[k - 1]
  BY <1>1, <1>3
<1>7. QED
  BY <1>1, <1>4, <1>5, <1>6, Zenon DEF c, r

\* A reward followed by verified transactions that are no rewards.
LEMMA MinedBodyAuthentic ==
  ASSUME NEW m \in Miner, NEW kept \in Seq(Txn),
         \A k \in 1..Len(kept) : Verified(kept[k]) /\ kept[k].from # Coinbase
  PROVE  Authentic(<<RewardTxn(m)>> \o kept)
<1> DEFINE body == <<RewardTxn(m)>> \o kept
<1>1. /\ DOMAIN body = 1..(Len(kept) + 1) /\ Len(kept) \in Nat
      /\ body[1] = RewardTxn(m)
      /\ \A k \in 2..(Len(kept) + 1) : body[k] = kept[k - 1]
  <2>1. RewardTxn(m) \in Txn
    BY NodeAssumption
  <2> DEFINE e == RewardTxn(m)
  <2>2. e \in Txn
    BY <2>1
  <2> HIDE DEF e
  <2>3. /\ Len(kept) \in Nat
        /\ DOMAIN (<<e>> \o kept) = 1..(Len(kept) + 1)
        /\ (<<e>> \o kept)[1] = e
        /\ \A k \in 2..(Len(kept) + 1) : (<<e>> \o kept)[k] = kept[k - 1]
    BY <2>2, PrefixElements
  <2>4. QED
    BY <2>3 DEF e
<1>2. Verified(RewardTxn(m))
  <2>1. Reward > 0 /\ RewardId # NoId /\ m # NoRaw
    BY NodeAssumption, AmountAssumption
  <2>2. /\ RewardTxn(m).id = RewardId /\ RewardTxn(m).from = Coinbase
        /\ RewardTxn(m).kind = "CURRENCY" /\ RewardTxn(m).to = m
        /\ RewardTxn(m).amount = Reward
    BY DEF RewardTxn
  <2>3. QED
    BY <2>1, <2>2 DEF Verified
<1>3. ASSUME NEW k \in 2..(Len(kept) + 1)
      PROVE  Verified(body[k]) /\ body[k].from # Coinbase
  <2>1. k - 1 \in 1..Len(kept) /\ body[k] = kept[k - 1]
    BY <1>1
  <2>2. QED
    BY <2>1
<1> HIDE DEF body
<1>4. ASSUME NEW k \in DOMAIN body PROVE k = 1 \/ k \in 2..(Len(kept) + 1)
  BY <1>1
<1>5. \A k \in DOMAIN body : Verified(body[k])
  BY <1>1, <1>2, <1>3, <1>4
<1>6. {k \in DOMAIN body : body[k].from = Coinbase} \subseteq {1}
  BY <1>3, <1>4
<1>7. Cardinality({k \in DOMAIN body : body[k].from = Coinbase}) <= 1
  <2>1. IsFiniteSet({1}) /\ Cardinality({1}) = 1
    BY FS_Singleton
  <2>2. QED
    BY <1>6, <2>1, FS_Subset
<1>8. QED
  BY <1>5, <1>7 DEF Authentic, Coinbases, body

\* Appending a block with an authentic body.
LEMMA AppendAuthentic ==
  ASSUME ChainTypeOK, ChainAuthentic, NEW b, Authentic(b.txns), chain' = Append(chain, b)
  PROVE  ChainAuthentic'
<1>1. /\ Len(chain) \in Nat /\ Len(chain') = Len(chain) + 1
      /\ \A i \in 1..Len(chain) : chain'[i] = chain[i]
      /\ chain'[Len(chain) + 1] = b
  BY AppendList DEF ChainTypeOK
<1>2. ASSUME NEW i \in 2..(Len(chain) + 1) PROVE Authentic(chain'[i].txns)
  <2>1. CASE i = Len(chain) + 1
    BY <1>1, <2>1
  <2>2. CASE i # Len(chain) + 1
    <3>1. i \in 2..Len(chain) /\ chain'[i] = chain[i]
      BY <1>1, <2>2
    <3>2. QED
      BY <3>1 DEF ChainAuthentic
  <2>3. QED
    BY <2>1, <2>2
<1>3. QED
  BY <1>1, <1>2 DEF ChainAuthentic, Authentic, Verified, Coinbases

\* The same chain.
LEMMA SameChainAuthentic ==
  ASSUME ChainAuthentic, UNCHANGED chain
  PROVE  ChainAuthentic'
BY DEF ChainAuthentic, Authentic, Verified, Coinbases

\* A worker that goes anywhere but into the miner's loop.
LEMMA GotoAuthentic ==
  ASSUME job \in [Worker -> Job], KeptAuthentic, NEW w \in Worker, NEW j,
         j.at # "select", Goto(w, j)
  PROVE  KeptAuthentic'
<1>1. /\ job'[w] = j /\ \A v \in Worker \ {w} : job'[v] = job[v]
  BY DEF Goto
<1>2. QED
  BY <1>1 DEF KeptAuthentic, Verified

\* The inductive step.
LEMMA AuthenticStep ==
  TypedAndLinked /\ AuthenticInv /\ [Next]_vars => AuthenticInv'
<1> SUFFICES ASSUME TypedAndLinked, AuthenticInv, [Next]_vars PROVE AuthenticInv'
  OBVIOUS
<1> USE DEF AuthenticInv
<1>0. job \in [Worker -> Job] /\ ChainTypeOK /\ ChainLinked
  BY DEF TypedAndLinked, TypeOK
<1>1. ASSUME UNCHANGED chain, NEW w \in Worker, NEW j, j.at # "select", Goto(w, j)
      PROVE  AuthenticInv'
  BY <1>0, <1>1, SameChainAuthentic, GotoAuthentic
<1>2. ASSUME NEW w \in Worker, NEW t \in Txn, ReceiveTxn(w, t) PROVE AuthenticInv'
  BY <1>1, <1>2 DEF ReceiveTxn
<1>3. ASSUME NEW w \in Worker, Admit(w) \/ LookUp(w) \/ Insert(w) PROVE AuthenticInv'
  BY <1>1, <1>3 DEF Admit, LookUp, Insert, Idle
<1>4. ASSUME NEW w \in Worker, NEW m \in Miner, StartMine(w, m) PROVE AuthenticInv'
  <2>1. PICK s \in Listings(pool) :
          Goto(w, [at |-> "select", to |-> m, rest |-> s, kept |-> <<>>])
    BY <1>4 DEF StartMine
  <2>2. job'[w].kept = <<>> /\ \A v \in Worker \ {w} : job'[v] = job[v]
    BY <1>0, <2>1 DEF Goto
  <2>3. KeptAuthentic'
    BY <2>2 DEF KeptAuthentic, Verified
  <2>4. QED
    BY <1>4, <2>3, SameChainAuthentic DEF StartMine
<1>5. ASSUME NEW w \in Worker, Select(w) PROVE AuthenticInv'
  <2> DEFINE t == Head(job[w].rest)
             kept == job[w].kept
             more == IF PoolAdmission(t, chain, kept) THEN Append(kept, t) ELSE kept
  <2>1. kept \in Seq(Txn) /\ job[w].at = "select" /\ t \in Txn
    BY <1>0, <1>5, JobFields DEF Select
  <2>2. job'[w].kept = more /\ \A v \in Worker \ {w} : job'[v] = job[v]
    BY <1>0, <1>5 DEF Select, Goto
  <2>3. \A k \in 1..Len(kept) : Verified(kept[k]) /\ kept[k].from # Coinbase
    BY <2>1 DEF KeptAuthentic
  <2>4. PoolAdmission(t, chain, kept) => Verified(t) /\ t.from # Coinbase
    BY DEF PoolAdmission
  <2> HIDE DEF t, kept
  <2>5. \A k \in 1..Len(more) : Verified(more[k]) /\ more[k].from # Coinbase
    BY <2>1, <2>3, <2>4
  <2> HIDE DEF more
  <2>6. KeptAuthentic'
    BY <2>2, <2>5 DEF KeptAuthentic, Verified
  <2>7. QED
    BY <1>5, <2>6, SameChainAuthentic DEF Select
<1>6. ASSUME NEW w \in Worker, Mine(w) PROVE AuthenticInv'
  <2>1. /\ job[w].to \in Miner /\ job[w].kept \in Seq(Txn)
        /\ \A k \in 1..Len(job[w].kept) :
             Verified(job[w].kept[k]) /\ job[w].kept[k].from # Coinbase
    BY <1>0, <1>6, JobFields DEF Mine, KeptAuthentic
  <2> DEFINE body == <<RewardTxn(job[w].to)>> \o job[w].kept
  <2>2. Authentic(body) /\ body \in Seq(Txn)
    BY <2>1, MinedBodyAuthentic, NodeAssumption
  <2>3. chain' = chain \/ \E b : b.txns = body /\ chain' = Append(chain, b)
    BY <1>0, <1>6, <2>2, AppendMinedKeepsLinks DEF Mine, Extends
  <2>4. ChainAuthentic'
    BY <1>0, <2>2, <2>3, AppendAuthentic, SameChainAuthentic
  <2>5. Idle.at # "select" /\ Purging(job[w].kept).at # "select"
    BY <2>1, PurgingType DEF Idle
  <2>6. KeptAuthentic'
    BY <1>0, <1>6, <2>5, GotoAuthentic DEF Mine
  <2>7. QED
    BY <2>4, <2>6
<1>7. ASSUME NEW w \in Worker, Purge(w) PROVE AuthenticInv'
  <2>1. Purging(Tail(job[w].rest)).at # "select"
    <3>1. Tail(job[w].rest) \in Seq(Txn)
      BY <1>0, <1>7, JobFields DEF Purge
    <3>2. QED
      BY <3>1, PurgingType
  <2>2. QED
    BY <1>1, <1>7, <2>1 DEF Purge
<1>8. ASSUME NEW w \in Worker, NEW b \in PeerBlock, CheckBlock(w, b) PROVE AuthenticInv'
  BY <1>1, <1>8 DEF CheckBlock
<1>9. ASSUME NEW w \in Worker, AddBlock(w) PROVE AuthenticInv'
  <2>1. job[w].block \in PeerBlock
    BY <1>0, <1>9, JobFields DEF AddBlock
  <2>2. \/ chain' = chain
        \/ Authentic(job[w].block.txns) /\ chain' = Append(chain, job[w].block)
    BY <1>0, <1>9, <2>1, AppendReceivedKeepsLinks DEF AddBlock, Extends
  <2>3. ChainAuthentic'
    BY <1>0, <2>2, AppendAuthentic, SameChainAuthentic
  <2>4. Idle.at # "select" /\ Purging(job[w].block.txns).at # "select"
    BY <2>1, PeerAssumption, PurgingType DEF Idle, IsBlock
  <2>5. KeptAuthentic'
    BY <1>0, <1>9, <2>4, GotoAuthentic DEF AddBlock
  <2>6. QED
    BY <2>3, <2>5
<1>10. ASSUME NEW w \in Worker, NEW c \in PeerChain, AdoptChain(w, c)
       PROVE  AuthenticInv'
  <2>1. chain' = chain \/ Derivable(chain')
    BY <1>0, <1>10, ReceiveChainKeepsLinks DEF AdoptChain, Adopts
  <2>2. ChainAuthentic'
    BY <2>1, SameChainAuthentic
       DEF Derivable, ChainAuthentic, Authentic, Verified, Coinbases
  <2>3. KeptAuthentic'
    BY <1>10 DEF AdoptChain, KeptAuthentic, Verified
  <2>4. QED
    BY <2>2, <2>3
<1>11. ASSUME Restart PROVE AuthenticInv'
  <2>1. chain' = <<Genesis>> /\ Len(<<Genesis>>) = 1
    BY <1>11 DEF Restart
  <2>2. ChainAuthentic'
    BY <2>1 DEF ChainAuthentic
  <2>3. KeptAuthentic'
    BY <1>11 DEF Restart, KeptAuthentic, Idle
  <2>4. QED
    BY <2>2, <2>3
<1>12. CASE UNCHANGED vars
  <2>1. KeptAuthentic'
    BY <1>12 DEF vars, KeptAuthentic, Verified
  <2>2. QED
    BY <1>12, <2>1, SameChainAuthentic DEF vars
<1>13. QED
  BY <1>2, <1>3, <1>4, <1>5, <1>6, <1>7, <1>8, <1>9, <1>10, <1>11, <1>12
     DEF Next, WorkerStep

\* The initial state.
LEMMA AuthenticInit == Init => AuthenticInv
<1> SUFFICES ASSUME Init PROVE AuthenticInv
  OBVIOUS
<1>1. chain = <<Genesis>> /\ Len(<<Genesis>>) = 1
  BY DEF Init, ChainInit
<1>2. QED
  BY <1>1 DEF Init, AuthenticInv, ChainAuthentic, KeptAuthentic, Idle

\* Whatever the interleaving of the handlers, every transaction past the
\* genesis block is signed by its sender or the one reward of its block.
THEOREM AlwaysAuthentic == Spec => []ChainAuthentic
<1>1. AuthenticInv => ChainAuthentic
  BY DEF AuthenticInv
<1>2. QED
  BY <1>1, AuthenticInit, AuthenticStep, TypedAndLinkedInit, TypedAndLinkedStep, PTL DEF Spec

-----------------------------------------------------------------------------
(* The headers a node serves: the node implements ChainLog.                 *)

\* What a step of the node does to its chain.
LEMMA NodeChainStep ==
  ASSUME TypedAndLinked, [Next]_vars
  PROVE  chain' = chain \/ (\E b : Extends(b)) \/ Adopts \/ Restart
<1> DEFINE Done == chain' = chain \/ (\E b : Extends(b)) \/ Adopts \/ Restart
<1>0. job \in [Worker -> Job] /\ ChainTypeOK /\ ChainLinked
  BY DEF TypedAndLinked, TypeOK
<1>1. ASSUME NEW w \in Worker,
             \/ \E t \in Txn : ReceiveTxn(w, t)
             \/ Admit(w) \/ LookUp(w) \/ Insert(w)
             \/ \E m \in Miner : StartMine(w, m)
             \/ Select(w) \/ Purge(w)
             \/ \E b \in PeerBlock : CheckBlock(w, b)
      PROVE  Done
  BY <1>1 DEF ReceiveTxn, Admit, LookUp, Insert, StartMine, Select, Purge, CheckBlock
<1>2. ASSUME NEW w \in Worker, Mine(w) PROVE Done
  <2>1. job[w].to \in Miner /\ job[w].kept \in Seq(Txn)
    BY <1>0, <1>2, JobFields DEF Mine
  <2>2. <<RewardTxn(job[w].to)>> \o job[w].kept \in Seq(Txn)
    BY <2>1, NodeAssumption
  <2>3. QED
    BY <1>0, <1>2, <2>2, AppendMinedKeepsLinks DEF Mine
<1>3. ASSUME NEW w \in Worker, AddBlock(w) PROVE Done
  <2>1. job[w].block \in PeerBlock
    BY <1>0, <1>3, JobFields DEF AddBlock
  <2>2. QED
    BY <1>0, <1>3, <2>1, AppendReceivedKeepsLinks DEF AddBlock
<1>4. ASSUME NEW w \in Worker, NEW c \in PeerChain, AdoptChain(w, c) PROVE Done
  BY <1>0, <1>4, ReceiveChainKeepsLinks DEF AdoptChain
<1>5. CASE UNCHANGED vars
  BY <1>5 DEF vars
<1>6. QED
  BY <1>1, <1>2, <1>3, <1>4, <1>5 DEF Next, WorkerStep

\* The headers in the hash of the latest block are a well-formed log, as long
\* as the chain.
LEMMA HeadersWellFormed ==
  ASSUME ChainTypeOK, ChainLinked, Hashed(chain)
  PROVE  /\ Headers!WellFormed(Latest.hash)
         /\ Len(Latest.hash) = Len(chain) /\ Len(chain) \in Nat
<1>1. Len(chain) \in Nat \ {0}
  BY DEF ChainTypeOK, ChainLinked, IsList
<1>2. Sealed(chain)
  BY <1>1, HashedIsSealed
<1> DEFINE l == Latest.hash
<1>3. /\ Len(l) = Len(chain)
      /\ \A i \in 1..Len(chain) : l[i] = Header(chain[i])
  BY <1>1, <1>2 DEF Sealed, Latest
<1>4. l[1] = Genesis.hash[1]
  <2>1. l[1] = Header(Genesis)
    BY <1>1, <1>3 DEF ChainLinked
  <2>2. Genesis.hash[1] = Header(Genesis)
    BY <1>1, <1>2 DEF Sealed, ChainLinked
  <2>3. QED
    BY <2>1, <2>2
<1>5. ASSUME NEW i \in 2..Len(l) PROVE Headers!Follows(l[i], l[i - 1])
  <2>1. i \in 1..Len(chain) /\ i - 1 \in 1..Len(chain) /\ i \in 2..Len(chain)
    BY <1>1, <1>3
  <2>2. l[i] = Header(chain[i]) /\ l[i - 1] = Header(chain[i - 1])
    BY <1>3, <2>1
  <2>3. QED
    BY <2>1, <2>2 DEF ChainLinked, Header, Headers!Follows
<1>6. l # <<>>
  BY <1>1, <1>3
<1> HIDE DEF l
<1>7. Headers!WellFormed(l)
  BY <1>4, <1>5, <1>6 DEF Headers!WellFormed
<1>8. QED
  BY <1>1, <1>3, <1>7 DEF l

NodeHashed == TypedAndLinked /\ Hashed(chain)

\* Every step of the node is a step of the log, and hashes go on.
LEMMA HeadersStep ==
  ASSUME NodeHashed, [Next]_vars
  PROVE  /\ NodeHashed'
         /\ [Headers!Grow \/ Headers!Reset]_(Latest.hash)
<1>1. ChainTypeOK /\ ChainLinked /\ Hashed(chain)
  BY DEF NodeHashed, TypedAndLinked, TypeOK
<1>2. TypedAndLinked'
  BY TypedAndLinkedStep DEF NodeHashed
<1>3. ChainTypeOK' /\ ChainLinked'
  BY <1>2 DEF TypedAndLinked, TypeOK
<1>4. CASE chain' = chain
  <2>1. Hashed(chain)'
    BY <1>1, <1>4 DEF Hashed, Header, Genesis, Hash, IsList
  <2>2. QED
    BY <1>2, <1>4, <2>1 DEF NodeHashed, Latest
<1>5. CASE (\E b : Extends(b)) \/ Adopts
  <2>1. Hashed(chain')
    BY <1>1, <1>3, <1>5, HashedStep
  <2>2. Hashed(chain)'
    BY <2>1 DEF Hashed, Header, Genesis, Hash, IsList
  <2>3. Len(chain') > Len(chain)
    <3>1. ASSUME NEW b, Extends(b) PROVE Len(chain') > Len(chain)
      BY <1>1, <3>1, AppendList DEF Extends, ChainTypeOK
    <3>2. QED
      BY <1>5, <3>1 DEF Adopts
  <2>4. Len(Latest.hash) = Len(chain)
    BY <1>1, HeadersWellFormed
  <2>5. Headers!WellFormed(Latest.hash)' /\ (Len(Latest.hash) = Len(chain))'
    BY <1>3, <2>2, HeadersWellFormed, PTL
  <2>6. Headers!Grow
    BY <2>3, <2>4, <2>5 DEF Headers!Grow
  <2>7. QED
    BY <1>2, <2>2, <2>6 DEF NodeHashed
<1>6. CASE Restart
  <2>1. chain' = <<Genesis>>
    BY <1>6 DEF Restart
  <2>2. Hashed(chain)'
    BY <2>1 DEF Hashed, Genesis, Hash
  <2>3. Latest'.hash = <<Genesis.hash[1]>>
    <3>1. Latest' = Genesis
      BY <2>1 DEF Latest
    <3>2. Genesis.hash = <<Genesis.hash[1]>>
      BY DEF Genesis, Hash
    <3>3. QED
      BY <3>1, <3>2
  <2>4. Headers!Reset
    BY <2>3 DEF Headers!Reset
  <2>5. QED
    BY <1>2, <2>2, <2>4 DEF NodeHashed
<1>7. QED
  BY <1>4, <1>5, <1>6, NodeChainStep DEF NodeHashed

\* The node implements the log of headers: what /headers serves is always a
\* well-formed log from the genesis header on, and a step of any worker makes
\* it longer, starts it over or leaves it alone.
THEOREM HeadersAreALog == Spec => ServesGrowingLog
<1>1. Init => NodeHashed /\ Headers!Init
  <2> SUFFICES ASSUME Init PROVE NodeHashed /\ Headers!Init
    OBVIOUS
  <2>1. TypedAndLinked /\ Hashed(chain) /\ chain = <<Genesis>>
    BY TypedAndLinkedInit, GenesisHashed DEF Init, ChainInit
  <2>2. Latest = Genesis
    BY <2>1 DEF Latest
  <2>3. Genesis.hash = <<Genesis.hash[1]>>
    BY DEF Genesis, Hash
  <2>4. QED
    BY <2>1, <2>2, <2>3 DEF NodeHashed, Headers!Init
<1>2. NodeHashed /\ [Next]_vars => NodeHashed' /\ [Headers!Grow \/ Headers!Reset]_(Latest.hash)
  BY HeadersStep
<1>3. QED
  BY <1>1, <1>2, PTL DEF Spec, ServesGrowingLog, Headers!Spec

-----------------------------------------------------------------------------
(* Who breaks the state of the chain, and who repairs it.                   *)

\* A step that changes the chain mines, takes a block that was valid to the
\* end, adopts a chain that derives, or restarts.
LEMMA NodeStateStep ==
  ASSUME TypedAndLinked, Next
  PROVE  \/ chain' = chain
         \/ \E w \in Worker : /\ job[w].at = "select" /\ Mine(w)
                              /\ Derivable(chain') => Derivable(chain)
         \/ Derivable(chain) /\ Derivable(chain')
         \/ Derivable(chain') /\ \E w \in Worker, c \in PeerChain : AdoptChain(w, c)
         \/ Derivable(chain') /\ Restart
<1> DEFINE Done == \/ chain' = chain
                   \/ \E w \in Worker : /\ job[w].at = "select" /\ Mine(w)
                                        /\ Derivable(chain') => Derivable(chain)
                   \/ Derivable(chain) /\ Derivable(chain')
                   \/ Derivable(chain') /\ \E w \in Worker, c \in PeerChain : AdoptChain(w, c)
                   \/ Derivable(chain') /\ Restart
<1>0. job \in [Worker -> Job] /\ ChainTypeOK /\ ChainLinked
  BY DEF TypedAndLinked, TypeOK
<1>1. IsList(chain) /\ chain # <<>> /\ \A i \in DOMAIN chain : IsBlock(chain[i])
  BY <1>0 DEF ChainTypeOK, ChainLinked
<1>2. ASSUME NEW w \in Worker,
             \/ \E t \in Txn : ReceiveTxn(w, t)
             \/ Admit(w) \/ LookUp(w) \/ Insert(w)
             \/ \E m \in Miner : StartMine(w, m)
             \/ Select(w) \/ Purge(w)
             \/ \E b \in PeerBlock : CheckBlock(w, b)
      PROVE  Done
  BY <1>2 DEF ReceiveTxn, Admit, LookUp, Insert, StartMine, Select, Purge, CheckBlock
<1>3. ASSUME NEW w \in Worker, Mine(w) PROVE Done
  <2>1. job[w].to \in Miner /\ job[w].kept \in Seq(Txn)
    BY <1>0, <1>3, JobFields DEF Mine
  <2>2. <<RewardTxn(job[w].to)>> \o job[w].kept \in Seq(Txn)
    BY <2>1, NodeAssumption
  <2>3. chain' = chain \/ \E b : Extends(b)
    BY <1>0, <1>3, <2>2, AppendMinedKeepsLinks DEF Mine
  <2>4. ASSUME NEW b, Extends(b) PROVE Derivable(chain') => Derivable(chain)
    <3>1. IsBlock(b) /\ chain' = Append(chain, b)
      BY <2>4 DEF Extends
    <3>2. Derivable(Append(chain, b)) => AppendValid(b, chain)
      BY <1>1, <3>1, AppendValidIsDerivable
    <3>3. QED
      BY <3>1, <3>2 DEF AppendValid
  <2>5. job[w].at = "select"
    BY <1>3 DEF Mine
  <2>6. QED
    BY <1>3, <2>3, <2>4, <2>5
<1>4. ASSUME NEW w \in Worker, AddBlock(w) PROVE Done
  <2> DEFINE b == job[w].block
  <2>1. b \in PeerBlock /\ IsBlock(b)
    BY <1>0, <1>4, JobFields, PeerAssumption DEF AddBlock
  <2>2. chain' = chain \/ (AppendValid(b, chain) /\ chain' = Append(chain, b))
    BY <1>4 DEF AddBlock, AppendReceived, Appendable
  <2> HIDE DEF b
  <2>3. AppendValid(b, chain) => Derivable(Append(chain, b)) /\ Derivable(chain)
    <3>1. AppendValid(b, chain) => Derivable(Append(chain, b))
      BY <1>1, <2>1, AppendValidIsDerivable
    <3>2. QED
      BY <3>1 DEF AppendValid
  <2>4. QED
    BY <2>2, <2>3
<1>5. ASSUME NEW w \in Worker, NEW c \in PeerChain, AdoptChain(w, c) PROVE Done
  <2>1. chain' = chain \/ Derivable(chain')
    BY <1>0, <1>5, ReceiveChainKeepsLinks DEF AdoptChain, Adopts
  <2>2. QED
    BY <1>5, <2>1
<1>6. ASSUME Restart PROVE Done
  BY <1>6, GenesisDerivable DEF Restart
<1>7. QED
  BY <1>2, <1>3, <1>4, <1>5, <1>6 DEF Next, WorkerStep

\* Peers cannot break the state of a chain, however their blocks and chains
\* race with what this node does: only a block mined here can.
THEOREM OnlyMiningBreaks == Spec => OnlyMiningBreaksState
<1>1. TypedAndLinked /\ [Next]_vars =>
        [Derivable(chain) /\ ~Derivable(chain') =>
           \E w \in Worker : job[w].at = "select" /\ Mine(w)]_vars
  <2> SUFFICES ASSUME TypedAndLinked, Next, Derivable(chain), ~Derivable(chain')
               PROVE  \E w \in Worker : job[w].at = "select" /\ Mine(w)
    OBVIOUS
  <2>1. QED
    BY NodeStateStep
<1>2. QED
  BY <1>1, TypedAndLinkedInit, TypedAndLinkedStep, PTL DEF Spec, OnlyMiningBreaksState

\* Nothing that the node does itself cures a chain whose state does not
\* derive: every later block of its own fails with it, and peers' blocks are
\* refused, until a longer chain is adopted or the node restarts.
THEOREM OnlyAdoptionRepairs == Spec => OnlyAdoptionRepairsState
<1>1. TypedAndLinked /\ [Next]_vars =>
        [~Derivable(chain) /\ Derivable(chain') =>
           Restart \/ \E w \in Worker, c \in PeerChain : AdoptChain(w, c)]_vars
  <2> SUFFICES ASSUME TypedAndLinked, Next, ~Derivable(chain), Derivable(chain')
               PROVE  Restart \/ \E w \in Worker, c \in PeerChain : AdoptChain(w, c)
    OBVIOUS
  <2>1. QED
    BY NodeStateStep
<1>2. QED
  BY <1>1, TypedAndLinkedInit, TypedAndLinkedStep, PTL DEF Spec, OnlyAdoptionRepairsState

-----------------------------------------------------------------------------
(* What a miner selects can be applied.                                     *)

\* A fold over no transactions, and a body that begins with a reward.
LEMMA EmptyFold ==
  ASSUME NEW v, NEW base, NEW unit, NEW a, FoldsTo(v, base, <<>>, unit, a)
  PROVE  v = base
BY DEF FoldsTo, Advancing

\* The empty sequence.
LEMMA EmptyList == IsList(<<>>) /\ <<>> \in Seq(Txn)
<1>1. <<>> \in Seq({}) /\ <<>> \in Seq(Txn)
  OBVIOUS
<1>2. QED
  BY <1>1, SeqIsList

\* What an account has pending to pay is a number, and grows by the outflow
\* of each transaction.
LEMMA OutflowAppend ==
  ASSUME NEW kept \in Seq(Txn), NEW t \in Txn, NEW a
  PROVE  /\ PendingOutflow(kept, a) \in Int /\ Outflow(t, a) \in Nat
         /\ PendingOutflow(Append(kept, t), a) = PendingOutflow(kept, a) + Outflow(t, a)
<1>1. IsList(kept) /\ IsList(Append(kept, t)) /\ \A i \in 1..Len(kept) : kept[i] \in Txn
  BY SeqIsList, AppendList
<1>2. \A u \in Txn : Outflow(u, a) \in Nat
  BY TxnAssumption DEF Outflow, TxnRecord
<1>3. \A n \in Int, i \in 1..Len(kept) : Advance(n, kept[i], "outflow", a) \in Int
  BY <1>1, <1>2 DEF Advance
<1>4. PendingOutflow(kept, a) \in Int
  BY <1>1, <1>3, OutflowFold, FoldStaysIn
<1>5. PendingOutflow(Append(kept, t), a) = Advance(PendingOutflow(kept, a), t, "outflow", a)
  BY <1>1, OutflowFold, FoldAppend
<1>6. QED
  BY <1>2, <1>4, <1>5 DEF Advance

\* The effective owners, after one pending transaction more.
LEMMA OwnerAppend ==
  ASSUME NEW owner, NEW kept \in Seq(Txn), NEW t \in Txn
  PROVE  EffectiveOwner(owner, Append(kept, t)) =
           Advance(EffectiveOwner(owner, kept), t, "owner", NoAddr)
<1>1. IsList(kept) /\ IsList(Append(kept, t))
  BY SeqIsList, AppendList
<1>2. QED
  BY <1>1, OwnerFold, FoldAppend

\* The effective owners are owners.
LEMMA OwnerType ==
  ASSUME NEW owner \in [Item -> Addr \cup {Unowned}], NEW kept \in Seq(Txn)
  PROVE  EffectiveOwner(owner, kept) \in [Item -> Holder \cup {Unowned}]
<1> DEFINE V == [Item -> Holder \cup {Unowned}]
<1>1. IsList(kept) /\ \A i \in 1..Len(kept) : kept[i] \in Txn
  BY SeqIsList
<1>2. ASSUME NEW o \in V, NEW t \in Txn PROVE Advance(o, t, "owner", NoAddr) \in V
  <2>1. Norm[t.to] \in Holder
    BY AddressAssumption, TxnAssumption DEF TxnRecord
  <2>2. QED
    BY <2>1 DEF Advance
<1>3. owner \in V
  BY DEF Holder
<1> HIDE DEF V
<1>4. \A o \in V, i \in 1..Len(kept) : Advance(o, kept[i], "owner", NoAddr) \in V
  BY <1>1, <1>2
<1>5. EffectiveOwner(owner, kept) \in V
  BY <1>1, <1>3, <1>4, OwnerFold, FoldStaysIn
<1>6. QED
  BY <1>5 DEF V

\* A claim of an item.
Claims(t, i) == t.kind = "ASSET" /\ t.item = i /\ Norm[t.from] = Norm[t.to]

\* How the state r in which a body is applied and what admission computes from
\* the state s before it and the transactions kept are related: admission
\* counts no more money than is there, and knows the owner of each item but
\* for items that were claimed in the body.
Covered(s, r, kept) ==
  /\ r \in DerivedState /\ r.ok
  /\ \A x \in Addr : r.bal[x] >= s.bal[x] - PendingOutflow(kept, x)
  /\ \A i \in Item :
       \/ EffectiveOwner(s.owner, kept)[i] = r.owner[i]
       \/ /\ EffectiveOwner(s.owner, kept)[i] = Unowned
          /\ \E t \in Txn : Claims(t, i) /\ r.owner[i] = Norm[t.to]

\* A payment that was admitted can be applied.
LEMMA CoveredPayment ==
  ASSUME Orderly, NEW s \in DerivedState, NEW r, NEW kept \in Seq(Txn), NEW t \in Txn,
         Covered(s, r, kept), Verified(t), t.from # Coinbase, t.kind = "CURRENCY",
         AffordsPayment(t, s, kept)
  PROVE  Covered(s, Step(r, t), Append(kept, t))
<1> DEFINE f == Norm[t.from]
           g == Norm[t.to]
           q == Effect(t, r)
<1>1. f \in Addr /\ g \in Addr /\ t.amount \in Nat /\ t.amount > 0
  BY AddressAssumption, TxnAssumption DEF Verified, Orderly, TxnRecord, Holder
<1>2. r \in DerivedState /\ r.ok /\ ~IsReward(t) /\ t.kind # "ASSET"
  BY DEF Covered, IsReward
<1>3. s.bal \in [Addr -> Int] /\ r.bal \in [Addr -> Int] /\ Eps \in Nat
  BY <1>2, AmountAssumption DEF DerivedState
<1>4. \A x \in Addr : PendingOutflow(kept, x) \in Int
  BY OutflowAppend
<1>5. PaymentApplies(t, r)
  <2>1. r.bal[f] >= s.bal[f] - PendingOutflow(kept, f)
    BY <1>1 DEF Covered
  <2>2. s.bal[f] - PendingOutflow(kept, f) + Eps >= t.amount
    BY DEF AffordsPayment
  <2>3. r.bal[f] + Eps >= t.amount
    <3>1. ASSUME NEW x \in Int, NEW y \in Int, NEW z \in Int, NEW e \in Int, NEW m \in Int,
                 x >= y - z, y - z + e >= m
          PROVE  x + e >= m
      BY <3>1
    <3>2. r.bal[f] \in Int /\ s.bal[f] \in Int /\ PendingOutflow(kept, f) \in Int
          /\ Eps \in Int /\ t.amount \in Int
      BY <1>1, <1>3, <1>4
    <3> HIDE DEF f
    <3>3. QED
      BY <2>1, <2>2, <3>1, <3>2
  <2>4. f # NoAddr /\ g # NoAddr
    BY <1>1, AddressAssumption
  <2>5. QED
    BY <1>1, <2>3, <2>4 DEF PaymentApplies
<1>6. Step(r, t) = q
  BY <1>2, <1>5 DEF Step, Applies
<1>7. /\ q.ok = r.ok /\ q.owner = r.owner
      /\ \A x \in Addr : q.bal[x] = IF f = g THEN r.bal[x]
                                    ELSE IF x = f THEN r.bal[x] - t.amount
                                    ELSE IF x = g THEN r.bal[x] + t.amount
                                    ELSE r.bal[x]
  BY <1>2, <1>5, PaymentEffect
<1>8. q \in DerivedState
  BY <1>2, <1>5, EffectType DEF Applies
<1> HIDE DEF q
<1>9. ASSUME NEW x \in Addr PROVE q.bal[x] >= s.bal[x] - PendingOutflow(Append(kept, t), x)
  <2>1. /\ PendingOutflow(Append(kept, t), x) = PendingOutflow(kept, x) + Outflow(t, x)
        /\ Outflow(t, x) \in Nat
    BY OutflowAppend
  <2>2. r.bal[x] >= s.bal[x] - PendingOutflow(kept, x)
    BY DEF Covered
  <2>3. x = f => Outflow(t, x) = t.amount
    BY <1>1 DEF Outflow
  <2>4. r.bal[x] \in Int /\ s.bal[x] \in Int /\ PendingOutflow(kept, x) \in Int
    BY <1>3, <1>4
  <2>5. q.bal[x] >= r.bal[x] - Outflow(t, x)
    BY <1>1, <1>7, <2>1, <2>3, <2>4
  <2>6. q.bal[x] \in Int
    BY <1>8 DEF DerivedState
  <2>7. ASSUME NEW u \in Int, NEW y \in Int, NEW z \in Int, NEW e \in Int, NEW m \in Int,
               y >= z - e, u >= y - m
        PROVE  u >= z - (e + m)
    BY <2>7
  <2>8. Outflow(t, x) \in Int
    BY <2>1
  <2>9. q.bal[x] >= s.bal[x] - (PendingOutflow(kept, x) + Outflow(t, x))
    BY <2>2, <2>4, <2>5, <2>6, <2>7, <2>8
  <2>10. QED
    BY <2>1, <2>9
<1>10. EffectiveOwner(s.owner, Append(kept, t)) = EffectiveOwner(s.owner, kept)
  BY <1>2, OwnerAppend DEF Advance
<1>11. Covered(s, q, Append(kept, t))
  BY <1>2, <1>7, <1>8, <1>9, <1>10 DEF Covered
<1>12. QED
  BY <1>6, <1>11

\* A transfer that was admitted can be applied.
LEMMA CoveredTransfer ==
  ASSUME Orderly, NEW s \in DerivedState, NEW r, NEW kept \in Seq(Txn), NEW t \in Txn,
         Covered(s, r, kept), Verified(t), t.from # Coinbase, t.kind = "ASSET",
         MayMoveItem(t, s, kept)
  PROVE  Covered(s, Step(r, t), Append(kept, t))
<1> DEFINE f == Norm[t.from]
           g == Norm[t.to]
           i == t.item
           o == EffectiveOwner(s.owner, kept)
           p == EffectiveOwner(s.owner, Append(kept, t))
           q == Effect(t, r)
<1>1. f \in Addr /\ g \in Addr /\ i \in Item /\ i # NoItem
  BY AddressAssumption, TxnAssumption DEF Verified, Orderly, TxnRecord, Holder
<1>2. r \in DerivedState /\ r.ok /\ ~IsReward(t)
  BY DEF Covered, IsReward
<1>3. f # NoAddr /\ g # NoAddr /\ f # Unowned
  BY <1>1, AddressAssumption DEF Holder
<1>4. (o[i] = Unowned /\ f = g) \/ o[i] = f
  BY DEF MayMoveItem
<1>5. r.owner[i] = f \/ (r.owner[i] = Unowned /\ f = g /\ o[i] = Unowned)
  <2>1. CASE o[i] = r.owner[i]
    BY <1>4, <2>1
  <2>2. CASE o[i] = Unowned /\ \E u \in Txn : Claims(u, i) /\ r.owner[i] = Norm[u.to]
    <3>1. PICK u \in Txn : Claims(u, i) /\ r.owner[i] = Norm[u.to]
      BY <2>2
    <3>2. f = g
      BY <1>3, <1>4, <2>2
    <3>3. f = Norm[u.from]
      BY <3>1, <3>2 DEF Orderly, Claims
    <3>4. QED
      BY <3>1, <3>3 DEF Claims
  <2>3. QED
    BY <1>1, <2>1, <2>2 DEF Covered
<1>6. AssetApplies(t, r)
  BY <1>1, <1>3, <1>5 DEF AssetApplies
<1>7. Step(r, t) = q
  BY <1>2, <1>6 DEF Step, Applies
<1>8. /\ q.ok = r.ok /\ q.bal = r.bal /\ q.owner = [r.owner EXCEPT ![i] = g]
  BY <1>2, <1>6, AssetEffect
<1>9. q \in DerivedState
  BY <1>2, <1>6, EffectType DEF Applies
<1>10. r.owner \in [Item -> Addr \cup {Unowned}] /\ s.owner \in [Item -> Addr \cup {Unowned}]
  BY <1>2 DEF DerivedState
<1>11. o \in [Item -> Holder \cup {Unowned}]
  BY <1>10, OwnerType
<1>12. p = IF o[i] # Unowned /\ o[i] = f THEN [o EXCEPT ![i] = g] ELSE o
  BY OwnerAppend DEF Advance
<1>13. ASSUME NEW x \in Addr PROVE q.bal[x] >= s.bal[x] - PendingOutflow(Append(kept, t), x)
  <2>1. /\ PendingOutflow(Append(kept, t), x) = PendingOutflow(kept, x) + Outflow(t, x)
    BY OutflowAppend
  <2>2. Outflow(t, x) = 0
    BY DEF Outflow
  <2>3. PendingOutflow(kept, x) \in Int
    BY OutflowAppend
  <2>4. r.bal[x] >= s.bal[x] - PendingOutflow(kept, x)
    BY DEF Covered
  <2>5. QED
    BY <1>8, <2>1, <2>2, <2>3, <2>4
<1>14. \A j \in Item :
         \/ o[j] = r.owner[j]
         \/ o[j] = Unowned /\ \E u \in Txn : Claims(u, j) /\ r.owner[j] = Norm[u.to]
  BY DEF Covered
<1>15. o[i] = Unowned => f = g
  BY <1>3, <1>4
<1>16. f = g => Claims(t, i)
  BY DEF Claims
<1> HIDE DEF q, o, p, f, i
<1>17. ASSUME NEW j \in Item
       PROVE  \/ p[j] = q.owner[j]
              \/ p[j] = Unowned /\ \E u \in Txn : Claims(u, j) /\ q.owner[j] = Norm[u.to]
  <2>1. CASE j # i
    <3>1. p[j] = o[j] /\ q.owner[j] = r.owner[j]
      BY <1>1, <1>8, <1>10, <1>11, <1>12, <2>1
    <3>2. QED
      BY <1>14, <3>1
  <2>2. CASE j = i /\ o[i] # Unowned
    <3>1. o[i] = f
      BY <1>4, <2>2
    <3>2. p[j] = g /\ q.owner[j] = g
      BY <1>1, <1>8, <1>10, <1>11, <1>12, <2>2, <3>1
    <3>3. QED
      BY <3>2
  <2>3. CASE j = i /\ o[i] = Unowned
    <3>1. p[j] = Unowned
      BY <1>12, <2>3
    <3>2. q.owner[j] = g /\ Claims(t, j)
      BY <1>1, <1>8, <1>10, <1>15, <1>16, <2>3
    <3>3. QED
      BY <3>1, <3>2
  <2>4. QED
    BY <2>1, <2>2, <2>3
<1>18. Covered(s, q, Append(kept, t))
  BY <1>2, <1>8, <1>9, <1>13, <1>17 DEF Covered, p
<1>19. QED
  BY <1>7, <1>18

\* The body that a miner would append, with what is selected so far.
CanMine(c, m, kept) ==
  Covered(Derive(c), ApplyBody(Derive(c), <<RewardTxn(m)>> \o kept), kept)

\* A reward applies to every state.
LEMMA RewardApplied ==
  ASSUME NEW s \in DerivedState, s.ok, NEW m \in Miner
  PROVE  Covered(s, ApplyBody(s, <<RewardTxn(m)>>), <<>>)
<1> DEFINE t == RewardTxn(m)
           r == Effect(t, s)
<1>1. /\ t \in Txn /\ IsReward(t) /\ t.kind # "ASSET" /\ t.amount = Reward /\ t.to = m
      /\ Norm[m] # NoAddr
  BY NodeAssumption DEF RewardTxn, IsReward
<1> HIDE DEF t
<1>2. RewardApplies(t)
  BY <1>1, AmountAssumption DEF RewardApplies
<1>3. Step(s, t) = r
  BY <1>1, <1>2 DEF Step, Applies
<1>4. r \in DerivedState
  BY <1>1, <1>2, EffectType DEF Applies
<1>5. /\ r.ok = s.ok /\ r.owner = s.owner /\ t.amount \in Nat
      /\ \A x \in Addr : r.bal[x] = IF x = Norm[t.to] THEN s.bal[x] + t.amount ELSE s.bal[x]
  BY <1>1, <1>2, RewardEffect
<1> HIDE DEF r
<1>6. ApplyBody(s, <<t>>) = r
  <2> DEFINE body == <<>>
  <2>1. <<t>> = Append(body, t)
    OBVIOUS
  <2>2. IsList(body)
    BY EmptyList
  <2>3. ApplyBody(s, body) = s
    BY EmptyList, BodyFold, EmptyFold
  <2> HIDE DEF body
  <2>4. ApplyBody(s, Append(body, t)) = Step(ApplyBody(s, body), t)
    BY <2>2, BodyAppend
  <2>5. QED
    BY <1>3, <2>1, <2>3, <2>4
<1>7. \A x \in Addr : PendingOutflow(<<>>, x) = 0
  BY EmptyList, OutflowFold, EmptyFold
<1>8. EffectiveOwner(s.owner, <<>>) = s.owner
  BY EmptyList, OwnerFold, EmptyFold
<1>9. ASSUME NEW x \in Addr PROVE r.bal[x] >= s.bal[x] - PendingOutflow(<<>>, x)
  <2>1. s.bal[x] \in Int
    BY DEF DerivedState
  <2>2. r.bal[x] = s.bal[x] + t.amount \/ r.bal[x] = s.bal[x]
    BY <1>5
  <2>3. ASSUME NEW p \in Int, NEW q, NEW n \in Nat, q = p + n \/ q = p
        PROVE  q >= p - 0
    BY <2>3
  <2>4. QED
    BY <1>5, <1>7, <2>1, <2>2, <2>3
<1>10. Covered(s, r, <<>>)
  BY <1>4, <1>5, <1>8, <1>9 DEF Covered
<1>11. QED
  BY <1>6, <1>10 DEF t

\* So a selection can begin on every chain that derives.
LEMMA CanMineStart ==
  ASSUME NEW c, HasBodies(c), Derivable(c), NEW m \in Miner
  PROVE  CanMine(c, m, <<>>)
<1>1. Derive(c) \in DerivedState /\ Derive(c).ok
  BY DeriveType DEF Derivable
<1>2. <<RewardTxn(m)>> \o <<>> = <<RewardTxn(m)>>
  OBVIOUS
<1>3. QED
  BY <1>1, <1>2, RewardApplied DEF CanMine

\* A transaction put at the end of a list with something before it.
LEMMA PrefixAppend ==
  ASSUME NEW S, NEW e \in S, NEW s \in Seq(S), NEW t \in S
  PROVE  <<e>> \o Append(s, t) = Append(<<e>> \o s, t) /\ <<e>> \o s \in Seq(S)
OBVIOUS

\* One round of the miner's loop: what the pool's admission accepts on top of
\* the transactions kept can be applied after them.
LEMMA CanMineMore ==
  ASSUME Orderly, NEW c, HasBodies(c), NEW m \in Miner, NEW kept \in Seq(Txn),
         NEW t \in Txn, CanMine(c, m, kept), PoolAdmission(t, c, kept)
  PROVE  CanMine(c, m, Append(kept, t))
<1> DEFINE s == Derive(c)
           e == RewardTxn(m)
           body == <<e>> \o kept
<1>1. e \in Txn
  BY NodeAssumption
<1> HIDE DEF e
<1>2. body \in Seq(Txn) /\ <<e>> \o Append(kept, t) = Append(body, t)
  BY <1>1, PrefixAppend
<1>3. s \in DerivedState
  BY DeriveType
<1>4. Covered(s, ApplyBody(s, body), kept)
  BY DEF CanMine, e
<1> HIDE DEF body
<1>5. ApplyBody(s, Append(body, t)) = Step(ApplyBody(s, body), t)
  BY <1>2, SeqIsList, BodyAppend
<1>6. /\ Verified(t) /\ t.from # Coinbase
      /\ IF t.kind = "CURRENCY" THEN AffordsPayment(t, s, kept) ELSE MayMoveItem(t, s, kept)
  BY DEF PoolAdmission
<1>7. t.kind \in {"CURRENCY", "ASSET"}
  BY TxnAssumption DEF TxnRecord
<1> HIDE DEF s
<1>8. Covered(s, Step(ApplyBody(s, body), t), Append(kept, t))
  BY <1>3, <1>4, <1>6, <1>7, CoveredPayment, CoveredTransfer
<1>9. Covered(s, ApplyBody(s, <<e>> \o Append(kept, t)), Append(kept, t))
  BY <1>2, <1>5, <1>8
<1>10. QED
  BY <1>9 DEF CanMine, s, e

-----------------------------------------------------------------------------
(* The state of the node's own chain derives, if nobody hurries.            *)

\* Every miner's selection can be applied to the chain as it is.
KeptCovered ==
  \A w \in Worker : job[w].at = "select" => CanMine(chain, job[w].to, job[w].kept)

DerivableInv == ChainDerivable /\ KeptCovered

\* A step that leaves the chain alone, and starts or continues no selection.
LEMMA SelectionsStay ==
  ASSUME job \in [Worker -> Job], DerivableInv, UNCHANGED chain,
         \A w \in Worker : job'[w].at # "select" \/ job'[w] = job[w]
  PROVE  DerivableInv'
<1>1. ChainDerivable'
  BY DEF DerivableInv, ChainDerivable
<1>2. KeptCovered'
  BY DEF DerivableInv, KeptCovered
<1>3. QED
  BY <1>1, <1>2 DEF DerivableInv

\* A step that changes the chain, and leaves no selection under way.
LEMMA SelectionsEnd ==
  ASSUME DerivableInv, Derivable(chain'),
         \A w \in Worker : job[w].at = "select" /\ job'[w].at = "select" => UNCHANGED chain,
         \A w \in Worker : job'[w].at # "select" \/ job'[w] = job[w]
  PROVE  DerivableInv'
<1>1. ChainDerivable'
  BY DEF ChainDerivable
<1>2. ASSUME NEW w \in Worker, job'[w].at = "select"
      PROVE  CanMine(chain', job'[w].to, job'[w].kept)
  <2>1. job'[w] = job[w] /\ chain' = chain
    BY <1>2
  <2>2. CanMine(chain, job[w].to, job[w].kept)
    BY <1>2, <2>1 DEF DerivableInv, KeptCovered
  <2>3. QED
    BY <2>1, <2>2
<1>3. KeptCovered'
  BY <1>2 DEF KeptCovered
<1>4. QED
  BY <1>1, <1>3 DEF DerivableInv

\* The inductive step.
LEMMA DerivableStep ==
  ASSUME Orderly, TypedAndLinked, AuthenticInv, DerivableInv, Next, Unhurried
  PROVE  DerivableInv'
<1>0. job \in [Worker -> Job] /\ ChainTypeOK /\ ChainLinked /\ KeptAuthentic
  BY DEF TypedAndLinked, TypeOK, AuthenticInv
<1>1. IsList(chain) /\ chain # <<>> /\ \A i \in DOMAIN chain : IsBlock(chain[i])
  BY <1>0 DEF ChainTypeOK, ChainLinked
<1>2. HasBodies(chain) /\ Derivable(chain)
  BY <1>1, BlocksHaveBodies DEF DerivableInv, ChainDerivable
<1>3. ASSUME UNCHANGED chain, NEW w \in Worker, NEW j, j.at # "select", Goto(w, j)
      PROVE  DerivableInv'
  <2>1. job'[w] = j /\ \A v \in Worker \ {w} : job'[v] = job[v]
    BY <1>0, <1>3 DEF Goto
  <2>2. QED
    BY <1>0, <1>3, <2>1, SelectionsStay
<1>4. ASSUME UNCHANGED chain, NEW w \in Worker, NEW j, Goto(w, j), CanMine(chain, j.to, j.kept)
      PROVE  DerivableInv'
  <2>1. ChainDerivable'
    BY <1>2, <1>4 DEF ChainDerivable
  <2>2. job'[w] = j /\ \A v \in Worker \ {w} : job'[v] = job[v]
    BY <1>0, <1>4 DEF Goto
  <2>3. ASSUME NEW v \in Worker, job'[v].at = "select"
        PROVE  CanMine(chain', job'[v].to, job'[v].kept)
    <3>1. CanMine(chain, job'[v].to, job'[v].kept)
      <4>1. CASE v = w
        BY <1>4, <2>2, <4>1
      <4>2. CASE v # w
        BY <2>2, <2>3, <4>2 DEF DerivableInv, KeptCovered
      <4>3. QED
        BY <4>1, <4>2
    <3>2. QED
      BY <1>4, <3>1
  <2>4. KeptCovered'
    BY <2>3 DEF KeptCovered
  <2>5. QED
    BY <2>1, <2>4 DEF DerivableInv
<1>5. ASSUME Derivable(chain'), NEW w \in Worker, NEW j, j.at # "select", Goto(w, j)
      PROVE  DerivableInv'
  <2>1. job'[w] = j /\ \A v \in Worker \ {w} : job'[v] = job[v]
    BY <1>0, <1>5 DEF Goto
  <2>2. \A v \in Worker : job[v].at = "select" /\ job'[v].at = "select" => UNCHANGED chain
    BY DEF Unhurried
  <2>3. QED
    BY <1>5, <2>1, <2>2, SelectionsEnd
<1>6. ASSUME NEW w \in Worker,
             \/ \E t \in Txn : ReceiveTxn(w, t)
             \/ Admit(w) \/ LookUp(w) \/ Insert(w)
             \/ \E b \in PeerBlock : CheckBlock(w, b)
      PROVE  DerivableInv'
  BY <1>3, <1>6 DEF ReceiveTxn, Admit, LookUp, Insert, CheckBlock, Idle
<1>7. ASSUME NEW w \in Worker, Purge(w) PROVE DerivableInv'
  <2>1. Tail(job[w].rest) \in Seq(Txn)
    BY <1>0, <1>7, JobFields DEF Purge
  <2>2. Purging(Tail(job[w].rest)).at # "select"
    BY <2>1, PurgingType
  <2>3. QED
    BY <1>3, <1>7, <2>2 DEF Purge
<1>8. ASSUME NEW w \in Worker, NEW m \in Miner, StartMine(w, m) PROVE DerivableInv'
  <2>1. PICK s \in Listings(pool) :
          Goto(w, [at |-> "select", to |-> m, rest |-> s, kept |-> <<>>])
    BY <1>8 DEF StartMine
  <2>2. CanMine(chain, m, <<>>)
    BY <1>2, CanMineStart
  <2>3. QED
    BY <1>4, <1>8, <2>1, <2>2 DEF StartMine
<1>9. ASSUME NEW w \in Worker, Select(w) PROVE DerivableInv'
  <2> DEFINE t == Head(job[w].rest)
             kept == job[w].kept
             m == job[w].to
             more == IF PoolAdmission(t, chain, kept) THEN Append(kept, t) ELSE kept
  <2>1. kept \in Seq(Txn) /\ job[w].at = "select" /\ t \in Txn /\ m \in Miner
    BY <1>0, <1>9, JobFields DEF Select
  <2>2. Goto(w, [at |-> "select", to |-> m, rest |-> Tail(job[w].rest), kept |-> more])
    BY <1>9 DEF Select
  <2>3. CanMine(chain, m, kept)
    BY <2>1 DEF DerivableInv, KeptCovered
  <2> HIDE DEF t, kept, m
  <2>4. CanMine(chain, m, more)
    <3>1. CASE PoolAdmission(t, chain, kept)
      BY <1>2, <2>1, <2>3, <3>1, CanMineMore
    <3>2. CASE ~PoolAdmission(t, chain, kept)
      BY <2>3, <3>2
    <3>3. QED
      BY <3>1, <3>2
  <2> HIDE DEF more
  <2>5. QED
    BY <1>4, <1>9, <2>2, <2>4 DEF Select
<1>10. ASSUME NEW w \in Worker, Mine(w) PROVE DerivableInv'
  <2> DEFINE m == job[w].to
             kept == job[w].kept
             body == <<RewardTxn(m)>> \o kept
  <2>1. /\ m \in Miner /\ kept \in Seq(Txn) /\ job[w].at = "select"
        /\ \A k \in 1..Len(kept) : Verified(kept[k]) /\ kept[k].from # Coinbase
    BY <1>0, <1>10, JobFields DEF Mine, KeptAuthentic
  <2>2. CanMine(chain, m, kept)
    BY <2>1 DEF DerivableInv, KeptCovered
  <2>3. AppendMined(body) /\ Goto(w, IF chain' = chain THEN Idle ELSE Purging(kept))
    BY <1>10 DEF Mine
  <2>4. (IF chain' = chain THEN Idle ELSE Purging(kept)).at # "select"
    BY <2>1, PurgingType DEF Idle
  <2> HIDE DEF m, kept
  <2>5. Authentic(body) /\ body \in Seq(Txn)
    BY <2>1, MinedBodyAuthentic, NodeAssumption
  <2>6. ApplyBody(Derive(chain), body).ok
    BY <2>2 DEF CanMine, Covered
  <2> HIDE DEF body
  <2>7. ASSUME NEW b, IsBlock(b), b.txns = body, chain' = Append(chain, b)
        PROVE  Derivable(chain')
    <3>1. AppendValid(b, chain)
      BY <1>2, <2>5, <2>6, <2>7 DEF AppendValid
    <3>2. Derivable(Append(chain, b))
      BY <1>1, <2>7, <3>1, AppendValidIsDerivable
    <3>3. QED
      BY <2>7, <3>2
  <2>8. chain' = chain \/ \E b : IsBlock(b) /\ b.txns = body /\ chain' = Append(chain, b)
    BY <1>0, <2>3, <2>5, AppendMinedKeepsLinks DEF Extends
  <2>9. Derivable(chain')
    BY <1>2, <2>7, <2>8
  <2>10. QED
    BY <1>5, <2>3, <2>4, <2>9
<1>11. ASSUME NEW w \in Worker, AddBlock(w) PROVE DerivableInv'
  <2> DEFINE b == job[w].block
  <2>1. b \in PeerBlock /\ IsBlock(b)
    BY <1>0, <1>11, JobFields, PeerAssumption DEF AddBlock
  <2>2. chain' = chain \/ (AppendValid(b, chain) /\ chain' = Append(chain, b))
    BY <1>11 DEF AddBlock, AppendReceived, Appendable
  <2>3. Goto(w, IF chain' = chain THEN Idle ELSE Purging(b.txns))
    BY <1>11 DEF AddBlock
  <2> HIDE DEF b
  <2>4. AppendValid(b, chain) => Derivable(Append(chain, b))
    BY <1>1, <2>1, AppendValidIsDerivable
  <2>5. Derivable(chain')
    BY <1>2, <2>2, <2>4
  <2>6. (IF chain' = chain THEN Idle ELSE Purging(b.txns)).at # "select"
    BY <2>1, PurgingType DEF Idle, IsBlock
  <2>7. QED
    BY <1>5, <2>3, <2>5, <2>6
<1>12. ASSUME NEW w \in Worker, NEW c \in PeerChain, AdoptChain(w, c)
       PROVE  DerivableInv'
  <2>1. chain' = chain \/ Derivable(chain')
    BY <1>0, <1>12, ReceiveChainKeepsLinks DEF AdoptChain, Adopts
  <2>2. Derivable(chain')
    BY <1>2, <2>1
  <2>3. \A v \in Worker : job'[v] = job[v]
    BY <1>12 DEF AdoptChain
  <2>4. \A v \in Worker : job[v].at = "select" /\ job'[v].at = "select" => UNCHANGED chain
    BY DEF Unhurried
  <2>5. QED
    BY <2>2, <2>3, <2>4, SelectionsEnd
<1>13. ASSUME Restart PROVE DerivableInv'
  <2>1. Derivable(chain')
    BY <1>13, GenesisDerivable DEF Restart
  <2>2. \A v \in Worker : job'[v].at # "select"
    BY <1>13 DEF Restart, Idle
  <2>3. QED
    BY <2>1, <2>2, SelectionsEnd
<1>14. QED
  BY <1>6, <1>7, <1>8, <1>9, <1>10, <1>11, <1>12, <1>13 DEF Next, WorkerStep

\* If the senders are orderly, and no block or chain comes between a miner's
\* selection and its addBlock, then the state of the chain can always be
\* derived, whatever else interleaves: the checks of the pool and the miner,
\* made against the chain and the transactions selected so far, suffice for
\* the whole block, which addBlock does not check.
THEOREM SelectionSuffices ==
  ASSUME Orderly
  PROVE  Spec /\ [][Unhurried]_vars => []ChainDerivable
<1>1. Init => DerivableInv
  <2> SUFFICES ASSUME Init PROVE DerivableInv
    OBVIOUS
  <2>1. ChainDerivable
    BY GenesisDerivable DEF Init, ChainInit, ChainDerivable
  <2>2. KeptCovered
    BY DEF Init, Idle, KeptCovered
  <2>3. QED
    BY <2>1, <2>2 DEF DerivableInv
<1>2. TypedAndLinked /\ AuthenticInv /\ DerivableInv /\ [Next]_vars /\ [Unhurried]_vars
        => DerivableInv'
  <2> SUFFICES ASSUME TypedAndLinked, AuthenticInv, DerivableInv, [Next]_vars, [Unhurried]_vars
               PROVE  DerivableInv'
    OBVIOUS
  <2>1. CASE UNCHANGED vars
    <3>1. job \in [Worker -> Job]
      BY DEF TypedAndLinked, TypeOK
    <3>2. UNCHANGED chain /\ \A w \in Worker : job'[w] = job[w]
      BY <2>1 DEF vars
    <3>3. QED
      BY <3>1, <3>2, SelectionsStay
  <2>2. CASE Next /\ Unhurried
    BY <2>2, DerivableStep
  <2>3. QED
    BY <2>1, <2>2 DEF vars
<1>3. DerivableInv => ChainDerivable
  BY DEF DerivableInv
<1>4. Init => AuthenticInv
  BY AuthenticInit
<1>5. QED
  BY <1>1, <1>2, <1>3, <1>4, AuthenticStep, TypedAndLinkedInit, TypedAndLinkedStep, PTL
     DEF Spec

-----------------------------------------------------------------------------
(* A transaction leaves the pool only onto the chain.                       *)

OnChain(t, c) == \E i \in 2..Len(c) : t \in Range(c[i].txns)

\* What a job may hold: no reward on its way into the pool, and nothing to be
\* removed from the pool that is not on the chain.
JobSound(j, c) ==
  /\ j.at \in {"verify", "insert"} => j.txn.from # Coinbase
  /\ j.at = "purge" => \A k \in 1..Len(j.rest) : OnChain(j.rest[k], c)

PoolInv ==
  /\ \A p \in pool : p.from # Coinbase
  /\ \A w \in Worker : JobSound(job[w], chain)

\* A job that is sound stays sound on a longer chain.
LEMMA SoundOnLonger ==
  ASSUME NEW j, NEW c, NEW d, Len(c) \in Nat, Len(d) \in Nat, Len(c) <= Len(d),
         \A i \in 1..Len(c) : d[i] = c[i], JobSound(j, c)
  PROVE  JobSound(j, d)
<1>1. ASSUME NEW t, OnChain(t, c) PROVE OnChain(t, d)
  <2>1. PICK i \in 2..Len(c) : t \in Range(c[i].txns)
    BY <1>1 DEF OnChain
  <2>2. i \in 2..Len(d) /\ d[i] = c[i]
    OBVIOUS
  <2>3. QED
    BY <2>1, <2>2 DEF OnChain
<1>2. QED
  BY <1>1 DEF JobSound

\* One worker goes on to a job that is sound, and the others keep theirs.
LEMMA PoolInvGoto ==
  ASSUME job \in [Worker -> Job], PoolInv, NEW w \in Worker, NEW j, Goto(w, j),
         JobSound(j, chain'), \A v \in Worker : JobSound(job[v], chain'),
         \A p \in pool' : p.from # Coinbase
  PROVE  PoolInv'
<1>1. job'[w] = j /\ \A v \in Worker \ {w} : job'[v] = job[v]
  BY DEF Goto
<1>2. ASSUME NEW v \in Worker PROVE JobSound(job'[v], chain')
  BY <1>1
<1>3. \A v \in Worker : JobSound(job'[v], chain')
  BY <1>2
<1>4. QED
  BY <1>3 DEF PoolInv, JobSound, OnChain

\* Removing what a list names, of which all is on the chain.
LEMMA PurgingSound ==
  ASSUME NEW s \in Seq(Txn), NEW c, \A k \in 1..Len(s) : OnChain(s[k], c)
  PROVE  JobSound(Purging(s), c)
<1>1. CASE s = <<>>
  BY <1>1 DEF Purging, Idle, JobSound
<1>2. CASE s # <<>>
  BY <1>2 DEF Purging, JobSound
<1>3. QED
  BY <1>1, <1>2

\* A block that was appended is on the chain, with all that it holds.
LEMMA AppendedSound ==
  ASSUME IsList(chain), chain # <<>>, NEW b, chain' = Append(chain, b)
  PROVE  /\ \A j : JobSound(j, chain) => JobSound(j, chain')
         /\ \A t \in Range(b.txns) : OnChain(t, chain')
<1>1. /\ Len(chain) \in Nat /\ Len(chain') = Len(chain) + 1
      /\ \A i \in 1..Len(chain) : chain'[i] = chain[i]
      /\ chain'[Len(chain) + 1] = b
  BY AppendList
<1>2. Len(chain) >= 1
  BY <1>1 DEF IsList
<1>3. ASSUME NEW j, JobSound(j, chain) PROVE JobSound(j, chain')
  <2> DEFINE d == Append(chain, b)
  <2>1. /\ Len(d) \in Nat /\ Len(chain) <= Len(d)
        /\ \A i \in 1..Len(chain) : d[i] = chain[i]
    BY <1>1
  <2> HIDE DEF d
  <2>2. JobSound(j, d)
    BY <1>1, <1>3, <2>1, SoundOnLonger
  <2>3. QED
    BY <2>2 DEF d
<1>4. Len(chain) + 1 \in 2..Len(chain')
  BY <1>1, <1>2
<1>5. QED
  BY <1>1, <1>3, <1>4 DEF OnChain

\* A prefix has the elements of the whole.
LEMMA PrefixOf ==
  ASSUME NEW c, NEW d, IsList(c), IsList(d), IsPrefix(c, d)
  PROVE  Len(c) <= Len(d) /\ \A i \in 1..Len(c) : d[i] = c[i]
<1>1. PICK S : c \in Seq(S) /\ d \in Seq(S)
  <2>1. c \in Seq(Range(c)) /\ d \in Seq(Range(d))
    BY DEF IsList
  <2>2. c \in Seq(Range(c) \cup Range(d)) /\ d \in Seq(Range(c) \cup Range(d))
    BY <2>1
  <2>3. QED
    BY <2>2
<1>2. Len(c) <= Len(d) /\ SubSeq(c, 1, Len(c)) = SubSeq(d, 1, Len(c))
  BY DEF IsPrefix
<1>3. ASSUME NEW i \in 1..Len(c) PROVE d[i] = c[i]
  <2>1. SubSeq(c, 1, Len(c))[i] = c[i] /\ SubSeq(d, 1, Len(c))[i] = d[i]
    BY <1>1, <1>2
  <2>2. QED
    BY <1>2, <2>1
<1>4. QED
  BY <1>2, <1>3

\* What leaves the pool with an identifier is the transaction that is named,
\* and if that is put back nothing has left.
LEMMA KeyedIsOne ==
  ASSUME UniqueIds, pool \subseteq Txn, \A p \in pool : p.from # Coinbase, NEW t \in Txn
  PROVE  Keyed(pool, t.id) \subseteq {t}
BY DEF Keyed, UniqueIds

\* The inductive step, with what each step takes from the pool.
LEMMA PoolInvStep ==
  ASSUME UniqueIds, TypedAndLinked, AuthenticInv, PoolInv, Next, Unhurried
  PROVE  PoolInv' /\ (Restart \/ \A p \in pool \ pool' : OnChain(p, chain))
<1> DEFINE Done == PoolInv' /\ (Restart \/ \A p \in pool \ pool' : OnChain(p, chain))
<1>0. /\ job \in [Worker -> Job] /\ ChainTypeOK /\ ChainLinked /\ KeptAuthentic
      /\ pool \subseteq Txn
      /\ \A p \in pool : p.from # Coinbase
      /\ \A w \in Worker : JobSound(job[w], chain)
  BY DEF TypedAndLinked, TypeOK, AuthenticInv, PoolInv
<1>1. IsList(chain) /\ chain # <<>> /\ \A i \in DOMAIN chain : IsBlock(chain[i])
  BY <1>0 DEF ChainTypeOK, ChainLinked
<1>2. ASSUME NEW w \in Worker, NEW j, UNCHANGED <<chain, pool>>, Goto(w, j), JobSound(j, chain)
      PROVE  Done
  <2>1. JobSound(j, chain') /\ \A v \in Worker : JobSound(job[v], chain')
    BY <1>0, <1>2
  <2>2. PoolInv'
    BY <1>0, <1>2, <2>1, PoolInvGoto
  <2>3. QED
    BY <1>2, <2>2
<1>3. ASSUME NEW w \in Worker,
             \/ \E t \in Txn : ReceiveTxn(w, t)
             \/ \E m \in Miner : StartMine(w, m)
             \/ Select(w)
             \/ \E b \in PeerBlock : CheckBlock(w, b)
      PROVE  Done
  <2>1. \A j : j.at \in {"admit", "select", "append"} => JobSound(j, chain)
    BY DEF JobSound
  <2>2. \A j : UNCHANGED <<chain, pool>> /\ Goto(w, j) /\ JobSound(j, chain) => Done
    BY <1>2
  <2> HIDE DEF Done
  <2>3. ASSUME NEW t \in Txn, ReceiveTxn(w, t) PROVE Done
    BY <2>1, <2>2, <2>3 DEF ReceiveTxn
  <2>4. ASSUME NEW m \in Miner, StartMine(w, m) PROVE Done
    BY <2>1, <2>2, <2>4 DEF StartMine
  <2>5. ASSUME Select(w) PROVE Done
    BY <2>1, <2>2, <2>5 DEF Select
  <2>6. ASSUME NEW b \in PeerBlock, CheckBlock(w, b) PROVE Done
    BY <2>1, <2>2, <2>6 DEF CheckBlock
  <2>7. QED
    BY <1>3, <2>3, <2>4, <2>5, <2>6
<1>4. ASSUME NEW w \in Worker, Admit(w) PROVE Done
  <2>1. PoolAdmission(job[w].txn, chain, job[w].seen) => job[w].txn.from # Coinbase
    BY DEF PoolAdmission
  <2>2. JobSound(IF PoolAdmission(job[w].txn, chain, job[w].seen)
                   THEN [at |-> "verify", txn |-> job[w].txn] ELSE Idle, chain)
    BY <2>1 DEF JobSound, Idle
  <2>3. QED
    BY <1>2, <1>4, <2>2 DEF Admit
<1>5. ASSUME NEW w \in Worker, LookUp(w) PROVE Done
  <2>1. job[w].txn.from # Coinbase
    BY <1>0, <1>5 DEF LookUp, JobSound
  <2>2. JobSound(IF Keyed(pool, job[w].txn.id) = {} /\ Verified(job[w].txn)
                   THEN [at |-> "insert", txn |-> job[w].txn] ELSE Idle, chain)
    BY <2>1 DEF JobSound, Idle
  <2>3. QED
    BY <1>2, <1>5, <2>2 DEF LookUp
<1>6. ASSUME NEW w \in Worker, Insert(w) PROVE Done
  <2> DEFINE t == job[w].txn
  <2>1. t \in Txn /\ t.from # Coinbase
    BY <1>0, <1>6, JobFields DEF Insert, JobSound
  <2>2. pool' = (pool \ Keyed(pool, t.id)) \cup {t} /\ Goto(w, Idle) /\ UNCHANGED chain
    BY <1>6 DEF Insert
  <2> HIDE DEF t
  <2>3. Keyed(pool, t.id) \subseteq {t}
    BY <1>0, <2>1, KeyedIsOne
  <2>4. pool \subseteq pool' /\ \A p \in pool' : p.from # Coinbase
    BY <1>0, <2>1, <2>2, <2>3
  <2>5. JobSound(Idle, chain') /\ \A v \in Worker : JobSound(job[v], chain')
    BY <1>0, <2>2 DEF JobSound, Idle
  <2>6. PoolInv'
    BY <1>0, <2>2, <2>4, <2>5, PoolInvGoto
  <2>7. QED
    BY <2>4, <2>6
<1>7. ASSUME NEW w \in Worker, Purge(w) PROVE Done
  <2> DEFINE rest == job[w].rest
             t == Head(rest)
  <2>1. rest \in Seq(Txn) /\ rest # <<>> /\ \A k \in 1..Len(rest) : OnChain(rest[k], chain)
    BY <1>0, <1>7, JobFields DEF Purge, JobSound
  <2>2. pool' = pool \ Keyed(pool, t.id) /\ Goto(w, Purging(Tail(rest))) /\ UNCHANGED chain
    BY <1>7 DEF Purge
  <2> HIDE DEF rest
  <2>3. t \in Txn /\ t = rest[1] /\ 1 \in 1..Len(rest)
    BY <2>1
  <2>4. /\ Tail(rest) \in Seq(Txn)
        /\ \A k \in 1..Len(Tail(rest)) : k + 1 \in 1..Len(rest) /\ Tail(rest)[k] = rest[k + 1]
    BY <2>1
  <2>5. \A k \in 1..Len(Tail(rest)) : OnChain(Tail(rest)[k], chain)
    BY <2>1, <2>4
  <2>6. JobSound(Purging(Tail(rest)), chain)
    BY <2>4, <2>5, PurgingSound
  <2>7. JobSound(Purging(Tail(rest)), chain') /\ \A v \in Worker : JobSound(job[v], chain')
    BY <1>0, <2>2, <2>6
  <2>8. OnChain(t, chain)
    BY <2>1, <2>3
  <2> HIDE DEF t
  <2>9. Keyed(pool, t.id) \subseteq {t}
    BY <1>0, <2>3, KeyedIsOne
  <2>10. \A p \in pool' : p.from # Coinbase
    BY <1>0, <2>2
  <2>11. PoolInv'
    BY <1>0, <2>2, <2>7, <2>10, PoolInvGoto
  <2>12. \A p \in pool \ pool' : OnChain(p, chain)
    BY <2>2, <2>8, <2>9
  <2>13. QED
    BY <2>11, <2>12
<1>8. ASSUME NEW w \in Worker, NEW txns \in Seq(Txn), NEW b, NEW rest \in Seq(Txn),
             Range(rest) \subseteq Range(b.txns),
             chain' = chain \/ chain' = Append(chain, b), UNCHANGED pool,
             Goto(w, IF chain' = chain THEN Idle ELSE Purging(rest))
      PROVE  Done
  <2>1. CASE chain' = chain
    <3>1. JobSound(Idle, chain)
      BY DEF JobSound, Idle
    <3>2. QED
      BY <1>2, <1>8, <2>1, <3>1
  <2>2. CASE chain' # chain
    <3>1. /\ \A j : JobSound(j, chain) => JobSound(j, chain')
          /\ \A t \in Range(b.txns) : OnChain(t, chain')
      BY <1>1, <1>8, <2>2, AppendedSound
    <3>2. \A k \in 1..Len(rest) : rest[k] \in Range(rest)
      BY DEF Range
    <3>3. \A k \in 1..Len(rest) : OnChain(rest[k], chain')
      BY <1>8, <3>1, <3>2
    <3>4. JobSound(Purging(rest), chain')
      BY <3>3, PurgingSound
    <3>5. PoolInv'
      BY <1>0, <1>8, <2>2, <3>1, <3>4, PoolInvGoto
    <3>6. QED
      BY <1>8, <3>5
  <2>3. QED
    BY <2>1, <2>2
<1>9. ASSUME NEW w \in Worker, Mine(w) PROVE Done
  <2> DEFINE m == job[w].to
             kept == job[w].kept
             e == RewardTxn(m)
             body == <<e>> \o kept
  <2>1. m \in Miner /\ kept \in Seq(Txn)
    BY <1>0, <1>9, JobFields DEF Mine
  <2>2. AppendMined(body) /\ Goto(w, IF chain' = chain THEN Idle ELSE Purging(kept))
        /\ UNCHANGED pool
    BY <1>9 DEF Mine
  <2>3. e \in Txn
    BY <2>1, NodeAssumption
  <2> HIDE DEF m, kept, e
  <2>4. /\ Len(kept) \in Nat /\ DOMAIN body = 1..(Len(kept) + 1)
        /\ \A k \in 2..(Len(kept) + 1) : body[k] = kept[k - 1]
    BY <2>1, <2>3, PrefixElements
  <2>5. body \in Seq(Txn)
    BY <2>1, <2>3
  <2> HIDE DEF body
  <2>6. ASSUME NEW k \in 1..Len(kept) PROVE kept[k] \in Range(body)
    <3>1. k + 1 \in DOMAIN body /\ body[k + 1] = kept[(k + 1) - 1] /\ (k + 1) - 1 = k
      BY <2>4
    <3>2. QED
      BY <3>1 DEF Range
  <2>7. DOMAIN kept = 1..Len(kept)
    BY <2>1
  <2>8. Range(kept) \subseteq Range(body)
    BY <2>6, <2>7 DEF Range
  <2>9. chain' = chain \/ \E b : b.txns = body /\ chain' = Append(chain, b)
    BY <1>0, <2>2, <2>5, AppendMinedKeepsLinks DEF Extends
  <2>10. PICK b : (b.txns = body /\ chain' = Append(chain, b)) \/ chain' = chain
    BY <2>9
  <2>11. CASE chain' = chain
    <3>1. JobSound(Idle, chain)
      BY DEF JobSound, Idle
    <3>2. QED
      BY <1>2, <2>2, <2>11, <3>1
  <2>12. CASE b.txns = body /\ chain' = Append(chain, b)
    BY <1>8, <2>1, <2>2, <2>8, <2>12
  <2>13. QED
    BY <2>10, <2>11, <2>12
<1>10. ASSUME NEW w \in Worker, AddBlock(w) PROVE Done
  <2> DEFINE b == job[w].block
  <2>1. b.txns \in Seq(Txn)
    BY <1>0, <1>10, JobFields, PeerAssumption DEF AddBlock, IsBlock
  <2>2. chain' = chain \/ chain' = Append(chain, b)
    BY <1>10 DEF AddBlock, AppendReceived
  <2>3. Goto(w, IF chain' = chain THEN Idle ELSE Purging(b.txns)) /\ UNCHANGED pool
    BY <1>10 DEF AddBlock
  <2> HIDE DEF b
  <2>4. QED
    BY <1>8, <2>1, <2>2, <2>3
<1>11. ASSUME NEW w \in Worker, NEW c \in PeerChain, AdoptChain(w, c) PROVE Done
  <2>1. job' = job /\ pool' = pool
    BY <1>11 DEF AdoptChain
  <2>2. ChainTypeOK' /\ (chain' = chain \/ Len(chain') > Len(chain))
    BY <1>0, <1>11, ReceiveChainKeepsLinks DEF AdoptChain, Adopts
  <2>3. IsList(chain') /\ Len(chain) \in Nat /\ Len(chain') \in Nat /\ Len(chain) >= 1
    BY <1>1, <2>2 DEF ChainTypeOK, IsList
  <2>4. ASSUME NEW v \in Worker PROVE JobSound(job[v], chain')
    <3>1. JobSound(job[v], chain)
      BY <1>0
    <3>2. CASE job[v].at # "purge"
      BY <3>1, <3>2 DEF JobSound
    <3>3. CASE job[v].at = "purge"
      <4>1. IsPrefix(chain, chain') \/ chain' = <<Genesis>>
        BY <3>3 DEF Unhurried
      <4>2. CASE chain' = chain
        BY <3>1, <4>2
      <4>3. CASE Len(chain') > Len(chain)
        <5>1. chain' # <<Genesis>>
          <6>1. SUFFICES ASSUME chain' = <<Genesis>> PROVE FALSE
            OBVIOUS
          <6>2. Len(chain') = 1
            BY <6>1
          <6>3. QED
            BY <2>3, <4>3, <6>2
        <5>2. IsPrefix(chain, chain')
          BY <4>1, <5>1
        <5>3. QED
          BY <1>1, <2>3, <3>1, <5>2, PrefixOf, SoundOnLonger
      <4>4. QED
        BY <2>2, <4>2, <4>3
    <3>4. QED
      BY <3>2, <3>3
  <2>5. \A v \in Worker : JobSound(job'[v], chain')
    BY <2>1, <2>4
  <2>6. PoolInv'
    BY <1>0, <2>1, <2>5 DEF PoolInv, JobSound, OnChain
  <2>7. QED
    BY <2>1, <2>6
<1>12. ASSUME Restart PROVE Done
  BY <1>12 DEF Restart, PoolInv, JobSound, Idle
<1>13. QED
  BY <1>3, <1>4, <1>5, <1>6, <1>7, <1>9, <1>10, <1>11, <1>12 DEF Next, WorkerStep

\* If identifiers identify, and no fork is adopted while mined transactions
\* are still being removed, then a pending transaction leaves the pool only
\* onto the chain, whatever the workers that insert and purge interleave.
THEOREM NoneLost ==
  ASSUME UniqueIds
  PROVE  Spec /\ [][Unhurried]_vars => NoTxnLost
<1>1. Init => PoolInv
  BY DEF Init, PoolInv, JobSound, Idle
<1>2. TypedAndLinked /\ AuthenticInv /\ PoolInv /\ [Next]_vars /\ [Unhurried]_vars
        => /\ PoolInv'
           /\ [Restart \/ \A p \in pool \ pool' :
                \E i \in 2..Len(chain) : p \in Range(chain[i].txns)]_vars
  <2> SUFFICES ASSUME TypedAndLinked, AuthenticInv, PoolInv, [Next]_vars, [Unhurried]_vars
               PROVE  /\ PoolInv'
                      /\ \/ UNCHANGED vars
                         \/ Restart
                         \/ \A p \in pool \ pool' :
                              \E i \in 2..Len(chain) : p \in Range(chain[i].txns)
    OBVIOUS
  <2>1. CASE UNCHANGED vars
    BY <2>1 DEF vars, PoolInv, JobSound, OnChain
  <2>2. CASE Next /\ Unhurried
    BY <2>2, PoolInvStep DEF OnChain
  <2>3. QED
    BY <2>1, <2>2
<1>3. QED
  BY <1>1, <1>2, AuthenticInit, AuthenticStep, TypedAndLinkedInit, TypedAndLinkedStep, PTL
     DEF Spec, NoTxnLost
=============================================================================
