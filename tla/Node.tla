-------------------------------- MODULE Node --------------------------------
(***************************************************************************)
(* One voidchain node: its chain, its pool of pending transactions, and    *)
(* the threads that serve it.  Crow runs every request on a thread of its  *)
(* pool and each peer's sync loop is a thread of its own; all of them call *)
(* into one Blockchain, one TxnPool and one Miner.  The three functions of *)
(* Blockchain that write the chain take chainMutex, and so do the routes   *)
(* that only show it, for their copy; the handlers modelled here validate  *)
(* against the chain without it, and the pool has no lock.  A worker here  *)
(* is such a thread, and a handler is cut into one action per access to    *)
(* the shared chain or pool.                                               *)
(*                                                                         *)
(* Messages come from the sets Txn, PeerBlock and PeerChain at any time    *)
(* and any number of times, which covers loss, delay, duplication,         *)
(* reordering and a peer on another fork.                                  *)
(***************************************************************************)
EXTENDS Blockchain

CONSTANTS
  Worker,    \* threads that serve requests and peers
  Miner,     \* reward addresses: the wallet's, or the request's minerAddress
  RewardId   \* the fresh UUID of a reward transaction

VARIABLES
  pool,      \* TxnPool::pool_, a map keyed by id, as the set of its values
  job        \* what each worker is doing

vars == <<chain, pool, job>>

RewardTxn(m) ==
  [id |-> RewardId, kind |-> "CURRENCY", from |-> Coinbase, to |-> m,
   amount |-> Reward, item |-> NoItem, signer |-> NoAddr]

ASSUME NodeAssumption ==
  \A m \in Miner : Norm[m] # NoAddr /\ m # NoRaw /\ RewardId # NoId
                   /\ RewardTxn(m) \in Txn

-----------------------------------------------------------------------------
(* A worker between requests, and the local variables of one in a handler. *)

Idle == [at |-> "idle"]

Job ==
  {Idle}
  \cup [at : {"admit"}, txn : Txn, seen : Seq(Txn)]    \* before validatePoolAdmission
  \cup [at : {"verify", "insert"}, txn : Txn]          \* in TxnPool::addTxn
  \cup [at : {"select"}, to : Miner, rest : Seq(Txn), kept : Seq(Txn)]  \* in Miner::mine
  \cup [at : {"append"}, block : PeerBlock]            \* before the locked addBlock
  \cup [at : {"purge"}, rest : Seq(Txn) \ {<<>>}]               \* removing mined ids

Goto(w, j) == job' = [job EXCEPT ![w] = j]

\* The values of pool_ in the order TxnPool::getTxn returns them.
Listings(S) ==
  {s \in [1..Cardinality(S) -> S] :
     \A i, j \in 1..Cardinality(S) : i < j => s[i].id < s[j].id}

Keyed(S, id) == {p \in S : p.id = id}

\* Mutant: the purge of an empty list is begun.
EmptyPurging(s) == [at |-> "purge", rest |-> s]

Purging(s) == IF s = <<>> THEN Idle ELSE [at |-> "purge", rest |-> s]

-----------------------------------------------------------------------------
(* A transaction arrives: /transact, /transact/signed, or TRANSACTION.      *)

\* The arguments of validatePoolAdmission: the pool is copied, the chain is
\* passed by reference.
ReceiveTxn(w, t) ==
  /\ job[w] = Idle
  /\ \E s \in Listings(pool) : Goto(w, [at |-> "admit", txn |-> t, seen |-> s])
  /\ UNCHANGED <<chain, pool>>

Admit(w) ==
  /\ job[w].at = "admit"
  /\ Goto(w, IF PoolAdmission(job[w].txn, chain, job[w].seen)
               THEN [at |-> "verify", txn |-> job[w].txn] ELSE Idle)
  /\ UNCHANGED <<chain, pool>>

\* TxnPool::addTxn: the id is looked up first, and stored after the
\* signature has been verified once more.
LookUp(w) ==
  /\ job[w].at = "verify"
  /\ Goto(w, IF Keyed(pool, job[w].txn.id) = {} /\ Verified(job[w].txn)
               THEN [at |-> "insert", txn |-> job[w].txn] ELSE Idle)
  /\ UNCHANGED <<chain, pool>>

Insert(w) ==
  /\ job[w].at = "insert"
  /\ pool' = (pool \ Keyed(pool, job[w].txn.id)) \cup {job[w].txn}
  /\ Goto(w, Idle)
  /\ UNCHANGED chain

-----------------------------------------------------------------------------
(* /mine. *)

StartMine(w, m) ==
  /\ job[w] = Idle
  /\ \E s \in Listings(pool) :
       Goto(w, [at |-> "select", to |-> m, rest |-> s, kept |-> <<>>])
  /\ UNCHANGED <<chain, pool>>

\* Mutant: what the pool admitted once is mined unchecked.
TrustingSelect(w) ==
  /\ job[w].at = "select" /\ job[w].rest # <<>>
  /\ Goto(w, [at |-> "select", to |-> job[w].to, rest |-> Tail(job[w].rest),
              kept |-> Append(job[w].kept, Head(job[w].rest))])
  /\ UNCHANGED <<chain, pool>>

\* One round of Miner::mine's loop, against the chain as it is now.
Select(w) ==
  /\ job[w].at = "select" /\ job[w].rest # <<>>
  /\ LET t == Head(job[w].rest)
         kept == job[w].kept
     IN  Goto(w, [at |-> "select", to |-> job[w].to, rest |-> Tail(job[w].rest),
                  kept |-> IF PoolAdmission(t, chain, kept) THEN Append(kept, t) ELSE kept])
  /\ UNCHANGED <<chain, pool>>

\* The reward goes first; addBlock mines and appends under chainMutex.
Mine(w) ==
  /\ job[w].at = "select" /\ job[w].rest = <<>>
  /\ AppendMined(<<RewardTxn(job[w].to)>> \o job[w].kept)
  /\ Goto(w, IF chain' = chain THEN Idle ELSE Purging(job[w].kept))
  /\ UNCHANGED pool

\* Mutant: the pool is cleared after a block.
ClearingPurge(w) ==
  /\ job[w].at = "purge"
  /\ pool' = {}
  /\ Goto(w, Purging(Tail(job[w].rest)))
  /\ UNCHANGED chain

\* pool_.remove, one id at a time, after a mined or a received block.
Purge(w) ==
  /\ job[w].at = "purge"
  /\ pool' = pool \ Keyed(pool, Head(job[w].rest).id)
  /\ Goto(w, Purging(Tail(job[w].rest)))
  /\ UNCHANGED chain

-----------------------------------------------------------------------------
(* Peers' blocks and chains, and the end of the process. *)

\* The check of a BLOCK message that is made before the lock is taken.
CheckBlock(w, b) ==
  /\ job[w] = Idle
  /\ FromJsonAccepts(b) /\ AppendValid(b, chain)
  /\ Goto(w, [at |-> "append", block |-> b])
  /\ UNCHANGED <<chain, pool>>

AddBlock(w) ==
  /\ job[w].at = "append"
  /\ AppendReceived(job[w].block)
  /\ Goto(w, IF chain' = chain THEN Idle ELSE Purging(job[w].block.txns))
  /\ UNCHANGED pool

\* A CHAIN message, or a payload a sync loop fetched: no pool access.
AdoptChain(w, c) ==
  /\ job[w] = Idle
  /\ ReceiveChain(c)
  /\ UNCHANGED <<pool, job>>

\* Nothing is stored: a process that stops or crashes (as one may in a race
\* on the unlocked map) comes back with the genesis block and no pool.
Restart ==
  /\ chain' = <<Genesis>>
  /\ pool' = {}
  /\ job' = [w \in Worker |-> Idle]

-----------------------------------------------------------------------------
Init ==
  /\ ChainInit
  /\ pool = {}
  /\ job = [w \in Worker |-> Idle]

WorkerStep(w) ==
  \/ \E t \in Txn : ReceiveTxn(w, t)
  \/ Admit(w) \/ LookUp(w) \/ Insert(w)
  \/ \E m \in Miner : StartMine(w, m)
  \/ Select(w) \/ Mine(w) \/ Purge(w)
  \/ \E b \in PeerBlock : CheckBlock(w, b)
  \/ AddBlock(w)
  \/ \E c \in PeerChain : AdoptChain(w, c)

Next == Restart \/ \E w \in Worker : WorkerStep(w)

Spec == Init /\ [][Next]_vars

-----------------------------------------------------------------------------
(* Conditions under which the pool's and the miner's checks suffice.  The    *)
(* code imposes none of them: each run that expects ChainDerivable to fail  *)
(* drops one of the first two.                                              *)

\* What pool admission leaves to the senders: they pay more than nothing, to
\* somebody, transfer items that have an identifier, and one account at most
\* claims an item.
Orderly ==
  /\ \A t \in Txn : t.from # Coinbase =>
       /\ Norm[t.to] # NoAddr
       /\ t.kind = "CURRENCY" => t.amount > 0
       /\ t.kind = "ASSET" => t.item # NoItem
  /\ \A t, u \in {v \in Txn : v.kind = "ASSET" /\ Norm[v.from] = Norm[v.to]} :
       t.item = u.item => Norm[t.from] = Norm[u.from]

\* No block or chain comes between a miner's selection and its addBlock, and
\* no fork is adopted while mined transactions are still being removed from
\* the pool; everything else may interleave.
Unhurried ==
  /\ \A w \in Worker : job[w].at = "select" /\ job'[w].at = "select" => UNCHANGED chain
  /\ (\E w \in Worker : job[w].at = "purge") =>
       IsPrefix(chain, chain') \/ chain' = <<Genesis>>

\* Identifiers identify, rewards apart: RewardId stands for a fresh one.
UniqueIds ==
  \A t, u \in Txn : t.id = u.id /\ t.from # Coinbase => t = u

-----------------------------------------------------------------------------
(* Properties. *)

TypeOK ==
  /\ ChainTypeOK
  /\ pool \subseteq Txn /\ IsFiniteSet(pool)
  /\ job \in [Worker -> Job]

\* Whatever the interleaving, every transaction past the genesis block
\* carries its sender's signature or is a reward, and no block rewards twice.
\* (addBlock checks neither for a body mined here: it is the pool's and the
\* miner's checks, made earlier and against an older chain, that must do.)
ChainAuthentic == \A i \in 2..Len(chain) : Authentic(chain[i].txns)

\* Peers cannot break a chain's state: a chain whose state derives stops
\* deriving only when this node appends a block it mined itself.
OnlyMiningBreaksState ==
  [][Derivable(chain) /\ ~Derivable(chain') => \E w \in Worker : job[w].at = "select" /\ Mine(w)]_vars

\* The state of the chain can always be derived: every block's payments
\* were covered and its items held by their senders when it was appended.
ChainDerivable == Derivable(chain)

\* A pending transaction leaves the pool only onto the chain.
NoTxnLost ==
  [][Restart \/ \A p \in pool \ pool' :
       \E i \in 2..Len(chain) : p \in Range(chain[i].txns)]_vars

\* A chain whose state no longer derives is not cured by anything the node
\* does itself, further mining included: it takes a peer's longer chain, or a
\* restart.
OnlyAdoptionRepairsState ==
  [][~Derivable(chain) /\ Derivable(chain') =>
        Restart \/ \E w \in Worker, c \in PeerChain : AdoptChain(w, c)]_vars

\* The headers, as /headers serves them, are a log that only grows or starts
\* over, whatever the workers do.
Headers == INSTANCE ChainLog WITH log <- Latest.hash, GenesisHeader <- Genesis.hash[1]

ServesGrowingLog == Headers!Spec
=============================================================================
