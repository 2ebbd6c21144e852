------------------------------ MODULE Network ------------------------------
(***************************************************************************)
(* Several voidchain nodes: how they connect at start (main.cpp,           *)
(* PeerClient::connectToPeer), the loop that polls each connected peer     *)
(* (PeerClient::syncLoop), and the relaying of what was applied            *)
(* (P2pServer::onPeerMessage, PeerClient::broadcast, the routes).          *)
(*                                                                         *)
(* What one node does with a message is reduced to what decides whether it *)
(* applies, in one step; Node models the rest.  A block is its number, its *)
(* transactions and what is wrong with it, and a chain is the sequence of  *)
(* them after the genesis block.  The number stands for the hash: it is    *)
(* never given twice.                                                      *)
(*                                                                         *)
(* Of the tests of processMessage, two always pass between nodes that run  *)
(* this program: the genesis block is a constant, and isValidBlockchain    *)
(* asks what holds of every node's chain (Node!ChainLinked).  The others   *)
(* do not: a miner may append a body that does not apply (the runs of Node *)
(* show how), and peers cannot read an amount of more than six decimals    *)
(* back (LightClient!Wire).                                                *)
(*                                                                         *)
(* Messages cross the network in any order and may be lost: a POST that    *)
(* meets nobody, or that times out, is not repeated.                       *)
(***************************************************************************)
EXTENDS Integers, FiniteSets, SequencesExt

CONSTANTS
  Process,     \* the nodes
  Peers,       \* the PEERS variable of each, in its order
  Txn,         \* transactions that users submit
  MaxMined,    \* bound on the blocks mined altogether, for TLC
  MaxCrashes   \* bound on the crashes, for TLC

VARIABLES
  phase,     \* "down", "connecting" or "up" (serving requests)
  todo,      \* the peers main has not tried yet
  conn,      \* PeerClient::connections_
  chain,     \* the node's chain after the genesis block
  pool,      \* its pending transactions
  cache,     \* lastBlocksPayload of each sync loop
  fetched,   \* blocksPayload of each sync loop, while it is handled
  wire,      \* POSTs to /peer/message on their way
  mined,     \* blocks mined so far: the number of the last one
  crashes    \* crashes so far (not in the code)

life == <<phase, todo, conn>>
sync == <<cache, fetched>>
bounds == <<mined, crashes>>
vars == <<life, chain, pool, sync, wire, bounds>>

ASSUME NetworkAssumption ==
  /\ Peers \in [Process -> Seq(Process)]
  /\ MaxMined \in Nat /\ MaxCrashes \in Nat

\* What may be wrong with a block: "state", its body does not apply to the
\* state before it; "text", peers that read it find another Merkle root.  (A
\* block with both faults is turned down wherever one with the first is.)
Flaw == {"none", "state", "text"}

Block == [number : 1..MaxMined, txns : SUBSET Txn, flaw : Flaw]
Chain == BoundedSeq(Block, MaxMined)

\* A payload variable: {} for the empty string it begins with.
Payload == {{}} \cup {{c} : c \in Chain}

-----------------------------------------------------------------------------
(* Messages. *)

\* CHAIN carries a chain, BLOCK a block with the chain its hash seals,
\* TRANSACTION a transaction.
ChainMsg(c) == [type |-> "CHAIN", data |-> c]
BlockMsg(c) == [type |-> "BLOCK", data |-> c]
TxnMsg(t) == [type |-> "TRANSACTION", data |-> t]

\* PeerClient::broadcast: one POST to every connected peer.
Posts(n, msg) == {[from |-> n, to |-> m, msg |-> msg] : m \in conn[n]}

\* State::validateFullChain, and Block::fromJson on every block.
Derives(c) == \A i \in DOMAIN c : c[i].flaw # "state"
Parses(c) == \A i \in DOMAIN c : c[i].flaw # "text"

\* A chain that any node takes in place of a shorter one.
Valid(c) == Derives(c) /\ Parses(c)

\* A block that validateBlockAppend and addBlock let onto the chain c of a
\* node: its hash seals c, and c with it derives.
Follows(d, c) == d # <<>> /\ Front(d) = c /\ Derives(d)

\* Mutant: a transaction that is pending already counts as applied.
EagerApplicable(n, msg) ==
  CASE msg.type = "CHAIN" -> Len(msg.data) > Len(chain[n]) /\ Valid(msg.data)
    [] msg.type = "BLOCK" -> Follows(msg.data, chain[n]) /\ Last(msg.data).flaw # "text"
    [] msg.type = "TRANSACTION" -> Derives(chain[n])

\* Mutant: a block need not follow the node's latest one.
UnlinkedApplicable(n, msg) ==
  CASE msg.type = "CHAIN" -> Len(msg.data) > Len(chain[n]) /\ Valid(msg.data)
    [] msg.type = "BLOCK" -> msg.data # <<>> /\ Len(chain[n]) < MaxMined
    [] msg.type = "TRANSACTION" -> msg.data \notin pool[n] /\ Derives(chain[n])

\* Mutant: a CHAIN message is not looked at while the node's own chain does
\* not derive.
SulkingApplicable(n, msg) ==
  CASE msg.type = "CHAIN" ->
         Len(msg.data) > Len(chain[n]) /\ Valid(msg.data) /\ Derives(chain[n])
    [] msg.type = "BLOCK" -> Follows(msg.data, chain[n]) /\ Last(msg.data).flaw # "text"
    [] msg.type = "TRANSACTION" -> msg.data \notin pool[n] /\ Derives(chain[n])

\* Whether processMessage may return true.
Applicable(n, msg) ==
  CASE msg.type = "CHAIN" -> Len(msg.data) > Len(chain[n]) /\ Valid(msg.data)
    [] msg.type = "BLOCK" -> Follows(msg.data, chain[n]) /\ Last(msg.data).flaw # "text"
    [] msg.type = "TRANSACTION" -> msg.data \notin pool[n] /\ Derives(chain[n])

\* Whether it may return false: a transaction may always be one that the
\* sender's balance or the item's owner forbids, or that peers cannot read.
Refusable(n, msg) == msg.type = "TRANSACTION" \/ ~Applicable(n, msg)

\* What processMessage changes when it applies.
Take(n, msg) ==
  IF msg.type = "TRANSACTION"
    THEN pool' = [pool EXCEPT ![n] = @ \cup {msg.data}] /\ UNCHANGED chain
  ELSE IF msg.type = "CHAIN"
    THEN chain' = [chain EXCEPT ![n] = msg.data] /\ UNCHANGED pool
  ELSE
    /\ chain' = [chain EXCEPT ![n] = Append(@, Last(msg.data))]
    /\ pool' = [pool EXCEPT ![n] = @ \ Last(msg.data).txns]

\* P2pServer::onPeerMessage: apply, then relay to every peer, the one it
\* came from included.  "left" are the messages still on their way.
OnPeerMessage(n, msg, left) ==
  \/ Applicable(n, msg) /\ Take(n, msg) /\ wire' = left \cup Posts(n, msg)
  \/ Refusable(n, msg) /\ wire' = left /\ UNCHANGED <<chain, pool>>

-----------------------------------------------------------------------------
(* A node starts, connects and stops. *)

Start(n) ==
  /\ phase[n] = "down"
  /\ phase' = [phase EXCEPT ![n] = "connecting"]
  /\ todo' = [todo EXCEPT ![n] = Peers[n]]
  /\ UNCHANGED <<conn, chain, pool, sync, wire, bounds>>

\* One peer of main's loop.  A peer that answers /health in time is polled
\* from now on; any other is never tried again.
Connect(n) ==
  /\ phase[n] = "connecting" /\ todo[n] # <<>>
  /\ todo' = [todo EXCEPT ![n] = Tail(@)]
  /\ \/ phase[Head(todo[n])] = "up"
        /\ conn' = [conn EXCEPT ![n] = @ \cup {Head(todo[n])}]
     \/ UNCHANGED conn
  /\ UNCHANGED <<phase, chain, pool, sync, wire, bounds>>

\* Mutant: requests are served while the loop still runs.
EagerServe(n) ==
  /\ phase[n] = "connecting"
  /\ phase' = [phase EXCEPT ![n] = "up"]
  /\ UNCHANGED <<todo, conn, chain, pool, sync, wire, bounds>>

\* app.run() comes after the loop.
Serve(n) ==
  /\ phase[n] = "connecting" /\ todo[n] = <<>>
  /\ phase' = [phase EXCEPT ![n] = "up"]
  /\ UNCHANGED <<todo, conn, chain, pool, sync, wire, bounds>>

\* Nothing of the process survives.
Crash(n) ==
  /\ phase[n] # "down" /\ crashes < MaxCrashes
  /\ phase' = [phase EXCEPT ![n] = "down"]
  /\ todo' = [todo EXCEPT ![n] = <<>>]
  /\ conn' = [conn EXCEPT ![n] = {}]
  /\ chain' = [chain EXCEPT ![n] = <<>>]
  /\ pool' = [pool EXCEPT ![n] = {}]
  /\ cache' = [cache EXCEPT ![n] = [m \in Process |-> {}]]
  /\ fetched' = [fetched EXCEPT ![n] = [m \in Process |-> {}]]
  /\ crashes' = crashes + 1
  /\ UNCHANGED <<wire, mined>>

-----------------------------------------------------------------------------
(* The sync loop, which runs from the moment of the connection. *)

\* Mutant: the payload is remembered before it has been handled.
EarlyFetch(n, m) ==
  /\ m \in conn[n] /\ fetched[n][m] = {}
  /\ phase[m] = "up" /\ chain[m] \notin cache[n][m]
  /\ fetched' = [fetched EXCEPT ![n][m] = {chain[m]}]
  /\ cache' = [cache EXCEPT ![n][m] = {chain[m]}]
  /\ UNCHANGED <<life, chain, pool, wire, bounds>>

\* Mutant: a peer whose chain was fetched once is not asked again.
OnceFetch(n, m) ==
  /\ m \in conn[n] /\ fetched[n][m] = {}
  /\ phase[m] = "up" /\ cache[n][m] = {}
  /\ fetched' = [fetched EXCEPT ![n][m] = {chain[m]}]
  /\ UNCHANGED <<life, chain, pool, cache, wire, bounds>>

\* GET /blocks, and the comparison with the last payload.
Fetch(n, m) ==
  /\ m \in conn[n] /\ fetched[n][m] = {}
  /\ phase[m] = "up" /\ chain[m] \notin cache[n][m]
  /\ fetched' = [fetched EXCEPT ![n][m] = {chain[m]}]
  /\ UNCHANGED <<life, chain, pool, cache, wire, bounds>>

\* onMessage_ with the payload as a CHAIN message; the payload is remembered
\* whether it was applied or not.
Handle(n, m) ==
  /\ \E c \in fetched[n][m] : OnPeerMessage(n, ChainMsg(c), wire)
  /\ cache' = [cache EXCEPT ![n][m] = fetched[n][m]]
  /\ fetched' = [fetched EXCEPT ![n][m] = {}]
  /\ UNCHANGED <<life, bounds>>

-----------------------------------------------------------------------------
(* Requests and messages. *)

\* /transact and /transact/signed, when they admit the transaction.
Submit(n, t) ==
  /\ phase[n] = "up" /\ t \notin pool[n] /\ Derives(chain[n])
  /\ pool' = [pool EXCEPT ![n] = @ \cup {t}]
  /\ wire' = wire \cup Posts(n, TxnMsg(t))
  /\ UNCHANGED <<life, chain, sync, bounds>>

\* /mine.  Selection takes those pending transactions that its snapshots of
\* chain and pool admit, none if the chain does not derive; that they still
\* apply when the block is appended is not checked.
Mine(n) ==
  /\ phase[n] = "up" /\ mined < MaxMined
  /\ mined' = mined + 1
  /\ \E body \in SUBSET pool[n], flaw \in Flaw :
       /\ body = {} => flaw = "none"
       /\ body # {} => Derives(chain[n])
       /\ LET block == [number |-> mined + 1, txns |-> body, flaw |-> flaw]
              c == Append(chain[n], block)
          IN  chain' = [chain EXCEPT ![n] = c] /\ wire' = wire \cup Posts(n, BlockMsg(c))
       /\ pool' = [pool EXCEPT ![n] = @ \ body]
  /\ UNCHANGED <<life, sync, crashes>>

\* /peer/message.
Receive(p) ==
  /\ p \in wire /\ phase[p.to] = "up"
  /\ OnPeerMessage(p.to, p.msg, wire \ {p})
  /\ UNCHANGED <<life, sync, bounds>>

Lose(p) ==
  /\ p \in wire
  /\ wire' = wire \ {p}
  /\ UNCHANGED <<life, chain, pool, sync, bounds>>

-----------------------------------------------------------------------------
Init ==
  /\ phase = [n \in Process |-> "down"] /\ todo = [n \in Process |-> <<>>]
  /\ conn = [n \in Process |-> {}]
  /\ chain = [n \in Process |-> <<>>] /\ pool = [n \in Process |-> {}]
  /\ cache = [n \in Process |-> [m \in Process |-> {}]]
  /\ fetched = [n \in Process |-> [m \in Process |-> {}]]
  /\ wire = {} /\ mined = 0 /\ crashes = 0

Deliver == \E p \in wire : Receive(p) \/ Lose(p)

Poll(n, m) == Fetch(n, m) \/ Handle(n, m)

Next ==
  \/ \E n \in Process :
       \/ Start(n) \/ Connect(n) \/ Serve(n) \/ Crash(n) \/ Mine(n)
       \/ \E t \in Txn : Submit(n, t)
       \/ \E m \in Process : Poll(n, m)
  \/ Deliver

\* A sync loop never ends while its process runs, and one of its requests to
\* a peer that serves succeeds some day; a POST is answered, refused or timed
\* out; main's loop goes on to the next peer after a second at most.
Fairness ==
  /\ WF_vars(Deliver)
  /\ \A n \in Process : WF_vars(Connect(n) \/ Serve(n))
  /\ \A n, m \in Process : WF_vars(Poll(n, m))

Spec == Init /\ [][Next]_vars /\ Fairness

-----------------------------------------------------------------------------
(* Properties. *)

TypeOK ==
  /\ phase \in [Process -> {"down", "connecting", "up"}]
  /\ \A n \in Process : /\ IsSuffix(todo[n], Peers[n])
                         /\ todo[n] # <<>> => phase[n] = "connecting"
  /\ \A n \in Process : conn[n] \subseteq Range(Peers[n])
  /\ \A n \in Process : chain[n] \in Chain /\ pool[n] \subseteq Txn
  /\ \A n, m \in Process : cache[n][m] \in Payload /\ fetched[n][m] \in Payload
  /\ mined \in 0..MaxMined /\ crashes \in 0..MaxCrashes

\* To skip a payload that was seen before never keeps a node behind: either
\* the node has a chain of at least that length already, also after the peer,
\* or the node, has started over, or the payload was turned down for what is
\* in it and would be turned down again, whatever the node's chain became.
CacheSound ==
  \A n, m \in Process :
    \A c \in cache[n][m] : Valid(c) => Len(chain[n]) >= Len(c)

\* The chains of the nodes, of the payloads and of the messages.
Own == {chain[n] : n \in Process}
Payloads == {cache[n][m] \cup fetched[n][m] : n, m \in Process}
Polled == UNION Payloads
Posted == {p.msg.data : p \in {q \in wire : q.msg.type # "TRANSACTION"}}
Known == Own \cup Polled \cup Posted

\* Two chains with a block in common have it in one place, after the same blocks.
Agree(c, d) ==
  \A i \in DOMAIN c, j \in DOMAIN d :
    c[i].number = d[j].number => i = j /\ SubSeq(c, 1, i) = SubSeq(d, 1, j)

\* A number stands for one block with one history, on every node, in every
\* message and in every payload: nodes that agree on a block agree on all the
\* blocks before it.
OneHistory == \A c, d \in Known : Agree(c, d)

\* A node ends up with a chain at least as long as that of every peer it is
\* connected to, unless the peer's chain is one that no other node takes,
\* although polls, relayed messages and mining interleave, all relayed
\* messages may be lost, and the node's own chain may not derive.
CatchesUp ==
  \A n, m \in Process :
    <>[](m \in conn[n] /\ Valid(chain[m]) => Len(chain[n]) >= Len(chain[m]))

\* Relaying comes to an end, in cycles of peers too, although nobody
\* remembers what was relayed: it is enough that a second application fails.
RelayingEnds == <>[](wire = {})
=============================================================================
