--------------------------- MODULE NetworkProofs ---------------------------
(***************************************************************************)
(* Proofs about any number of nodes, connected in any way, of which every  *)
(* one may crash and every message may be lost or overtaken.  What a step  *)
(* does to the chains that are known somewhere is stated once, in          *)
(* KnownGrows; the history of blocks follows from it.                      *)
(***************************************************************************)
EXTENDS Network, Lists

Msg == [type : {"CHAIN", "BLOCK"}, data : Seq(Block)] \cup [type : {"TRANSACTION"}, data : Txn]

Post == [from : Process, to : Process, msg : Msg]

\* At most one payload, as a variable of the sync loop holds it.
Held == {{}} \cup {{c} : c \in Seq(Block)}

\* The types of all variables, without the bounds.
Shapes ==
  /\ phase \in [Process -> {"down", "connecting", "up"}]
  /\ todo \in [Process -> Seq(Process)] /\ conn \in [Process -> SUBSET Process]
  /\ chain \in [Process -> Seq(Block)] /\ pool \in [Process -> SUBSET Txn]
  /\ cache \in [Process -> [Process -> Held]] /\ fetched \in [Process -> [Process -> Held]]
  /\ wire \subseteq Post
  /\ mined \in 0..MaxMined /\ crashes \in 0..MaxCrashes

-----------------------------------------------------------------------------
(* Messages. *)

\* What is posted about a message: the message itself.
LEMMA PostsShape ==
  ASSUME Shapes, NEW n \in Process, NEW msg \in Msg
  PROVE  /\ Posts(n, msg) \subseteq Post
         /\ \A p \in Posts(n, msg) : p.msg = msg
BY DEF Posts, Post, Shapes

\* Handling a message either leaves the node's chain alone or puts the
\* message's chain, a longer one, in its place; for a BLOCK message too, since
\* the hash of its block seals the chain before it.
LEMMA MessageApplied ==
  ASSUME Shapes, NEW n \in Process, NEW msg \in Msg, NEW left \in SUBSET wire,
         OnPeerMessage(n, msg, left)
  PROVE  /\ \/ UNCHANGED chain
            \/ /\ msg.type # "TRANSACTION" /\ msg.data \in Seq(Block)
               /\ chain' = [chain EXCEPT ![n] = msg.data]
               /\ Len(msg.data) > Len(chain[n])
         /\ msg.type = "CHAIN" /\ Valid(msg.data) => Len(chain'[n]) >= Len(msg.data)
         /\ pool' \in [Process -> SUBSET Txn]
         /\ wire' \subseteq wire \cup Posts(n, msg) /\ wire' \subseteq Post
<1>1. Posts(n, msg) \subseteq Post /\ left \subseteq Post
  BY PostsShape DEF Shapes
<1>2. chain[n] \in Seq(Block) /\ Len(chain[n]) \in Nat /\ pool[n] \subseteq Txn
  BY DEF Shapes
<1> DEFINE Done == Applicable(n, msg) /\ Take(n, msg) /\ wire' = left \cup Posts(n, msg)
<1>3. CASE Refusable(n, msg) /\ wire' = left /\ UNCHANGED <<chain, pool>>
  <2>1. msg.type = "CHAIN" => msg.data \in Seq(Block) /\ Len(msg.data) \in Nat
    BY DEF Msg
  <2>2. UNCHANGED <<chain, pool>> /\ wire' = left
    BY <1>3
  <2>3. ASSUME msg.type = "CHAIN", Valid(msg.data) PROVE Len(chain[n]) >= Len(msg.data)
    <3>1. ~Applicable(n, msg)
      BY <1>3, <2>3 DEF Refusable
    <3>2. QED
      BY <1>2, <2>1, <2>3, <3>1 DEF Applicable
  <2>4. QED
    BY <1>1, <2>2, <2>3 DEF Shapes
<1>4. CASE Done /\ msg.type = "TRANSACTION"
  <2>1. msg.data \in Txn
    BY <1>4 DEF Msg
  <2>2. /\ UNCHANGED chain /\ pool' = [pool EXCEPT ![n] = @ \cup {msg.data}]
        /\ wire' = left \cup Posts(n, msg)
    BY <1>4 DEF Take
  <2>3. pool' \in [Process -> SUBSET Txn]
    BY <1>2, <2>1, <2>2 DEF Shapes
  <2>4. wire' \subseteq wire \cup Posts(n, msg) /\ wire' \subseteq Post
    BY <1>1, <2>2
  <2>5. QED
    BY <1>4, <2>2, <2>3, <2>4
<1>5. CASE Done /\ msg.type = "CHAIN"
  <2>1. msg.data \in Seq(Block) /\ Len(msg.data) > Len(chain[n])
    BY <1>5 DEF Msg, Applicable
  <2>2. chain' = [chain EXCEPT ![n] = msg.data] /\ UNCHANGED pool
        /\ wire' = left \cup Posts(n, msg)
    BY <1>5 DEF Take
  <2>3. chain'[n] = msg.data
    BY <2>2 DEF Shapes
  <2>4. QED
    BY <1>1, <1>5, <2>1, <2>2, <2>3 DEF Shapes
<1>6. CASE Done /\ msg.type = "BLOCK"
  <2>1. msg.data \in Seq(Block) /\ msg.data # <<>> /\ Front(msg.data) = chain[n]
    BY <1>6 DEF Msg, Applicable, Follows
  <2>2. msg.data = Append(chain[n], Last(msg.data)) /\ Last(msg.data) \in Block
    BY <2>1, FrontAndLast
  <2>3. chain' = [chain EXCEPT ![n] = msg.data]
    BY <1>6, <2>2 DEF Take
  <2>4. Len(msg.data) > Len(chain[n])
    <3>1. Len(Append(chain[n], Last(msg.data))) = Len(chain[n]) + 1
      BY <1>2, <2>2, AppendShape
    <3>2. QED
      BY <1>2, <2>2, <3>1
  <2>5. pool' = [pool EXCEPT ![n] = @ \ Last(msg.data).txns] /\ wire' = left \cup Posts(n, msg)
    BY <1>6 DEF Take
  <2>6. pool' \in [Process -> SUBSET Txn]
    BY <1>2, <2>5 DEF Shapes
  <2>7. QED
    <3>1. wire' \subseteq wire \cup Posts(n, msg) /\ wire' \subseteq Post
      BY <1>1, <2>5
    <3>2. msg.type # "TRANSACTION" /\ msg.type # "CHAIN"
      BY <1>6
    <3>3. QED
      BY <2>1, <2>3, <2>4, <2>6, <3>1, <3>2
<1>7. QED
  BY <1>3, <1>4, <1>5, <1>6 DEF Msg, OnPeerMessage

\* What the loops hold, as messages.
LEMMA HeldIsMsg ==
  ASSUME Shapes, NEW n \in Process, NEW m \in Process, NEW c \in fetched[n][m]
  PROVE  c \in Seq(Block) /\ ChainMsg(c) \in Msg /\ fetched[n][m] = {c}
<1>1. fetched[n][m] \in Held
  BY DEF Shapes
<1>2. QED
  BY <1>1 DEF Held, ChainMsg, Msg

-----------------------------------------------------------------------------
(* The types, through every action.                                         *)

\* What /mine does: one block of a new number on the node's chain, posted,
\* with some of its pending transactions.
LEMMA MineShape ==
  ASSUME Shapes, NEW n \in Process, Mine(n)
  PROVE  /\ mined' = mined + 1 /\ mined' \in 0..MaxMined
         /\ UNCHANGED <<life, sync, crashes>>
         /\ pool' \in [Process -> SUBSET Txn]
         /\ \E b \in Block :
              /\ b.number = mined + 1
              /\ chain' = [chain EXCEPT ![n] = Append(chain[n], b)]
              /\ wire' = wire \cup Posts(n, BlockMsg(Append(chain[n], b)))
<1>1. mined' = mined + 1 /\ mined' \in 1..MaxMined /\ UNCHANGED <<life, sync, crashes>>
  BY NetworkAssumption DEF Mine, Shapes
<1>2. PICK body \in SUBSET pool[n], flaw \in Flaw :
        LET b == [number |-> mined + 1, txns |-> body, flaw |-> flaw]
        IN  /\ chain' = [chain EXCEPT ![n] = Append(chain[n], b)]
            /\ wire' = wire \cup Posts(n, BlockMsg(Append(chain[n], b)))
            /\ pool' = [pool EXCEPT ![n] = @ \ body]
  BY DEF Mine
<1> DEFINE b == [number |-> mined + 1, txns |-> body, flaw |-> flaw]
<1>3. b \in Block
  BY <1>1 DEF Block, Shapes
<1>4. pool' \in [Process -> SUBSET Txn]
  BY <1>2 DEF Shapes
<1>5. /\ b.number = mined + 1
      /\ chain' = [chain EXCEPT ![n] = Append(chain[n], b)]
      /\ wire' = wire \cup Posts(n, BlockMsg(Append(chain[n], b)))
  BY <1>2
<1> HIDE DEF b
<1>6. mined' \in 0..MaxMined
  BY <1>1
<1>7. QED
  BY <1>1, <1>3, <1>4, <1>5, <1>6

\* Putting a new entry into a node's table of payloads.
LEMMA HeldUpdate ==
  ASSUME NEW f \in [Process -> [Process -> Held]], NEW n \in Process, NEW m \in Process,
         NEW h \in Held
  PROVE  /\ [f EXCEPT ![n][m] = h] \in [Process -> [Process -> Held]]
         /\ [f EXCEPT ![n][m] = h][n][m] = h
         /\ \A k, l \in Process : k # n \/ l # m => [f EXCEPT ![n][m] = h][k][l] = f[k][l]
OBVIOUS

\* The payload of a poll is a held one.
LEMMA FetchHolds ==
  ASSUME Shapes, NEW m \in Process
  PROVE  {chain[m]} \in Held
BY DEF Shapes, Held

\* The inductive step of the types.
LEMMA ShapesStep == Shapes /\ [Next]_vars => Shapes'
<1> SUFFICES ASSUME Shapes, [Next]_vars PROVE Shapes'
  OBVIOUS
<1> USE NetworkAssumption
<1>1. ASSUME NEW n \in Process, Start(n) PROVE Shapes'
  BY <1>1 DEF Start, Shapes, sync, bounds, Post, Msg, Block
<1>2. ASSUME NEW n \in Process, Connect(n) PROVE Shapes'
  <2>1. todo[n] \in Seq(Process) /\ todo[n] # <<>>
    BY <1>2 DEF Connect, Shapes
  <2>2. Tail(todo[n]) \in Seq(Process) /\ Head(todo[n]) \in Process
    BY <2>1, HeadTailProperties
  <2>3. todo' \in [Process -> Seq(Process)]
    BY <1>2, <2>2 DEF Connect, Shapes
  <2>4. conn' \in [Process -> SUBSET Process]
    <3>1. \/ conn' = [conn EXCEPT ![n] = @ \cup {Head(todo[n])}]
          \/ conn' = conn
      BY <1>2 DEF Connect
    <3> DEFINE h == Head(todo[n])
    <3> HIDE DEF h
    <3>2. [conn EXCEPT ![n] = @ \cup {h}] \in [Process -> SUBSET Process]
      BY <2>2 DEF Shapes, h
    <3>3. QED
      BY <3>1, <3>2 DEF Shapes, h
  <2>5. QED
    BY <1>2, <2>3, <2>4 DEF Connect, Shapes, sync, bounds, Post, Msg, Block
<1>3. ASSUME NEW n \in Process, Serve(n) PROVE Shapes'
  BY <1>3 DEF Serve, Shapes, sync, bounds, Post, Msg, Block
<1>4. ASSUME NEW n \in Process, Crash(n) PROVE Shapes'
  <2>1. <<>> \in Seq(Process) /\ <<>> \in Seq(Block) /\ [m \in Process |-> {}] \in [Process -> Held]
    BY DEF Held
  <2>2. phase' \in [Process -> {"down", "connecting", "up"}]
    BY <1>4 DEF Crash, Shapes
  <2>3. todo' \in [Process -> Seq(Process)] /\ conn' \in [Process -> SUBSET Process]
    BY <1>4, <2>1 DEF Crash, Shapes
  <2>4. chain' \in [Process -> Seq(Block)] /\ pool' \in [Process -> SUBSET Txn]
    BY <1>4, <2>1 DEF Crash, Shapes
  <2>5. cache' \in [Process -> [Process -> Held]] /\ fetched' \in [Process -> [Process -> Held]]
    BY <1>4, <2>1 DEF Crash, Shapes
  <2>6. wire' \subseteq Post /\ mined' \in 0..MaxMined /\ crashes' \in 0..MaxCrashes
    <3>1. crashes \in Nat /\ crashes < MaxCrashes /\ crashes' = crashes + 1
      BY <1>4 DEF Crash, Shapes
    <3>2. UNCHANGED <<wire, mined>>
      BY <1>4 DEF Crash
    <3>3. crashes' \in 0..MaxCrashes
      BY <3>1
    <3>4. QED
      BY <3>2, <3>3 DEF Shapes
  <2>7. QED
    BY <2>2, <2>3, <2>4, <2>5, <2>6 DEF Shapes, Block, Held
<1>5. ASSUME NEW n \in Process, Mine(n) PROVE Shapes'
  <2>1. PICK b \in Block :
          /\ chain' = [chain EXCEPT ![n] = Append(chain[n], b)]
          /\ wire' = wire \cup Posts(n, BlockMsg(Append(chain[n], b)))
    BY <1>5, MineShape
  <2> DEFINE c == Append(chain[n], b)
  <2>2. c \in Seq(Block) /\ BlockMsg(c) \in Msg
    BY AppendShape DEF Shapes, BlockMsg, Msg
  <2>3. chain' = [chain EXCEPT ![n] = c] /\ wire' = wire \cup Posts(n, BlockMsg(c))
    BY <2>1
  <2> HIDE DEF c
  <2>4. chain' \in [Process -> Seq(Block)] /\ wire' \subseteq Post
    BY <2>2, <2>3, PostsShape DEF Shapes
  <2>5. /\ mined' \in 0..MaxMined /\ pool' \in [Process -> SUBSET Txn]
        /\ UNCHANGED <<life, sync, crashes>>
    BY <1>5, MineShape
  <2>6. QED
    BY <2>4, <2>5 DEF Shapes, life, sync, Block, Post, Msg
<1>6. ASSUME NEW n \in Process, NEW t \in Txn, Submit(n, t) PROVE Shapes'
  <2>1. TxnMsg(t) \in Msg
    BY DEF TxnMsg, Msg
  <2>2. wire' \subseteq Post
    BY <1>6, <2>1, PostsShape DEF Submit, Shapes
  <2>3. pool' \in [Process -> SUBSET Txn]
    BY <1>6 DEF Submit, Shapes
  <2>4. QED
    BY <1>6, <2>2, <2>3 DEF Submit, Shapes, life, sync, bounds, Block, Post, Msg
<1>7. ASSUME NEW n \in Process, NEW m \in Process, Fetch(n, m) PROVE Shapes'
  <2>1. fetched' \in [Process -> [Process -> Held]]
    BY <1>7, FetchHolds, HeldUpdate DEF Fetch, Shapes
  <2>2. QED
    BY <1>7, <2>1 DEF Fetch, Shapes, life, bounds, Block, Post, Msg
<1>8. ASSUME NEW n \in Process, NEW m \in Process, Handle(n, m) PROVE Shapes'
  <2>1. PICK c \in fetched[n][m] : OnPeerMessage(n, ChainMsg(c), wire)
    BY <1>8 DEF Handle
  <2>2. ChainMsg(c) \in Msg
    BY HeldIsMsg
  <2>3. /\ chain' \in [Process -> Seq(Block)] /\ pool' \in [Process -> SUBSET Txn]
        /\ wire' \subseteq Post
    BY <2>1, <2>2, MessageApplied DEF Shapes
  <2>4. {} \in Held /\ fetched[n][m] \in Held
    BY DEF Held, Shapes
  <2>5. cache' \in [Process -> [Process -> Held]] /\ fetched' \in [Process -> [Process -> Held]]
    BY <1>8, <2>4, HeldUpdate DEF Handle, Shapes
  <2>6. QED
    BY <1>8, <2>3, <2>5 DEF Handle, Shapes, life, bounds, Block, Post, Msg
<1>9. ASSUME NEW p \in wire, Receive(p) PROVE Shapes'
  <2>1. p.to \in Process /\ p.msg \in Msg
    BY DEF Shapes, Post
  <2>2. /\ chain' \in [Process -> Seq(Block)] /\ pool' \in [Process -> SUBSET Txn]
        /\ wire' \subseteq Post
    <3>1. wire \ {p} \in SUBSET wire /\ OnPeerMessage(p.to, p.msg, wire \ {p})
      BY <1>9 DEF Receive
    <3>2. QED
      BY <2>1, <3>1, MessageApplied DEF Shapes
  <2>3. QED
    BY <1>9, <2>2 DEF Receive, Shapes, life, sync, bounds, Block, Post, Msg
<1>10. ASSUME NEW p \in wire, Lose(p) PROVE Shapes'
  BY <1>10 DEF Lose, Shapes, life, sync, bounds, Block, Post, Msg
<1>11. CASE UNCHANGED vars
  BY <1>11 DEF vars, Shapes, life, sync, bounds, Block, Post, Msg
<1>12. QED
  BY <1>1, <1>2, <1>3, <1>4, <1>5, <1>6, <1>7, <1>8, <1>9, <1>10, <1>11
     DEF Next, Poll, Deliver

-----------------------------------------------------------------------------
(* Known chains: those of the nodes, of the payloads and of the messages.   *)

\* Where a chain is known from.
LEMMA KnownSources ==
  /\ \A n \in Process : chain[n] \in Known
  /\ \A n, m \in Process : cache[n][m] \subseteq Known /\ fetched[n][m] \subseteq Known
  /\ \A p \in wire : p.msg.type # "TRANSACTION" => p.msg.data \in Known
<1>1. ASSUME NEW n \in Process, NEW m \in Process
      PROVE  cache[n][m] \subseteq Known /\ fetched[n][m] \subseteq Known
  <2>1. cache[n][m] \cup fetched[n][m] \in Payloads
    BY DEF Payloads
  <2>2. QED
    BY <2>1 DEF Known, Polled
<1>2. \A p \in wire : p.msg.type # "TRANSACTION" => p.msg.data \in Known
  <2>1. ASSUME NEW p \in wire, p.msg.type # "TRANSACTION" PROVE p.msg.data \in Posted
    BY <2>1 DEF Posted
  <2>2. QED
    BY <2>1 DEF Known
<1>3. \A n \in Process : chain[n] \in Known
  BY DEF Known, Own
<1>4. QED
  BY <1>1, <1>2, <1>3

\* A set with all of the sources holds the known chains.
LEMMA KnownWithin ==
  ASSUME NEW K,
         \A n \in Process : chain[n] \in K,
         \A n, m \in Process : cache[n][m] \subseteq K /\ fetched[n][m] \subseteq K,
         \A p \in wire : p.msg.type # "TRANSACTION" => p.msg.data \in K
  PROVE  Known \subseteq K
<1>1. ASSUME NEW s \in Payloads PROVE s \subseteq K
  <2>1. \E n, m \in Process : s = cache[n][m] \cup fetched[n][m]
    BY DEF Payloads
  <2>2. QED
    BY <2>1
<1>2. Posted \subseteq K
  BY DEF Posted
<1>3. Polled \subseteq K
  BY <1>1 DEF Polled
<1>4. Own \subseteq K
  BY DEF Own
<1>5. QED
  BY <1>2, <1>3, <1>4 DEF Known

\* The same of the next state.
LEMMA KnownNext ==
  ASSUME NEW K,
         \A n \in Process : chain'[n] \in K,
         \A n, m \in Process : cache'[n][m] \subseteq K /\ fetched'[n][m] \subseteq K,
         \A p \in wire' : p.msg.type # "TRANSACTION" => p.msg.data \in K
  PROVE  Known' \subseteq K
<1>1. ASSUME NEW s \in Payloads' PROVE s \subseteq K
  <2>1. \E n, m \in Process : s = cache'[n][m] \cup fetched'[n][m]
    BY DEF Payloads
  <2>2. QED
    BY <2>1
<1>2. Posted' \subseteq K
  BY DEF Posted
<1>3. Polled' \subseteq K
  BY <1>1 DEF Polled
<1>4. Own' \subseteq K
  BY DEF Own
<1>5. QED
  BY <1>2, <1>3, <1>4 DEF Known

\* Known chains are lists of blocks.
LEMMA KnownType == Shapes => Known \subseteq Seq(Block)
<1> SUFFICES ASSUME Shapes PROVE Known \subseteq Seq(Block)
  OBVIOUS
<1>1. \A n, m \in Process : cache[n][m] \subseteq Seq(Block) /\ fetched[n][m] \subseteq Seq(Block)
  <2>1. \A n, m \in Process : cache[n][m] \in Held /\ fetched[n][m] \in Held
    BY DEF Shapes
  <2>2. \A h \in Held : h \subseteq Seq(Block)
    BY DEF Held
  <2>3. QED
    BY <2>1, <2>2
<1>2. \A p \in wire : p.msg.type # "TRANSACTION" => p.msg.data \in Seq(Block)
  BY DEF Shapes, Post, Msg
<1>3. \A n \in Process : chain[n] \in Seq(Block)
  BY DEF Shapes
<1>4. QED
  BY <1>1, <1>2, <1>3, KnownWithin

\* A message that is handled makes no chain known that was not.
LEMMA MessageKnown ==
  ASSUME Shapes, NEW n \in Process, NEW msg \in Msg, NEW left \in SUBSET wire,
         OnPeerMessage(n, msg, left),
         msg.type # "TRANSACTION" => msg.data \in Known
  PROVE  /\ \A k \in Process : chain'[k] \in Known
         /\ \A p \in wire' : p.msg.type # "TRANSACTION" => p.msg.data \in Known
<1>1. \A k \in Process : chain'[k] \in Known
  <2>1. \A k \in Process : chain[k] \in Known
    BY KnownSources
  <2>2. CASE UNCHANGED chain
    BY <2>1, <2>2
  <2>3. CASE msg.type # "TRANSACTION" /\ chain' = [chain EXCEPT ![n] = msg.data]
    BY <2>1, <2>3 DEF Shapes
  <2>4. QED
    BY <2>2, <2>3, MessageApplied
<1>2. wire' \subseteq wire \cup Posts(n, msg)
  BY MessageApplied
<1>3. QED
  BY <1>1, <1>2, KnownSources, PostsShape

\* A step makes nothing known but the chain of a node that starts over, or
\* a known chain with a block of a new number.
LEMMA KnownGrows ==
  ASSUME Shapes, [Next]_vars
  PROVE  \/ mined' = mined /\ Known' \subseteq Known \cup {<<>>}
         \/ /\ mined' = mined + 1
            /\ \E c \in Known, b \in Block :
                 b.number = mined + 1 /\ Known' \subseteq Known \cup {Append(c, b)}
<1> DEFINE Stays == mined' = mined /\ Known' \subseteq Known \cup {<<>>}
<1> USE KnownSources
<1>1. ASSUME UNCHANGED <<chain, sync, wire, mined>> PROVE Stays
  BY <1>1 DEF sync, Known, Own, Polled, Payloads, Posted
<1>2. ASSUME NEW n \in Process, Start(n) \/ Connect(n) \/ Serve(n) PROVE Stays
  BY <1>1, <1>2 DEF Start, Connect, Serve, bounds
<1>3. ASSUME NEW n \in Process, Crash(n) PROVE Stays
  <2> DEFINE K == Known \cup {<<>>}
  <2>1. \A k \in Process : chain'[k] \in K
    BY <1>3 DEF Crash, Shapes
  <2>2. \A k, l \in Process : cache'[k][l] \subseteq K /\ fetched'[k][l] \subseteq K
    BY <1>3 DEF Crash, Shapes
  <2>3. \A p \in wire' : p.msg.type # "TRANSACTION" => p.msg.data \in K
    BY <1>3 DEF Crash
  <2> HIDE DEF K
  <2>4. Known' \subseteq K
    BY <2>1, <2>2, <2>3, KnownNext
  <2>5. QED
    BY <1>3, <2>4 DEF Crash, K
<1>4. ASSUME NEW n \in Process, Mine(n)
      PROVE  /\ mined' = mined + 1
             /\ \E c \in Known, b \in Block :
                  b.number = mined + 1 /\ Known' \subseteq Known \cup {Append(c, b)}
  <2>1. PICK b \in Block :
          /\ b.number = mined + 1
          /\ chain' = [chain EXCEPT ![n] = Append(chain[n], b)]
          /\ wire' = wire \cup Posts(n, BlockMsg(Append(chain[n], b)))
    BY <1>4, MineShape
  <2> DEFINE c == Append(chain[n], b)
             K == Known \cup {c}
  <2>2. /\ chain' = [chain EXCEPT ![n] = c] /\ wire' = wire \cup Posts(n, BlockMsg(c))
        /\ UNCHANGED sync /\ mined' = mined + 1
    BY <1>4, <2>1, MineShape
  <2> HIDE DEF c
  <2>3. \A k \in Process : chain'[k] \in K
    BY <2>2 DEF Shapes
  <2>4. \A k, l \in Process : cache'[k][l] \subseteq K /\ fetched'[k][l] \subseteq K
    BY <2>2 DEF sync
  <2>5. \A p \in wire' : p.msg.type # "TRANSACTION" => p.msg.data \in K
    BY <2>2 DEF Posts, BlockMsg
  <2> HIDE DEF K
  <2>6. Known' \subseteq K
    BY <2>3, <2>4, <2>5, KnownNext
  <2>7. chain[n] \in Known
    OBVIOUS
  <2>8. QED
    BY <2>1, <2>2, <2>6, <2>7 DEF K, c
<1>5. ASSUME NEW n \in Process, NEW t \in Txn, Submit(n, t) PROVE Stays
  <2>1. /\ UNCHANGED <<chain, cache, fetched, mined>>
        /\ wire' = wire \cup Posts(n, TxnMsg(t))
    BY <1>5 DEF Submit, sync, bounds
  <2>2. \A p \in wire' : p.msg.type # "TRANSACTION" => p.msg.data \in Known
    BY <2>1 DEF Posts, TxnMsg
  <2>3. Known' \subseteq Known
    BY <2>1, <2>2, KnownNext
  <2>4. QED
    BY <2>1, <2>3
<1>6. ASSUME NEW n \in Process, NEW m \in Process, Fetch(n, m) PROVE Stays
  <2>1. UNCHANGED <<chain, cache, wire, mined>>
    BY <1>6 DEF Fetch, bounds
  <2>2. \A k, l \in Process : fetched'[k][l] \subseteq Known
    <3>1. fetched' = [fetched EXCEPT ![n][m] = {chain[m]}] /\ {chain[m]} \in Held
      BY <1>6, FetchHolds DEF Fetch
    <3>2. /\ fetched'[n][m] = {chain[m]}
          /\ \A k, l \in Process : k # n \/ l # m => fetched'[k][l] = fetched[k][l]
      BY <3>1, HeldUpdate DEF Shapes
    <3>3. QED
      BY <3>2
  <2>3. Known' \subseteq Known
    BY <2>1, <2>2, KnownNext
  <2>4. QED
    BY <2>1, <2>3
<1>7. ASSUME NEW n \in Process, NEW m \in Process, Handle(n, m) PROVE Stays
  <2>1. PICK c \in fetched[n][m] : OnPeerMessage(n, ChainMsg(c), wire)
    BY <1>7 DEF Handle
  <2>2. ChainMsg(c) \in Msg /\ ChainMsg(c).data \in Known
    BY HeldIsMsg DEF ChainMsg
  <2>3. /\ \A k \in Process : chain'[k] \in Known
        /\ \A p \in wire' : p.msg.type # "TRANSACTION" => p.msg.data \in Known
    BY <2>1, <2>2, MessageKnown
  <2>4. \A k, l \in Process : cache'[k][l] \subseteq Known /\ fetched'[k][l] \subseteq Known
    <3>1. {} \in Held /\ fetched[n][m] \in Held
      BY DEF Held, Shapes
    <3>2. /\ cache' = [cache EXCEPT ![n][m] = fetched[n][m]]
          /\ fetched' = [fetched EXCEPT ![n][m] = {}]
      BY <1>7 DEF Handle
    <3>3. /\ cache'[n][m] = fetched[n][m] /\ fetched'[n][m] = {}
          /\ \A k, l \in Process : k # n \/ l # m =>
               cache'[k][l] = cache[k][l] /\ fetched'[k][l] = fetched[k][l]
      BY <3>1, <3>2, HeldUpdate DEF Shapes
    <3>4. QED
      BY <3>3
  <2>5. Known' \subseteq Known
    BY <2>3, <2>4, KnownNext
  <2>6. QED
    BY <1>7, <2>5 DEF Handle, bounds
<1>8. ASSUME NEW p \in wire, Receive(p) PROVE Stays
  <2>1. /\ p.to \in Process /\ p.msg \in Msg /\ wire \ {p} \in SUBSET wire
        /\ OnPeerMessage(p.to, p.msg, wire \ {p})
    BY <1>8 DEF Receive, Shapes, Post
  <2>2. /\ \A k \in Process : chain'[k] \in Known
        /\ \A q \in wire' : q.msg.type # "TRANSACTION" => q.msg.data \in Known
    BY <2>1, MessageKnown
  <2>3. Known' \subseteq Known
    BY <1>8, <2>2, KnownNext DEF Receive, sync
  <2>4. QED
    BY <1>8, <2>3 DEF Receive, bounds
<1>9. ASSUME NEW p \in wire, Lose(p) PROVE Stays
  <2>1. Known' \subseteq Known
    BY <1>9, KnownNext DEF Lose, sync
  <2>2. QED
    BY <1>9, <2>1 DEF Lose, bounds
<1>10. CASE UNCHANGED vars
  BY <1>1, <1>10 DEF vars, bounds
<1>11. QED
  BY <1>2, <1>3, <1>4, <1>5, <1>6, <1>7, <1>8, <1>9, <1>10 DEF Next, Poll, Deliver

-----------------------------------------------------------------------------
(* One history of blocks.                                                   *)

\* The numbers given so far bound those in known chains, and their lengths:
\* the number of the next block is a new one.
KnownBounded ==
  \A c \in Known : Len(c) <= mined /\ \A i \in 1..Len(c) : c[i].number <= mined

\* A chain with a block of a new number agrees with every chain that the one
\* without it agreed with.
LEMMA AgreeAppend ==
  ASSUME NEW c \in Seq(Block), NEW d \in Seq(Block), NEW b \in Block,
         Agree(c, d), Agree(d, c),
         \A j \in 1..Len(d) : d[j].number # b.number
  PROVE  Agree(Append(c, b), d) /\ Agree(d, Append(c, b))
<1> DEFINE a == Append(c, b)
<1>1. /\ a \in Seq(Block) /\ Len(c) \in Nat /\ Len(a) = Len(c) + 1
      /\ \A i \in 1..Len(c) : a[i] = c[i]
      /\ a[Len(c) + 1] = b
  BY AppendShape
<1> HIDE DEF a
<1>2. DOMAIN a = 1..Len(a) /\ DOMAIN c = 1..Len(c) /\ DOMAIN d = 1..Len(d)
  BY <1>1
<1>3. ASSUME NEW i \in 1..Len(a), NEW j \in 1..Len(d), a[i].number = d[j].number
      PROVE  i = j /\ SubSeq(a, 1, i) = SubSeq(d, 1, j)
  <2>1. i # Len(c) + 1
    BY <1>1, <1>3
  <2>2. i \in 1..Len(c)
    BY <1>1, <2>1
  <2>3. c[i].number = d[j].number
    BY <1>1, <1>3, <2>2
  <2>4. i = j /\ SubSeq(c, 1, i) = SubSeq(d, 1, j)
    BY <1>2, <2>2, <2>3 DEF Agree
  <2>5. SubSeq(a, 1, i) = SubSeq(c, 1, i)
    <3>1. i \in Nat /\ i <= Len(c) /\ i <= Len(a) /\ \A k \in 1..i : k \in 1..Len(c)
      BY <1>1, <2>2
    <3>2. \A k \in 1..i : a[k] = c[k]
      BY <1>1, <3>1
    <3>3. QED
      BY <1>1, <3>1, <3>2, SameCut
  <2>6. QED
    BY <2>4, <2>5
<1>4. Agree(a, d)
  BY <1>2, <1>3 DEF Agree
<1>5. Agree(d, a)
  <2>1. ASSUME NEW j \in DOMAIN d, NEW i \in DOMAIN a, d[j].number = a[i].number
        PROVE  j = i /\ SubSeq(d, 1, j) = SubSeq(a, 1, i)
    <3>1. i \in 1..Len(a) /\ j \in 1..Len(d) /\ a[i].number = d[j].number
      BY <1>2, <2>1
    <3>2. QED
      BY <1>3, <3>1
  <2>2. QED
    BY <2>1 DEF Agree
<1>6. QED
  BY <1>4, <1>5 DEF a

\* So does it with itself.
LEMMA AgreeSelf ==
  ASSUME NEW c \in Seq(Block), NEW b \in Block, Agree(c, c),
         \A j \in 1..Len(c) : c[j].number # b.number
  PROVE  Agree(Append(c, b), Append(c, b))
<1> DEFINE a == Append(c, b)
<1>1. /\ a \in Seq(Block) /\ Len(c) \in Nat /\ Len(a) = Len(c) + 1
      /\ \A i \in 1..Len(c) : a[i] = c[i]
      /\ a[Len(c) + 1] = b
  BY AppendShape
<1>2. Agree(a, c)
  BY AgreeAppend
<1> HIDE DEF a
<1>3. DOMAIN a = 1..Len(a) /\ DOMAIN c = 1..Len(c)
  BY <1>1
<1>4. ASSUME NEW i \in 1..Len(a), NEW j \in 1..Len(a), a[i].number = a[j].number
      PROVE  i = j
  <2>1. ASSUME NEW k \in 1..Len(a), NEW l \in 1..Len(c), a[k].number = c[l].number
        PROVE  k = l
    BY <1>2, <1>3, <2>1 DEF Agree
  <2>2. CASE j \in 1..Len(c)
    BY <1>1, <1>4, <2>1, <2>2
  <2>3. CASE i \in 1..Len(c)
    BY <1>1, <1>4, <2>1, <2>3
  <2>4. CASE i = Len(c) + 1 /\ j = Len(c) + 1
    BY <2>4
  <2>5. QED
    BY <1>1, <2>2, <2>3, <2>4
<1>5. QED
  BY <1>3, <1>4 DEF Agree, a

\* The inductive step of both.
LEMMA HistoryStep ==
  ASSUME Shapes, KnownBounded, OneHistory, [Next]_vars
  PROVE  KnownBounded' /\ OneHistory'
<1>1. mined \in Nat /\ Known \subseteq Seq(Block)
  BY NetworkAssumption, KnownType DEF Shapes
<1>2. \A c, d \in Known : Agree(c, d)
  BY DEF OneHistory
<1> DEFINE K == Known \cup {<<>>}
<1>3. /\ K \subseteq Seq(Block)
      /\ \A c \in K : Len(c) <= mined /\ \A i \in 1..Len(c) : c[i].number <= mined
  <2>1. <<>> \in Seq(Block) /\ Len(<<>>) = 0 /\ 1..0 = {}
    OBVIOUS
  <2>2. \A c \in Known : Len(c) <= mined /\ \A i \in 1..Len(c) : c[i].number <= mined
    BY DEF KnownBounded
  <2>3. ASSUME NEW c \in K PROVE Len(c) <= mined /\ \A i \in 1..Len(c) : c[i].number <= mined
    <3>1. CASE c = <<>>
      BY <1>1, <2>1, <3>1
    <3>2. CASE c \in Known
      BY <2>2, <3>2
    <3>3. QED
      BY <2>3, <3>1, <3>2
  <2>4. QED
    BY <1>1, <2>1, <2>3
<1>4. \A c, d \in K : Agree(c, d)
  <2>1. ASSUME NEW c PROVE Agree(c, <<>>) /\ Agree(<<>>, c)
    <3>1. DOMAIN <<>> = {}
      OBVIOUS
    <3>2. QED
      BY <3>1 DEF Agree
  <2>2. QED
    BY <1>2, <2>1
<1>5. (\A c, d \in Known' : Agree(c, d)) => OneHistory'
  BY DEF OneHistory
<1> HIDE DEF K
<1>6. CASE mined' = mined /\ Known' \subseteq K
  <2>1. KnownBounded'
    BY <1>3, <1>6 DEF KnownBounded
  <2>2. QED
    BY <1>4, <1>5, <1>6, <2>1
<1>7. ASSUME NEW e \in Known, NEW b \in Block, b.number = mined + 1, mined' = mined + 1,
             Known' \subseteq K \cup {Append(e, b)}
      PROVE  KnownBounded' /\ OneHistory'
  <2> DEFINE a == Append(e, b)
  <2>1. e \in K /\ e \in Seq(Block) /\ Agree(e, e)
    BY <1>1, <1>2 DEF K
  <2>2. \A c \in K : \A i \in 1..Len(c) : c[i].number # b.number
    <3>1. ASSUME NEW c \in K, NEW i \in 1..Len(c) PROVE c[i].number # b.number
      <4>1. c[i] \in Block /\ c[i].number <= mined
        BY <1>3
      <4>2. QED
        BY <1>1, <1>7, <4>1, NetworkAssumption DEF Block
    <3>2. QED
      BY <3>1
  <2>3. Agree(a, a)
    BY <2>1, <2>2, AgreeSelf
  <2>4. \A d \in K : Agree(a, d) /\ Agree(d, a)
    BY <1>3, <1>4, <2>1, <2>2, AgreeAppend
  <2>5. /\ a \in Seq(Block) /\ Len(e) \in Nat /\ Len(a) = Len(e) + 1
        /\ \A i \in 1..Len(e) : a[i] = e[i]
        /\ a[Len(e) + 1] = b
    BY <2>1, AppendShape
  <2> HIDE DEF a
  <2>6. Len(a) <= mined + 1 /\ \A i \in 1..Len(a) : a[i].number <= mined + 1
    <3>1. Len(e) <= mined /\ \A i \in 1..Len(e) : e[i].number <= mined
      BY <1>3, <2>1
    <3>2. ASSUME NEW i \in 1..Len(a) PROVE a[i].number <= mined + 1
      <4>1. CASE i \in 1..Len(e)
        <5>1. e[i] \in Block /\ a[i] = e[i] /\ e[i].number <= mined
          BY <2>1, <2>5, <3>1, <4>1
        <5>2. e[i].number \in Int
          BY <5>1, NetworkAssumption DEF Block
        <5>3. QED
          BY <1>1, <5>1, <5>2
      <4>2. CASE i = Len(e) + 1
        BY <1>1, <1>7, <2>5, <4>2
      <4>3. QED
        BY <2>5, <4>1, <4>2
    <3>3. QED
      BY <1>1, <2>5, <3>1, <3>2
  <2>7. ASSUME NEW c \in K
        PROVE  Len(c) <= mined + 1 /\ \A i \in 1..Len(c) : c[i].number <= mined + 1
    <3>1. Len(c) \in Nat /\ Len(c) <= mined /\ \A i \in 1..Len(c) : c[i].number <= mined
      BY <1>3
    <3>2. \A i \in 1..Len(c) : c[i].number \in Int
      <4>1. \A i \in 1..Len(c) : c[i] \in Block
        BY <1>3
      <4>2. QED
        BY <4>1, NetworkAssumption DEF Block
    <3>3. QED
      BY <1>1, <3>1, <3>2
  <2>8. KnownBounded'
    BY <1>7, <2>6, <2>7 DEF KnownBounded, a
  <2>9. \A c, d \in Known' : Agree(c, d)
    BY <1>4, <1>7, <2>3, <2>4 DEF a
  <2>10. QED
    BY <1>5, <2>8, <2>9
<1>8. QED
  BY <1>6, <1>7, KnownGrows DEF K

-----------------------------------------------------------------------------
(* Remembered payloads, and peers that are yet to be tried.                 *)

\* A node that handles a message keeps its chain or gets a longer one.
LEMMA ChainsGrow ==
  ASSUME Shapes, NEW n \in Process, NEW msg \in Msg, NEW left \in SUBSET wire,
         OnPeerMessage(n, msg, left)
  PROVE  \A k \in Process : Len(chain'[k]) >= Len(chain[k])
<1>1. \A k \in Process : chain[k] \in Seq(Block) /\ Len(chain[k]) \in Nat
  BY DEF Shapes
<1>2. CASE UNCHANGED chain
  BY <1>1, <1>2
<1>3. CASE /\ msg.data \in Seq(Block) /\ chain' = [chain EXCEPT ![n] = msg.data]
           /\ Len(msg.data) > Len(chain[n])
  <2>1. chain'[n] = msg.data /\ \A k \in Process : k # n => chain'[k] = chain[k]
    BY <1>3 DEF Shapes
  <2>2. Len(chain'[n]) >= Len(chain[n])
    BY <1>1, <1>3, <2>1
  <2>3. QED
    BY <1>1, <2>1, <2>2
<1>4. QED
  BY <1>2, <1>3, MessageApplied

\* While chains only grow and no payload is remembered anew, what was
\* remembered stays short enough.
LEMMA CacheKept ==
  ASSUME Shapes, CacheSound, UNCHANGED cache,
         \A k \in Process : Len(chain'[k]) \in Nat /\ Len(chain'[k]) >= Len(chain[k])
  PROVE  CacheSound'
<1> SUFFICES ASSUME NEW n \in Process, NEW m \in Process, NEW c \in cache[n][m], Valid(c)
             PROVE  Len(chain'[n]) >= Len(c)
  BY DEF CacheSound, Valid, Derives, Parses
<1>1. cache[n][m] \in Held
  BY DEF Shapes
<1>2. c \in Seq(Block)
  BY <1>1 DEF Held
<1>3. Len(chain[n]) >= Len(c)
  BY DEF CacheSound
<1>4. Len(c) \in Nat /\ Len(chain[n]) \in Nat /\ Len(chain'[n]) \in Nat
  BY <1>2 DEF Shapes
<1>5. QED
  BY <1>3, <1>4

\* The inductive step: only a restart makes a chain shorter, and it forgets
\* what was remembered as well; and whether a payload is one to take does not
\* depend on the node.
LEMMA CacheStep ==
  ASSUME Shapes, CacheSound, [Next]_vars
  PROVE  CacheSound'
<1>1. Shapes'
  BY ShapesStep
<1>2. \A k \in Process : /\ chain[k] \in Seq(Block) /\ Len(chain[k]) \in Nat
                         /\ chain'[k] \in Seq(Block) /\ Len(chain'[k]) \in Nat
  BY <1>1 DEF Shapes
<1>3. ASSUME UNCHANGED <<chain, cache>> PROVE CacheSound'
  BY <1>3 DEF CacheSound, Valid, Derives, Parses
<1>4. ASSUME NEW n \in Process,
             \/ Start(n) \/ Connect(n) \/ Serve(n)
             \/ \E t \in Txn : Submit(n, t)
             \/ \E m \in Process : Fetch(n, m)
      PROVE  CacheSound'
  BY <1>3, <1>4 DEF Start, Connect, Serve, Submit, Fetch, sync
<1>5. ASSUME NEW n \in Process, Crash(n) PROVE CacheSound'
  <2>1. /\ cache' = [cache EXCEPT ![n] = [m \in Process |-> {}]]
        /\ chain' = [chain EXCEPT ![n] = <<>>]
    BY <1>5 DEF Crash
  <2>2. \A m \in Process : cache'[n][m] = {}
    BY <2>1 DEF Shapes
  <2>3. \A k \in Process : k # n => cache'[k] = cache[k] /\ chain'[k] = chain[k]
    BY <2>1 DEF Shapes
  <2>4. QED
    BY <2>2, <2>3 DEF CacheSound, Valid, Derives, Parses
<1>6. ASSUME NEW n \in Process, Mine(n) PROVE CacheSound'
  <2>1. /\ UNCHANGED cache
        /\ \E b \in Block : chain' = [chain EXCEPT ![n] = Append(chain[n], b)]
    BY <1>6, MineShape DEF sync
  <2> PICK b \in Block : chain' = [chain EXCEPT ![n] = Append(chain[n], b)]
    BY <2>1
  <2>2. Len(Append(chain[n], b)) = Len(chain[n]) + 1
    BY <1>2, <2>1, AppendShape
  <2>3. Len(chain'[n]) = Len(chain[n]) + 1 /\ \A k \in Process : k # n => chain'[k] = chain[k]
    BY <2>1, <2>2 DEF Shapes
  <2>4. \A k \in Process : Len(chain'[k]) >= Len(chain[k])
    BY <1>2, <2>3
  <2>5. QED
    BY <1>2, <2>1, <2>4, CacheKept
<1>7. ASSUME NEW n \in Process, NEW m \in Process, Handle(n, m) PROVE CacheSound'
  <2>1. PICK c \in fetched[n][m] : OnPeerMessage(n, ChainMsg(c), wire)
    BY <1>7 DEF Handle
  <2>2. ChainMsg(c) \in Msg /\ fetched[n][m] = {c}
    BY HeldIsMsg
  <2>3. \A k \in Process : Len(chain'[k]) >= Len(chain[k])
    BY <2>1, <2>2, ChainsGrow
  <2>4. Valid(c) => Len(chain'[n]) >= Len(c)
    BY <2>1, <2>2, MessageApplied DEF ChainMsg
  <2>5. /\ cache'[n][m] = {c}
        /\ \A k, l \in Process : k # n \/ l # m => cache'[k][l] = cache[k][l]
    <3>1. cache' = [cache EXCEPT ![n][m] = fetched[n][m]] /\ fetched[n][m] \in Held
      BY <1>7 DEF Handle, Shapes
    <3>2. QED
      BY <2>2, <3>1, HeldUpdate DEF Shapes
  <2>6. ASSUME NEW k \in Process, NEW l \in Process, NEW d \in cache'[k][l], Valid(d)
        PROVE  Len(chain'[k]) >= Len(d)
    <3>1. CASE k = n /\ l = m
      BY <2>4, <2>5, <2>6, <3>1
    <3>2. CASE k # n \/ l # m
      <4>1. d \in cache[k][l] /\ cache[k][l] \in Held
        BY <2>5, <3>2 DEF Shapes
      <4>2. d \in Seq(Block) /\ Len(d) \in Nat
        BY <4>1 DEF Held
      <4>3. Len(chain[k]) >= Len(d) /\ Len(chain'[k]) >= Len(chain[k])
        BY <2>3, <2>6, <4>1 DEF CacheSound
      <4>4. QED
        BY <1>2, <4>2, <4>3
    <3>3. QED
      BY <3>1, <3>2
  <2>7. QED
    BY <2>6 DEF CacheSound, Valid, Derives, Parses
<1>8. ASSUME NEW p \in wire, Receive(p) PROVE CacheSound'
  <2>1. /\ p.to \in Process /\ p.msg \in Msg /\ wire \ {p} \in SUBSET wire
        /\ OnPeerMessage(p.to, p.msg, wire \ {p}) /\ UNCHANGED cache
    BY <1>8 DEF Receive, Shapes, Post, sync
  <2>2. \A k \in Process : Len(chain'[k]) >= Len(chain[k])
    BY <2>1, ChainsGrow
  <2>3. QED
    BY <1>2, <2>1, <2>2, CacheKept
<1>9. ASSUME NEW p \in wire, Lose(p) PROVE CacheSound'
  BY <1>3, <1>9 DEF Lose, sync
<1>10. CASE UNCHANGED vars
  BY <1>3, <1>10 DEF vars, sync
<1>11. QED
  BY <1>4, <1>5, <1>6, <1>7, <1>8, <1>9, <1>10 DEF Next, Poll, Deliver

\* What TypeOK says of main's loop: the peers not tried yet are the last of
\* the list, a node that serves has tried all of them, and connections lead
\* to listed peers.
TodoSound ==
  \A n \in Process :
    /\ IsSuffix(todo[n], Peers[n]) /\ (todo[n] # <<>> => phase[n] = "connecting")
    /\ conn[n] \subseteq Range(Peers[n])

\* The inductive step.
LEMMA TodoStep ==
  ASSUME Shapes, TodoSound, [Next]_vars
  PROVE  TodoSound'
<1>1. \A n \in Process : Peers[n] \in Seq(Process)
  BY NetworkAssumption
<1>2. ASSUME UNCHANGED <<todo, phase, conn>> PROVE TodoSound'
  BY <1>2 DEF TodoSound
<1>3. ASSUME NEW n \in Process, Start(n) PROVE TodoSound'
  <2>1. /\ phase' = [phase EXCEPT ![n] = "connecting"] /\ todo' = [todo EXCEPT ![n] = Peers[n]]
        /\ UNCHANGED conn
    BY <1>3 DEF Start
  <2>2. IsSuffix(Peers[n], Peers[n])
    BY <1>1, SuffixEnds
  <2>3. QED
    BY <2>1, <2>2 DEF TodoSound, Shapes
<1>4. ASSUME NEW n \in Process, Connect(n) PROVE TodoSound'
  <2>1. /\ phase[n] = "connecting" /\ todo[n] # <<>> /\ todo' = [todo EXCEPT ![n] = Tail(@)]
        /\ UNCHANGED phase
        /\ \/ conn' = [conn EXCEPT ![n] = @ \cup {Head(todo[n])}]
           \/ UNCHANGED conn
    BY <1>4 DEF Connect
  <2>2. todo[n] \in Seq(Process) /\ IsSuffix(todo[n], Peers[n])
    BY DEF Shapes, TodoSound
  <2>3. IsSuffix(Tail(todo[n]), Peers[n]) /\ Head(todo[n]) \in Range(Peers[n])
    BY <1>1, <2>1, <2>2, SuffixTail
  <2>4. /\ todo'[n] = Tail(todo[n]) /\ \A k \in Process : k # n => todo'[k] = todo[k]
        /\ \A k \in Process : phase'[k] = phase[k]
    BY <2>1 DEF Shapes
  <2> DEFINE h == Head(todo[n])
  <2>5. h \in Range(Peers[n]) /\ (conn' = [conn EXCEPT ![n] = @ \cup {h}] \/ conn' = conn)
    BY <2>1, <2>3
  <2> HIDE DEF h
  <2>6. \A k \in Process : conn'[k] \subseteq Range(Peers[k])
    <3>1. \A k \in Process : conn[k] \subseteq Range(Peers[k])
      BY DEF TodoSound
    <3>2. conn \in [Process -> SUBSET Process]
      BY DEF Shapes
    <3>3. ASSUME NEW k \in Process PROVE conn'[k] = conn[k] \/ (k = n /\ conn'[k] = conn[n] \cup {h})
      BY <2>5, <3>2
    <3>4. QED
      BY <2>5, <3>1, <3>3
  <2>7. ASSUME NEW k \in Process
        PROVE  IsSuffix(todo'[k], Peers[k]) /\ (todo'[k] # <<>> => phase'[k] = "connecting")
    BY <2>1, <2>3, <2>4 DEF TodoSound
  <2>8. QED
    BY <2>6, <2>7 DEF TodoSound
<1>5. ASSUME NEW n \in Process, Serve(n) PROVE TodoSound'
  <2>1. /\ todo[n] = <<>> /\ phase' = [phase EXCEPT ![n] = "up"] /\ UNCHANGED <<todo, conn>>
    BY <1>5 DEF Serve
  <2>2. QED
    BY <2>1 DEF TodoSound, Shapes
<1>6. ASSUME NEW n \in Process, Crash(n) PROVE TodoSound'
  <2>1. /\ phase' = [phase EXCEPT ![n] = "down"] /\ todo' = [todo EXCEPT ![n] = <<>>]
        /\ conn' = [conn EXCEPT ![n] = {}]
    BY <1>6 DEF Crash
  <2>2. IsSuffix(<<>>, Peers[n])
    BY <1>1, SuffixEnds
  <2>3. QED
    BY <2>1, <2>2 DEF TodoSound, Shapes
<1>7. ASSUME NEW n \in Process,
             \/ Mine(n) \/ \E t \in Txn : Submit(n, t)
             \/ \E m \in Process : Fetch(n, m) \/ Handle(n, m)
      PROVE  TodoSound'
  BY <1>2, <1>7 DEF Mine, Submit, Fetch, Handle, life
<1>8. ASSUME NEW p \in wire, Receive(p) \/ Lose(p) PROVE TodoSound'
  BY <1>2, <1>8 DEF Receive, Lose, life
<1>9. CASE UNCHANGED vars
  BY <1>2, <1>9 DEF vars, life
<1>10. QED
  BY <1>3, <1>4, <1>5, <1>6, <1>7, <1>8, <1>9 DEF Next, Poll, Deliver

-----------------------------------------------------------------------------
(* The theorems.                                                            *)

NetInv == Shapes /\ TodoSound /\ KnownBounded /\ OneHistory /\ CacheSound

\* It holds before any node has started.
LEMMA NetInit == Init => NetInv
<1> SUFFICES ASSUME Init PROVE NetInv
  OBVIOUS
<1>1. /\ \A n \in Process : phase[n] = "down" /\ todo[n] = <<>> /\ conn[n] = {}
      /\ \A n \in Process : chain[n] = <<>> /\ pool[n] = {}
      /\ \A n, m \in Process : cache[n][m] = {} /\ fetched[n][m] = {}
      /\ wire = {} /\ mined = 0 /\ crashes = 0
  BY DEF Init
<1>2. Shapes
  <2>1. <<>> \in Seq(Process) /\ <<>> \in Seq(Block) /\ {} \in Held
    BY DEF Held
  <2>2. /\ phase \in [Process -> {"down", "connecting", "up"}]
        /\ todo \in [Process -> Seq(Process)] /\ conn \in [Process -> SUBSET Process]
    BY <2>1 DEF Init
  <2>3. chain \in [Process -> Seq(Block)] /\ pool \in [Process -> SUBSET Txn]
    BY <2>1 DEF Init
  <2>4. cache \in [Process -> [Process -> Held]] /\ fetched \in [Process -> [Process -> Held]]
    BY <2>1 DEF Init
  <2>5. QED
    BY <1>1, <2>2, <2>3, <2>4, NetworkAssumption DEF Shapes
<1>3. Known \subseteq {<<>>}
  BY <1>1, KnownWithin
<1>4. \A c \in Known : c = <<>> /\ Len(c) = 0 /\ 1..0 = {} /\ DOMAIN c = {}
  BY <1>3
<1>5. KnownBounded /\ OneHistory
  BY <1>1, <1>4 DEF KnownBounded, OneHistory, Agree
<1>6. TodoSound
  <2>1. \A n \in Process : IsSuffix(<<>>, Peers[n])
    BY NetworkAssumption, SuffixEnds
  <2>2. QED
    BY <1>1, <2>1 DEF TodoSound
<1>7. CacheSound
  BY <1>1 DEF CacheSound
<1>8. QED
  BY <1>2, <1>5, <1>6, <1>7 DEF NetInv

\* Every step keeps it.
LEMMA NetStep == NetInv /\ [Next]_vars => NetInv'
BY ShapesStep, TodoStep, HistoryStep, CacheStep DEF NetInv

\* The inductive invariant.
THEOREM NetInvariant == Spec => []NetInv
BY NetInit, NetStep, PTL DEF Spec

\* It implies the types: no chain is longer than the number of blocks mined.
LEMMA NetTypes == NetInv => TypeOK
<1> SUFFICES ASSUME NetInv PROVE TypeOK
  OBVIOUS
<1>1. mined \in Nat /\ mined <= MaxMined /\ MaxMined \in Nat
  BY NetworkAssumption DEF NetInv, Shapes
<1>2. \A c \in Known : c \in Chain
  <2>1. ASSUME NEW c \in Known PROVE c \in Chain
    <3>1. c \in Seq(Block) /\ Len(c) <= mined
      BY <2>1, KnownType DEF NetInv, KnownBounded
    <3>2. Len(c) \in 0..MaxMined /\ c \in [1..Len(c) -> Block]
      BY <1>1, <3>1
    <3>3. QED
      BY <3>2 DEF Chain, BoundedSeq, SeqOf
  <2>2. QED
    BY <2>1
<1>3. \A n \in Process : chain[n] \in Chain /\ pool[n] \subseteq Txn
  BY <1>2, KnownSources DEF NetInv, Shapes
<1>4. \A n, m \in Process : cache[n][m] \in Payload /\ fetched[n][m] \in Payload
  <2>1. ASSUME NEW h \in Held, h \subseteq Known PROVE h \in Payload
    BY <1>2, <2>1 DEF Held, Payload
  <2>2. \A n, m \in Process : cache[n][m] \in Held /\ fetched[n][m] \in Held
    BY DEF NetInv, Shapes
  <2>3. QED
    BY <2>1, <2>2, KnownSources
<1>5. QED
  BY <1>3, <1>4 DEF TypeOK, NetInv, Shapes, TodoSound

\* Types: the loops hold chains, only a node that is still connecting has
\* peers to try, and connections lead to listed peers.
THEOREM TypeCorrect == Spec => []TypeOK
BY NetInvariant, NetTypes, PTL

\* A payload that a sync loop skips is no longer than the node's chain, or
\* one that no node takes, whoever crashed since, the node or its peer, and
\* whether or not the node's own chain derives.
THEOREM CacheStaysSound == Spec => []CacheSound
<1>1. NetInv => CacheSound
  BY DEF NetInv
<1>2. QED
  BY <1>1, NetInvariant, PTL

\* Nodes, payloads and messages that agree on a block agree on all the blocks
\* before it, whatever was lost, overtaken or mined in parallel.
THEOREM HistoryIsOne == Spec => []OneHistory
<1>1. NetInv => OneHistory
  BY DEF NetInv
<1>2. QED
  BY <1>1, NetInvariant, PTL
=============================================================================
