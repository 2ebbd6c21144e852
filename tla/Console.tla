------------------------------ MODULE Console ------------------------------
(***************************************************************************)
(* One tab of the web console: the mounted page, the mining provider above *)
(* the pages, and the requests under way to the node, which answers from   *)
(* the version of its data at that moment and is also changed by others.   *)
(*                                                                         *)
(* A page's state is lost when it is left, and what its handlers set later *)
(* goes nowhere.  React runs the effects of a change before it handles the *)
(* next click, so they are part of the step that makes the change; the two *)
(* effects of the mining provider are steps of their own.                  *)
(***************************************************************************)
EXTENDS Address, Api, FiniteSets, SequencesExt

CONSTANTS
  Account,      \* addresses of wallets
  None,         \* null
  Slot,         \* bound: the calls that may be under way at once
  MaxVersion,   \* bound on the changes of the node's data
  MaxFaults     \* bound on lost requests and reloads

VARIABLES
  version,    \* the node: how often its chain or pool has changed
  faults,     \* lost requests and reloads so far
  wallet,     \* the address of the unlocked wallet, or None (module Wallet)
  history,    \* miningHistory, the blocks by the versions they made
  stored,     \* the history in sessionStorage
  isHydrated, \* the mining provider's
  page,       \* the page that is mounted
  view,       \* its state
  calls       \* the calls under way

vars == <<version, faults, wallet, history, stored, isHydrated, page, view, calls>>

node == <<version, faults>>
mining == <<history, stored, isHydrated>>

Page == {"blocks", "mempool", "mining", "wallet", "minting"}

\* Data that was not read (yet), or was wiped; a card then shows its empty state.
Unread == -1

\* useState of the pages; a page keeps to its own fields.
Blank(p) ==
  [info |-> None, txs |-> None,                            \* wallet
   health |-> "unknown", isMining |-> FALSE, miner |-> None, \* mining
   owner |-> FALSE, result |-> FALSE,                      \* minting: is there one
   blocks |-> Unread, headers |-> Unread, proof |-> FALSE, \* blocks
   pool |-> Unread,                                        \* mempool
   isLoading |-> p \in {"blocks", "mempool"}]

-----------------------------------------------------------------------------
(* Calls. *)

\* The requests that a handler awaits, together where there are two.
Paths ==
  [loadWallet |-> {"wallet/info", "transactions"}, refreshChain |-> {"blocks", "headers"},
   refreshPool |-> {"pool"}, refreshHealth |-> {"health"}, fetchProof |-> {"proof"},
   lookUpOwner |-> {"owner"}, mine |-> {"mine"}, send |-> {"transact/signed"},
   asset |-> {"transact/signed"}, create |-> {"wallet/generate"}]

ASSUME ConsoleAssumption ==
  /\ None \notin Account \cup DOMAIN Paths
  /\ MaxVersion \in Nat /\ MaxFaults \in Nat /\ NoBody \notin 0..MaxVersion
  /\ IsFiniteSet(Slot) /\ Slot # {}

Changing == {"mine", "transact/signed"}

\* Answers that show the node's version; of the others only whether there is one.
Versioned == {"blocks", "headers", "pool"} \cup Changing

\* Lookups of what may not exist.
Lookups == {"proof", "owner"}

Request(path) ==
  [method |-> IF path \in Changing \cup {"wallet/generate"} THEN "POST" ELSE "GET",
   path |-> path]

Pending == [how |-> "pending", status |-> 0, value |-> Nothing]

\* here: the page that made the call is still mounted; for: the address in
\* the closure of the handler; applied: history, the node did what was asked.
NoCall == [what |-> None, here |-> FALSE, for |-> None, applied |-> FALSE, got |-> <<>>]

Call(what, for) ==
  [what |-> what, here |-> TRUE, for |-> for, applied |-> FALSE,
   got |-> [p \in Paths[what] |-> Pending]]

FreeSlots(c) == {s \in Slot : c[s].what = None}
Place(c, call) == [c EXCEPT ![CHOOSE s \in FreeSlots(c) : TRUE] = call]

\* The calls c and, as far as the bound allows, those of the list.
Makes(c, list) ==
  Cardinality(FreeSlots(c)) >= Len(list) /\ calls' = FoldLeft(Place, c, list)

Without(s) == [calls EXCEPT ![s] = NoCall]

\* Promise.all: with every answer, or at the first failure.
Resolves(c) == \A p \in DOMAIN c.got : c.got[p].how = "resolved"
Rejects(c) == \E p \in DOMAIN c.got : c.got[p].how = "thrown"
Settles(s) == calls[s].what # None /\ (Resolves(calls[s]) \/ Rejects(calls[s]))
Got(c) == c.got[CHOOSE p \in DOMAIN c.got : TRUE].value

-----------------------------------------------------------------------------
(* The node, and the way to it. *)

Answered(s, p, r, applied) ==
  calls' = [calls EXCEPT ![s].got[p] = ApiRequest(Request(p), r),
                         ![s].applied = @ \/ applied]

Waits(s, p) == p \in DOMAIN calls[s].got /\ calls[s].got[p] = Pending

Body(p, v) == IF p \in Versioned THEN v ELSE 0

\* The node does what is asked, a change only while the bound allows it ...
Accept(s, p) ==
  /\ p \in Changing => version < MaxVersion
  /\ version' = IF p \in Changing THEN version + 1 ELSE version
  /\ Answered(s, p, Response(200, Body(p, version')), p \in Changing)

\* ... or refuses it.
Refuse(s, p) ==
  /\ p \in Changing \cup Lookups
  /\ version' = version /\ Answered(s, p, Response(400, 0), FALSE)

Serve(s, p) ==
  /\ Waits(s, p) /\ (Accept(s, p) \/ Refuse(s, p))
  /\ UNCHANGED <<faults, wallet, mining, page, view>>

\* A request or its answer is lost, the request perhaps after it was served.
Lose(s, p) ==
  /\ Waits(s, p) /\ faults < MaxFaults /\ faults' = faults + 1
  /\ \E done \in {FALSE, (p \in Changing /\ version < MaxVersion)} :
       /\ version' = IF done THEN version + 1 ELSE version
       /\ Answered(s, p, Unreachable, done)
  /\ UNCHANGED <<wallet, mining, page, view>>

\* Other clients and peers.
NodeMoves ==
  /\ version < MaxVersion /\ version' = version + 1
  /\ UNCHANGED <<faults, wallet, mining, page, view, calls>>

-----------------------------------------------------------------------------
(* Mounting pages, and what follows a change of wallet. *)

\* The mount effects.
MountCalls(p) ==
  CASE p = "blocks" -> <<Call("refreshChain", None)>>
    [] p = "mempool" -> <<Call("refreshPool", None)>>
    [] p = "mining" -> <<Call("refreshHealth", None)>>
    [] p = "wallet" /\ wallet # None -> <<Call("loadWallet", wallet)>>
    [] OTHER -> <<>>

Mounted(p) == [Blank(p) EXCEPT !.miner = IF p = "mining" THEN wallet ELSE None]

\* Calls that do more than set the state of their page.
Lasting == {"mine", "send", "asset", "create"}

Navigate(p) ==
  /\ p # page /\ page' = p /\ view' = Mounted(p)
  /\ Makes([s \in Slot |-> IF calls[s].what \in Lasting
                             THEN [calls[s] EXCEPT !.here = FALSE] ELSE NoCall],
           MountCalls(p))
  /\ UNCHANGED <<node, wallet, mining>>

\* The wallet page's refreshWalletData depends on the address, and so does
\* the effect that copies it to the mining page's form.
EffectCalls(w) ==
  IF page = "wallet" /\ w \notin {None, wallet} THEN <<Call("loadWallet", w)>> ELSE <<>>

Cleared(v) == [v EXCEPT !.info = None, !.txs = None]

EffectView(v, w) ==
  CASE w = wallet -> v
    [] page = "wallet" /\ w = None -> Cleared(v)
    [] page = "mining" /\ w # None -> [v EXCEPT !.miner = w]
    [] OTHER -> v

\* Connect, disconnect or forget, from the header or the page, or the end of
\* a flow that was started before.
SwitchWallet(w) ==
  /\ w # wallet /\ wallet' = w
  /\ view' = EffectView(view, w) /\ Makes(calls, EffectCalls(w))
  /\ UNCHANGED <<node, mining, page>>

\* Everything in memory is lost with the document.
Reload ==
  /\ faults < MaxFaults /\ faults' = faults + 1
  /\ wallet' = None /\ history' = <<>> /\ isHydrated' = FALSE
  /\ view' = Blank(page)
  /\ Makes([s \in Slot |-> NoCall], IF page = "wallet" THEN <<>> ELSE MountCalls(page))
  /\ UNCHANGED <<version, stored, page>>

-----------------------------------------------------------------------------
(* What the pages render: the data on display, none while it is loading. *)

\* The tabs of the blocks page.
ChainTabs == IF view.isLoading THEN {} ELSE {[blocks |-> view.blocks, headers |-> view.headers]}

PoolCard == IF view.isLoading THEN {} ELSE {view.pool}

HealthBadge == IF view.health = "unknown" THEN {} ELSE {view.health}

\* The accounts in the two cards at the foot of the wallet page.
Snapshot == {view.info} \ {None}
Transactions == {view.txs} \ {None}

-----------------------------------------------------------------------------
(* Clicks, and the timer of the mempool page. *)

On(p) == page = p /\ isHydrated

Asks(what, for) == Makes(calls, <<Call(what, for)>>)

MyCall(what) == \E s \in Slot : calls[s].what = what /\ calls[s].here

RefreshChain ==
  /\ On("blocks") /\ Asks("refreshChain", None)
  /\ view' = [view EXCEPT !.isLoading = TRUE]
  /\ UNCHANGED <<node, wallet, mining, page>>

\* Mutant: there is no timer.
UntimedRefreshPool == FALSE /\ UNCHANGED vars

\* The button, and every ten seconds.
RefreshPool ==
  /\ page = "mempool" /\ Asks("refreshPool", None)
  /\ view' = [view EXCEPT !.isLoading = TRUE]
  /\ UNCHANGED <<node, wallet, mining, page>>

\* The form is in one of the tabs; without an id the handler throws.
FetchProof ==
  /\ On("blocks") /\ ChainTabs # {}
  /\ \/ Asks("fetchProof", None) /\ UNCHANGED view
     \/ UNCHANGED calls /\ view' = [view EXCEPT !.proof = FALSE]
  /\ UNCHANGED <<node, wallet, mining, page>>

LookUpOwner ==
  /\ On("minting") /\ Asks("lookUpOwner", None)
  /\ UNCHANGED <<node, wallet, mining, page, view>>

\* A payment from the wallet page, with a recipient and an amount.
Send ==
  /\ On("wallet") /\ wallet # None /\ Asks("send", wallet)
  /\ UNCHANGED <<node, wallet, mining, page, view>>

\* Mint asset or Transfer asset.
SubmitAsset ==
  /\ On("minting") /\ wallet # None /\ Asks("asset", wallet)
  /\ UNCHANGED <<node, wallet, mining, page, view>>

\* Create or recover a wallet; the page is busy until the flow has ended.
ClickCreate ==
  /\ On("wallet") /\ ~MyCall("create") /\ Asks("create", wallet)
  /\ UNCHANGED <<node, wallet, mining, page, view>>

ClickMine ==
  /\ On("mining") /\ ~view.isMining /\ Asks("mine", view.miner)
  /\ view' = [view EXCEPT !.isMining = TRUE]
  /\ UNCHANGED <<node, wallet, mining, page>>

\* Typing, or the button "Use connected wallet address".
EditMiner ==
  /\ On("mining")
  /\ \E m \in Account \cup {None} : view' = [view EXCEPT !.miner = m]
  /\ UNCHANGED <<node, wallet, mining, page, calls>>

-----------------------------------------------------------------------------
(* What follows the await of a handler: what it sets from the call c. *)

\* Mutant: Promise.allSettled, each half set from its own answer.
AllSettledLoaded(v, c) ==
  [v EXCEPT !.info = IF c.got["wallet/info"].how = "resolved" THEN c.for ELSE @,
            !.txs = IF c.got["transactions"].how = "resolved" THEN c.for ELSE @]

Loaded(v, c) ==
  IF Resolves(c) THEN [v EXCEPT !.info = c.for, !.txs = c.for] ELSE v

ChainRefreshed(v, c) ==
  IF Resolves(c)
    THEN [v EXCEPT !.isLoading = FALSE,
                   !.blocks = c.got["blocks"].value, !.headers = c.got["headers"].value]
    ELSE [v EXCEPT !.isLoading = FALSE]

\* Mutant: what was awaited is shown without a look at whether it failed.
UncheckedPoolRefreshed(v, c) == [v EXCEPT !.isLoading = FALSE, !.pool = Got(c)]

PoolRefreshed(v, c) ==
  IF Resolves(c) THEN [v EXCEPT !.isLoading = FALSE, !.pool = Got(c)]
  ELSE [v EXCEPT !.isLoading = FALSE]

\* Mutant: a node that does not answer is not reported.
SilentHealthRefreshed(v, c) == IF Resolves(c) THEN [v EXCEPT !.health = "ok"] ELSE v

HealthRefreshed(v, c) == [v EXCEPT !.health = IF Resolves(c) THEN "ok" ELSE "DOWN"]

ProofFetched(v, c) == [v EXCEPT !.proof = Resolves(c)]

OwnerFound(v, c) == [v EXCEPT !.owner = Resolves(c)]

SettleRead(s) ==
  /\ Settles(s) /\ calls' = Without(s)
  /\ view' = CASE calls[s].what = "loadWallet" -> Loaded(view, calls[s])
               [] calls[s].what = "refreshChain" -> ChainRefreshed(view, calls[s])
               [] calls[s].what = "refreshPool" -> PoolRefreshed(view, calls[s])
               [] calls[s].what = "refreshHealth" -> HealthRefreshed(view, calls[s])
               [] calls[s].what = "fetchProof" -> ProofFetched(view, calls[s])
               [] calls[s].what = "lookUpOwner" -> OwnerFound(view, calls[s])
  /\ UNCHANGED <<node, wallet, mining, page>>

Settled(s, what) == Settles(s) /\ calls[s].what = what
Succeeded(s) == Resolves(calls[s]) /\ calls[s].here

\* Mutant: isMining is cleared only when a block was mined.
StuckMined(s) == IF Succeeded(s) THEN [view EXCEPT !.isMining = FALSE] ELSE view

Mined(s) == IF calls[s].here THEN [view EXCEPT !.isMining = FALSE] ELSE view

\* addMineResult belongs to the provider: it is called although the page may
\* have been left.
SettleMine(s) ==
  /\ Settled(s, "mine") /\ view' = Mined(s)
  /\ history' = IF Resolves(calls[s]) THEN <<Got(calls[s])>> \o history ELSE history
  /\ Makes(Without(s), IF Succeeded(s) THEN <<Call("refreshHealth", None)>> ELSE <<>>)
  /\ UNCHANGED <<node, wallet, stored, isHydrated, page>>

\* refreshWalletData of the closure: for the wallet that was connected at the
\* click.
SettleSend(s) ==
  /\ Settled(s, "send")
  /\ Makes(Without(s),
           IF Succeeded(s) THEN <<Call("loadWallet", calls[s].for)>> ELSE <<>>)
  /\ UNCHANGED <<node, wallet, mining, page, view>>

SettleAsset(s) ==
  /\ Settled(s, "asset") /\ calls' = Without(s)
  /\ view' = IF Succeeded(s) THEN [view EXCEPT !.result = TRUE] ELSE view
  /\ UNCHANGED <<node, wallet, mining, page>>

\* The flow ends with a wallet w, and the page refreshes the data of the one
\* that was connected at the click, before the effects of w; or it fails,
\* in the request or in a dialog (module Wallet).
SettleCreate(s) ==
  LET stale == calls[s].here /\ calls[s].for # None
      clears == calls[s].here /\ calls[s].for = None
  IN  /\ Settled(s, "create")
      /\ \/ calls' = Without(s) /\ UNCHANGED <<wallet, view>>
         \/ \E w \in Account :
              /\ Resolves(calls[s]) /\ wallet' = w
              /\ view' = EffectView(IF clears THEN Cleared(view) ELSE view, w)
              /\ Makes(Without(s),
                       (IF stale THEN <<Call("loadWallet", calls[s].for)>> ELSE <<>>)
                         \o EffectCalls(w))
      /\ UNCHANGED <<node, mining, page>>

Settle(s) ==
  \/ calls[s].what \notin Lasting /\ SettleRead(s)
  \/ SettleMine(s) \/ SettleSend(s) \/ SettleAsset(s) \/ SettleCreate(s)

-----------------------------------------------------------------------------
(* The mining provider. *)

Hydrate ==
  /\ ~isHydrated /\ isHydrated' = TRUE /\ history' = stored
  /\ UNCHANGED <<node, wallet, stored, page, view, calls>>

\* Mutant: the history is written before it was read.
UngatedPersist ==
  /\ stored # history /\ stored' = history
  /\ UNCHANGED <<node, wallet, history, isHydrated, page, view, calls>>

Persist ==
  /\ isHydrated /\ stored # history /\ stored' = history
  /\ UNCHANGED <<node, wallet, history, isHydrated, page, view, calls>>

-----------------------------------------------------------------------------
Init ==
  /\ version = 0 /\ faults = 0
  /\ wallet = None
  /\ history = <<>> /\ stored = <<>> /\ isHydrated = FALSE
  /\ \E p \in Page :
       /\ page = p /\ view = Blank(p)
       /\ calls = FoldLeft(Place, [s \in Slot |-> NoCall],
                           IF p = "wallet" THEN <<>> ELSE MountCalls(p))

Proceed(s) == Settle(s) \/ \E p \in DOMAIN calls[s].got : Serve(s, p)

Click ==
  \/ RefreshChain \/ FetchProof \/ LookUpOwner \/ Send \/ SubmitAsset
  \/ ClickCreate \/ ClickMine \/ EditMiner
  \/ \E p \in Page : isHydrated /\ Navigate(p)
  \/ \E w \in Account \cup {None} : isHydrated /\ SwitchWallet(w)

Next ==
  \/ \E s \in Slot :
       \/ Proceed(s)
       \/ \E p \in DOMAIN calls[s].got : Lose(s, p)
  \/ NodeMoves \/ Click \/ RefreshPool \/ Reload \/ Hydrate \/ Persist

\* Every request is answered or lost, what was awaited goes on, the effects
\* run and the timer fires; nobody has to click anything.
Fairness ==
  /\ \A s \in Slot : WF_vars(Proceed(s))
  /\ WF_vars(RefreshPool) /\ WF_vars(Hydrate) /\ WF_vars(Persist)

Spec == Init /\ [][Next]_vars /\ Fairness

-----------------------------------------------------------------------------
(* Properties. *)

OrNone == Account \cup {None}
Version == 0..MaxVersion
Read == Version \cup {Unread}

TypeOK ==
  /\ version \in Version /\ faults \in 0..MaxFaults
  /\ wallet \in OrNone /\ isHydrated \in BOOLEAN /\ page \in Page
  /\ Range(history) \subseteq Version /\ Range(stored) \subseteq Version
  /\ view.info \in OrNone /\ view.txs \in OrNone /\ view.miner \in OrNone
  /\ view.health \in {"unknown", "ok", "DOWN"}
  /\ view.blocks \in Read /\ view.headers \in Read /\ view.pool \in Read
  /\ {view.isMining, view.isLoading, view.owner, view.result, view.proof} \subseteq BOOLEAN
  /\ \A s \in Slot :
       /\ calls[s].what = None => calls[s] = NoCall
       /\ calls[s].what # None =>
            /\ DOMAIN calls[s].got = Paths[calls[s].what]
            /\ calls[s].for \in OrNone
            /\ \A p \in DOMAIN calls[s].got :
                 calls[s].got[p].how \in {"pending", "resolved", "thrown"}

\* The two cards that one Promise.all fills are filled together: balance and
\* history of one account, blocks and headers, however the two requests and
\* those of overlapping refreshes fail and finish (wallet and blocks pages).
PairsComplete ==
  /\ Snapshot = Transactions
  /\ \A shown \in ChainTabs : shown.blocks = Unread <=> shown.headers = Unread

\* A page is mining just while its own request to mine is under way, and
\* shows that it is loading only while something is, although pages are left
\* and opened again and refreshes overlap.
FlagsHonest ==
  /\ page = "mining" => (view.isMining <=> MyCall("mine"))
  /\ view.isLoading => MyCall("refreshChain") \/ MyCall("refreshPool")

\* What a page takes for success was done: a mine or a transaction whose
\* promise resolved was accepted by the node, on whichever of the two hops a
\* request or an answer was refused or lost (client.ts, route.ts, server.ts).
ConfirmedApplied ==
  \A s \in Slot :
    calls[s].what \in {"mine", "send", "asset"} /\ Resolves(calls[s]) => calls[s].applied

\* The page and the node agree on whose address was typed: the form the page
\* sends is the account that the node would have made of it.
RecipientMeant ==
  page \in {"wallet", "mining", "minting"} =>
    \A s \in Spelling :
      Unambiguous(s) => NodeNormalize(NormalizeAddress(s)) = NodeNormalize(s)

\* The history in sessionStorage only ever grows at its head, through
\* reloads and the time until it has been read back (mining-provider.tsx).
HistoryKept == [][IsSuffix(stored, stored')]_vars

\* What a page shows until it is answered.
Loading ==
  \/ page = "blocks" /\ ChainTabs = {}
  \/ page = "mempool" /\ PoolCard = {}
  \/ page = "mining" /\ HealthBadge = {}

\* No page stays in its loading state, also when the node cannot be reached.
\* (A user who keeps changing pages may see nothing else.)
LoadingEnds == []<>~Loading \/ []<><<page' # page>>_vars

\* "Live pending transactions" (mempool/page.tsx:52): a mempool page that is
\* left open comes to show the node's pool, although answers overtake each
\* other and may be lost.
PoolCatchesUp == <>[](page = "mempool") => <>[](view.pool = version)

\* "Full transaction list for connected address." (wallet/page.tsx:372):
\* with nothing being loaded, what is shown is the connected wallet's.
SnapshotOfConnected ==
  page = "wallet" /\ ~MyCall("loadWallet") => Snapshot \subseteq {wallet}
=============================================================================
