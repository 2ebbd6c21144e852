# voidchain: specification, model checking and proofs

voidchain is a small proof-of-work chain.  A C++ node (`src/`) keeps a chain of
blocks and a pool of pending transactions, mines on request and exchanges blocks,
chains and transactions with its peers; a Next.js front end (`voidchain-ui/`) and a
command line light client (`scripts/citizen_client.cpp`) talk to it over HTTP.  This
directory holds TLA+ modules translated from that code, the TLC configurations
that check them on small instances, and TLAPS proofs of theorems about them.

Paths below are relative to the repository root.

## 1. The system

| Component | State | Operations | Talks to |
|---|---|---|---|
| State rules, `src/core/State.cpp` | none; derives balances, owners and item lists from a chain | `deriveFromChain`, `validatePoolAdmission`, `validateBlockAppend`, `validateFullChain` | called by pool users, miner, chain, read-only routes |
| Blocks, `src/block.cpp` | immutable block | `genesis`, `mineBlock`, `hashBlock`, `adjustDifficulty`, `fromJson` | Merkle tree, clock |
| Merkle tree, `src/core/MerkleTree.h` | levels of hashes | `buildTree`, `getProof`, `verifyProof` | blocks, `/proof`, light client |
| Chain, `src/chain.cpp` | the vector of blocks, `chainMutex` | two `addBlock`s, `replaceBlockchain`, validity tests | miner, peer messages, `/headers`, `/proof`, `/transactions`, `/wallet/info`; the handlers read it without the lock |
| Pool, `src/TxnPool.cpp` | a map from id to transaction, no lock | `addTxn`, `remove`, `getTxn`, signature and format test | routes, peer messages, miner |
| Miner, `src/miner.cpp` | none | `mine` | pool, chain, state rules |
| Peer messages, `src/p2p_server.cpp` | set of WebSocket connections under `peersMutex` | `processMessage` (CHAIN, TRANSACTION, BLOCK), relaying | chain, pool, peer client |
| Peer client, `src/network/PeerClient.cpp` | outbound connections, one sync thread each, the last payload each saw | `connectToPeer`, `broadcast`, `syncLoop` | other nodes' `/health`, `/blocks`, `/peer/message` |
| Router and start, `src/router.cpp`, `src/main.cpp` | none | `/transact`, `/transact/signed`, `/mine`, `/peer/message`, read-only routes | all of the above |
| Wallet and crypto, `src/wallet.cpp`, `src/osslWrapper.cpp` | a key pair | sign, verify, address of a key | routes, format test |
| Light client, `scripts/citizen_client.cpp` | none | fetch headers, fetch a proof, compare | `/headers`, `/proof` |
| Request proxy and client, `voidchain-ui/app/api`, `voidchain-ui/lib/voidchain` | none | forward a request, turn a response into a value or an exception | pages, the node's routes |
| UI wallet, `wallet-provider.tsx`, `passkey-vault.ts` | the unlocked wallet and what is known of the vault, per tab; the vault in `localStorage`, for all tabs | create, recover, connect with a passkey, disconnect, forget, sign through the node | passkey dialogs, `/wallet/generate`, `/wallet/recover`, `/transact/signed` |
| UI mining provider, `mining-provider.tsx` | the mining history, its copy in `sessionStorage` | hydrate, persist, add a result | mining page |
| UI pages, `voidchain-ui/app/(dashboard)` and `dashboard-shell.tsx` | what was read, flags that disable and hide, per mounted page | load, refresh, look up, mine, submit | both providers, the request client |

How they meet: Crow serves requests on several threads (`main.cpp:84`) and every
connected peer has a sync thread.  All of them share one chain, one pool and one
miner.  `addBlock` and `replaceBlockchain` hold `chainMutex` from beginning to end, and the routes
`/headers`, `/proof`, `/transactions` and `/wallet/info` take it to copy the chain (`router.cpp:254`, `:277`, `:428`, `:449`).
The handlers that change something validate against the chain without it, and the pool has no lock at all.
They validate first and write later, so what they validated may be stale when they write.

Amounts are written by two libraries: `/transact`, the pool, the miner and the Merkle tree use nlohmann's text, which keeps every
digit; blocks on their way to a peer (`block.cpp:97`, `:127`), relayed transactions and the answer of `/proof` (`router.cpp:300`) go
through crow, whose numbers have six decimals.

What is hard here, and which property is about it, is listed under `hazards` in
`PROJECT.json`.  The main ones: overlapping `/mine` requests, transactions that
compete for one balance or one item in the pool, blocks and chains that arrive
between a check and the write it was for, adoption of a chain that leaves the pool as
it was, the comparison slack of payments, and transfers to oneself.  In the browser: dialogs
and requests that are awaited while tabs, pages and wallets change, answers that overtake each
other, and flags that belong to a page while the flow belongs to the provider above it.

What makes each component correct:

* state rules: nobody is overdrawn beyond the slack, the two item indexes agree,
  money is neither made nor lost, only the signer loses anything;
* chain: linked, difficulty and work follow the rules, the last hash seals the chain,
  never rewritten at its own length;
* pool and miner: what is mined can be applied, nothing pending is lost;
* node as a whole: every mined transaction is authentic, peers cannot break the
  derivation of the state, clients see a log of headers that only grows;
* UI wallet: vault, passkey, key and address stay together across flows and tabs, a page is
  busy just while its own flow runs, a secret on display stays until it is closed;
* UI pages: data that belongs together is shown together, a success that is reported was one,
  loading ends, the mempool page catches up with the node, the mining history survives reloads.

## 2. The modules

| Module | Models | Extends / uses |
|---|---|---|
| `State` | `core/State.cpp` and `TxnPool::verifyTxnSignatureAndFormat`, as operators | community sequences |
| `Replay` | `State::deriveFromChain` as a machine, one step per transaction and one per block | `State` |
| `Merkle` | `MerkleTree.h`: the tree, its proofs and their verification | community sequences |
| `Blockchain` | `block.cpp`, `chain.cpp` and the CHAIN branch of `processMessage` | `State`, `Merkle` |
| `ChainLog` | abstract: the log of headers a node promises to its followers | |
| `Node` | one process: threads, pool, miner, routes and peer messages over `Blockchain` | `Blockchain`, refines `ChainLog` |
| `LightClient` | `scripts/citizen_client.cpp` with the `/headers` and `/proof` routes of a node whose chain changes | `Blockchain` |
| `Network` | several nodes: connecting at start, `syncLoop`, relaying, loss and crashes; what one node does with a message is reduced to whether it applies | community sequences |
| `Address` | the spellings of an address, `normalizeAddress` of the front end and of the node | |
| `Api` | `client.ts`, `route.ts` and `server.ts`: what a response of the node is by the time a page has it | |
| `Wallet` | `wallet-provider.tsx` and `passkey-vault.ts` with the buttons of the wallet page and the header, in several tabs | `Address` |
| `Console` | one tab: the five pages, `mining-provider.tsx`, requests under way and the node they ask | `Address`, `Api` |
| `Bodies` | every body of transactions with its tree and proofs, one leaf added at a time | `Merkle` |
| `MCReplay`, `MCNode`, `MCLightClient`, `MCNetwork`, `MCWallet`, `MCConsole` | small instances for TLC | the module each is named for |
| `Lists` | lemmas: induction through sets of numbers, folds, appending, cutting, suffixes | library theorems, TLAPS |
| `BlockchainProofs` | lemmas about the account rules, the derivation as a fold, and each way a chain changes | `Blockchain`, `Lists` |
| `ReplayProofs`, `NodeProofs` | theorems and their proofs | `Replay`, `Node`, `BlockchainProofs` |
| `LightClientProofs` | the same, of the light client, the chain and the Merkle tree | `LightClient`, `Bodies`, `BlockchainProofs` |
| `NetworkProofs`, `ConsoleProofs` | the same | `Network`, `Console`, `Lists` |
| `WalletProofs` | the same | `Wallet`, TLAPS |

### Correspondence

*Transactions.*  A record with id, kind, `from`, `to`, amount, item and `signer`.
The signer is the normalized address of `senderPubKey` when the signature verifies
over the content, otherwise the empty address: that is all `Verified` needs of the
cryptography.  `from` and `to` are spellings; `Norm` is `normalizeAddress`, and the
instances have an account with two spellings because the code compares addresses
sometimes normalized and `COINBASE` always literally.  Amounts are integers and
`Eps` is `kFloatEpsilon` in the same unit, so that the slack of the comparisons is
kept; rounding of doubles is not modelled, that of crow's six decimals is (`Wire` in `LightClient`, `flaw` in `Network`).

*Derived state.*  `DerivedState` keeps the three maps and one flag for the result
of the derivation.  A balance absent from the map is zero, as `getBalance` returns.

*Blocks.*  SHA-256 is collision-free here: a block's hash is the sequence of headers up
to it.  A nonce stands for the number of leading zeros it gives, and the mining loop
for the last round of it.  A Merkle hash is the term it commits to: `Leaf(x)` for the hash of
a transaction, `Pair(l, r)` for the hash of two hashes.  `Parents` doubles the last node
of an odd level as `buildTree` does, so two bodies with one root in the code
have one root in the model.  (Leaf and pair hashes are kept apart here; the code
hashes text in the one and two hexadecimal digests in the other, and no transaction's text is a
pair of digests.)

*Threads.*  `Node.job` is what a worker thread has in its local variables.
A handler is cut at every access to the shared chain or pool that can interleave:
`ReceiveTxn` (copy of the pool), `Admit` (`validatePoolAdmission`), `LookUp` and `Insert`
(the two halves of `addTxn`); `StartMine`, one `Select` per pending transaction, `Mine`
(the locked `addBlock`), one `Purge` per id; `CheckBlock`, `AddBlock` and the same
`Purge` for received blocks; `AdoptChain` is one action, because what it does before
the lock reads the message alone.  `validatePoolAdmission` is one step although it
reads the chain by reference: it reads nothing else that is shared.

*Environment.*  `Txn`, `PeerBlock` and `PeerChain` are what the wire may carry, at any
time and any number of times; this covers lost, late, repeated and reordered messages and
peers on other forks.  `Restart` loses everything, since nothing is stored.

*Light client.*  One run of the program: `FetchHeaders`, `FetchProof`, `Check`, or
`FailRequest` at either request.  Each answer is a snapshot of the chain; `ChainNext` runs in
between.  `seen` and `found` are history variables.  `Wire` is what crow leaves of a transaction: its amount rounded to
`Grain`, six decimals in the unit of amounts, and with another amount no signature that verifies.  The proof is made for the
transaction, the answer carries `Wire` of it, and the client hashes that.  Bodies mined here may have any amount;
peers' blocks are read through crow, so `PeerBlock` and `PeerChain` hold what is left of theirs, under the
root of the body that the peer had, and `FromJsonAccepts` refuses those in which that makes a difference.

*Network.*  `Start`, `Connect` and `Serve` are `main`: each configured peer is tried once,
before the node serves anything itself.  A sync loop is `Fetch` (the GET and the comparison
with the last payload) and `Handle` (`onMessage_`, then the payload is remembered); another
message may be handled in between.  `wire` holds the POSTs to `/peer/message`; each is
delivered once, in any order, or lost.  A POST is a step of its own and the handler
that sends it does not wait for the answer, so handlers that wait for one another are not
modelled.  A block's `number` stands for its hash, and its `flaw` for what makes other nodes turn it down:
its body does not apply (`"state"`, the outcome of `rival_claims`, `zero_payment` and `two_miners`), or its text has
another Merkle root at a peer (`"text"`, an amount of more than six decimals).  Any block with pending transactions may have
either.  `Applicable` is then `processMessage` test by test: a CHAIN message must be longer, derive (`validateFullChain`) and parse;
a BLOCK message must follow a chain that derives, derive with it and parse; a TRANSACTION message needs a chain that
derives, must not be pending, and may be refused all the same (`Refusable`), since balances are not
modelled.  Two tests are left out because they cannot fail between nodes that run this program: the genesis block is a
constant, and `isValidBlockchain` asks for what `AlwaysLinked` proves of every node's chain.  The WebSocket side of
`P2pServer` is left out: a node opens no such connection to another.

*Wallet.*  A flow is a promise chain, cut at the awaits in which something else can
happen: the request (`Answer`), the dialog that makes a passkey (`CreatePasskey`), the dialog
that verifies one (`Provision`, `Unlock`), and at each of them it may fail (`Fail`, with the page's
`catch` and `finally`).  What a flow read before a dialog is in its record (`read`), because the code
uses that and not what is stored later.  `here` says whether the page that started the flow is still
mounted: `setIsBusy` and `setShowSecret` of a page that was left go nowhere.  Tabs share `vault` and
nothing else; `seen` is `hasVault` and `storedAddress` in one.  A key stands for its own address, the
address for its 40 digits; AES-GCM opens what was sealed under the same credential.  `writer` is a history variable.

*Console.*  A request under way is a record in `calls`: what its handler is to do, the address in the
closure of that handler, whether its page is still mounted, and the answer to each request it awaits
(`Promise.all` has two).  `Serve`, `Lose` and `NodeMoves` are the node and the network; the answer passes
through `Api` on both hops.  A `Settle...` action is what the handler does after its `await`, with its `catch` and
`finally`.  Mount effects and those that depend on the wallet run in the step that causes them, before
the next click, as React does; `Hydrate` and `Persist`, the two effects of the mining provider, are steps of
their own.  The node's data are a `version`, and what a page has read is the version it was read from
(`Unread` before).  The wallet is set and cleared by `SwitchWallet` and `SettleCreate`, in any way
`Wallet` allows and more.  Calls of a page that was left are dropped when they would only set its state.

*Left out of these modules.*  Torn reads of the chain vector and of
the pool's map, which the code reads without a lock: a crash they cause is a `Restart`,
corrupted values are not modelled.  JSON that does not parse: it changes no state.

*What crow's six decimals lead to.*  A payment of 0.1234567 is admitted and mined, and the node's own chain derives.  Its inclusion can never be
verified by the light client, and no other node takes a block or a chain with it: the node goes on alone, and its peers
catch up with everybody but it.  A node whose chain does not derive is left alone in the same way, until a
valid chain longer than its own reaches it.  `NoFalseAlarm`, `CacheSound` and `CatchesUp` are stated so that they say exactly this.

### Properties

| Property | Module | Says |
|---|---|---|
| `BalanceFloor` | Replay | no balance is below minus the slack, however often it is used |
| `IndexesAgree` | Replay | an account's item list is exactly what it owns |
| `SupplyIsMinted` | Replay | all balances together are the rewards minted |
| `OnlySignerLoses` | Replay | money and items leave an account only by a transaction it signed |
| `ChainLinked` | Blockchain | hash links, difficulty steps and work of every block |
| `TipSealsChain` | Blockchain | the last hash contains every header, every header its body's root, and the genesis block has no body |
| `OnlyGrows` | Blockchain | a step appends one block or adopts a longer chain that derives |
| `ChainDerivable` | Node | the state of the node's own chain can be derived |
| `ChainAuthentic` | Node | every transaction on the chain is signed, one reward a block |
| `OnlyMiningBreaksState` | Node | only a block mined here ends derivability |
| `OnlyAdoptionRepairsState` | Node | only a peer's chain or a restart restores it |
| `NoTxnLost` | Node | a transaction leaves the pool only onto the chain |
| `ServesGrowingLog` | Node | the headers of the node implement `ChainLog!Spec` |
| `ProofsVerify` | Bodies | every member has a proof that verifies, as long as the tree is high |
| `VerifiedIsMember` | Bodies | nothing else has a proof made of the tree's hashes |
| `RootBindsMembers` | Bodies | one root, one set of transactions, one order up to repetitions at the end |
| `PassMeansIncluded` | LightClient | a transaction that passes was on the chain the headers came from |
| `NoFalseAlarm` | LightClient | an honest answer fails the Merkle comparison only if crow changes the amount, and a missing header means that the block really was not on that chain |
| `CacheSound` | Network | a remembered payload is no longer than the node's own chain, or one that would be turned down again |
| `OneHistory` | Network | a hash has one history on every node, message and payload |
| `CatchesUp` | Network | in the end a node's chain is as long as that of every peer it polls, but for peers whose chain nobody takes |
| `RelayingEnds` | Network | relaying dies out, in cycles of peers too |
| `VaultOpens` | Wallet | the vault's own passkey opens it, to the key of its address |
| `KeysMatch` | Wallet | a tab signs with the key of the address it shows |
| `WriterKnows` | Wallet | the tab that wrote `localStorage` last knows what is there |
| `BusyMatches` | Wallet | a page is busy just while a flow it started is under way |
| `SecretStays` | Wallet | a secret on display is not replaced by another |
| `BusyEnds` | Wallet | the buttons of a busy page come back |
| `PairsComplete` | Console | cards filled by one `Promise.all` are filled together |
| `FlagsHonest` | Console | a page is mining or loading only while a request of its own is under way |
| `ConfirmedApplied` | Console | what a page takes for success the node has done |
| `RecipientMeant` | Console | the page and the node make one account of what was typed |
| `HistoryKept` | Console | the stored history only grows at its head |
| `LoadingEnds` | Console | no page that is left open stays in its loading state |
| `PoolCatchesUp` | Console | a mempool page left open comes to show the node's pool |
| `SnapshotOfConnected` | Console | with nothing loading, the wallet page shows the connected account |

The definitions preceded by a comment that begins with "Mutant" are not
part of the specification.  Each is a plausible bug in one definition;
putting it in that definition's place makes the property that `PROJECT.json` names with
it fail, which shows that the property depends on that piece of code.

## 3. The runs

All runs finish within three minutes.  `MaxBlocks` bounds the length of a
chain and `MaxTxns` the number of replayed transactions; they are guards of the
actions that grow them and stand for nothing in the code.

| Run | Instance | Shows |
|---|---|---|
| `replay` | 5 transactions: rewards and payments at, below and above the slack, of zero and negative amounts, to oneself, to nobody, forged; two items | the accounting properties |
| `node_pool` | 2 workers, 2 payments from one balance under 2 spellings, a claim and a gift of one item; peers' chains up to 3; no block or chain comes between a selection and its `addBlock`, and no fork is adopted during a purge (`Unhurried`); the workers are symmetric | `ChainDerivable` although the pool is overcommitted, `NoTxnLost` |
| `node_race` | 2 workers, rival claims of one item, peers' bodies with either claim, two rewards or a forged payment, and blocks whose difficulty jumps; chains up to 4 | `TypeOK`, `ChainLinked`, `ChainAuthentic`, `OnlyMiningBreaksState`, `OnlyAdoptionRepairsState`, `ServesGrowingLog` |
| `merkle` | lists of up to 6 of 2 transactions and a stranger, proofs of up to 3 nodes | `ProofsVerify`, `VerifiedIsMember`, `RootBindsMembers` |
| `light_client` | chains up to 3 blocks, 2 clock readings around `MINE_RATE_MS`, bodies of which two have one root and one an amount that crow rounds, two transactions under one id, an id nobody has; peers' chains and blocks with a last block altered in one of six ways, and chains with transactions in the genesis block | `TipSealsChain`, `OnlyGrows`, `PassMeansIncluded`, `NoFalseAlarm` |
| `network` | 2 nodes that list each other, 1 transaction; from each of two reachable states (all down, or both up and polling each other, one with a block that does not apply), 2 blocks more (`MaxMined` = 3 with the first) and 1 crash more (`MaxCrashes` = 2) | `TypeOK`, `CacheSound`, `OneHistory`, `CatchesUp`, `RelayingEnds` |
| `wallet` | 2 tabs, 2 flows at once (`Flow`), 2 keys, 2 passkeys (`MaxPasskeys`) | `TypeOK`, `VaultOpens`, `KeysMatch`, `WriterKnows`, `BusyMatches`, `SecretStays`, `BusyEnds` |
| `console` | 2 accounts, 2 calls at once (`Slot`), 1 change of the node's data (`MaxVersion`), 1 lost request or reload (`MaxFaults`) | `TypeOK`, `PairsComplete`, `FlagsHonest`, `ConfirmedApplied`, `RecipientMeant`, `HistoryKept`, `LoadingEnds`, `PoolCatchesUp` |

Why the bounds are enough: a fork needs two chains that differ in their second block and
one that is longer (3 blocks); a stale check needs two workers; competing
transactions need two, and a third to see that a free balance is still
spendable; a block after a broken one needs a fourth block; six leaves give trees with an odd
level at the bottom, above it, and none; two nodes poll each other only after one of them
has crashed and come back, two blocks make a fork of equal length, and two valid ones are needed to overtake a broken one (the
run begins where that has been mined, since a third block from the beginning is out of TLC's reach); two flows race for the vault in one tab or in two, and a wallet
has a key and a passkey that are not the other's; two calls overtake each other, with an answer from before
a change and one from after it.  The interesting cases
do happen in them: every action of every next-state relation fires, and the mutants fail.

`node_pool` keeps two workers but excludes two kinds of step, by the action constraint `Unhurried`.  The first:
the chain does not move while a miner has a selection in hand.  In the code it may, and then `ChainDerivable` is
false: the selection was validated against the chain before, and `addBlock` does not validate it again.  Two overlapping
`/mine` requests are the case that `two_miners` shows; a block of a peer, or its chain, that arrives between the
selection and `addBlock` with one of the selected transactions does the same, in chains of four blocks.
The second: no fork is adopted between an append and the end of its purge, because the purge then takes
transactions out of the pool that are on no chain any more, and `NoTxnLost` fails.  The run also leaves out rival
claims and payments of zero (`Orderly`), for which `ChainDerivable` is false in the code too, and gives every transaction an
identifier of its own (`UniqueIds`).  The node mines to `b` there: `a` gets its balance from a peer's
block, so that its two payments never both fit.  Exchanging the two workers maps behaviours to behaviours and both
properties to themselves, so the run explores one of each pair (`WorkerSymmetry`).

`replay` turns deadlock checking off: the loop ends at the end of the chain or at the first error.
So does `merkle`, whose list is full in the end, the run `network`, where nothing is left to do once the
blocks and crashes are used up and everybody has caught up, and the runs of the browser, where users may stop.
The other runs never stop, since a restart or a rejected message is always possible.

Four runs are expected to fail; each is a disagreement between the code and what the
repository says of it, described under `findings` in `PROJECT.json`:

* `rival_claims`: two pending claims of one unowned item are both admitted
  (`State.cpp:145` follows only owned items) and mined into one block, after which the
  node's chain no longer derives and every later admission and block is refused;
* `zero_payment`: admission does not test that an amount is positive, application does;
* `two_miners`: overlapping `/mine` requests put one item transfer on the chain twice;
* `stale_snapshot`: `refreshWalletData` sets what it awaited although the wallet was disconnected or
  changed meanwhile (`wallet/page.tsx:73`), and the page goes on showing the former account.

The first three have one cause in common: `Blockchain::addBlock(txns)` appends a mined
block without `validateBlockAppend` (`chain.cpp:12-21`), which the other `addBlock` calls.

### Fairness and liveness

`Network`, `Wallet` and `Console` assume fairness; elsewhere nothing must happen eventually.

* `WF(Connect \/ Serve)` per node: the loop of `main` waits at most 1.5 s for a peer and then
  goes on, and `app.run()` follows.
* `WF(Poll)` per pair of nodes: a sync loop runs until its process ends, and one of its
  requests to a peer that serves is answered some day.
* `WF(Deliver)`: a POST is answered, refused or timed out after 2 s.  All of them may be lost, so
  `CatchesUp` rests on polling alone.

* `WF(Fail)` per flow of `Wallet`: a dialog ends after its 60 s (`passkey-vault.ts:101`, `:125`) at the latest, and a request is
  answered or fails.  A flow need not succeed for `BusyEnds`.
* `WF(Proceed)` per call of `Console`: a request is answered or lost, and what was awaited goes on.  This takes
  for granted that `fetch` does not hang for ever; neither hop sets a time limit, the browser and the operating system do.
* `WF(RefreshPool)`: the timer of ten seconds, while the mempool page is mounted.  `WF(Hydrate)` and `WF(Persist)`: React
  runs the effects of what it has rendered.

Nobody is obliged to start, mine, submit, crash, click or leave a page.  Mining is bounded, so `CatchesUp` speaks of what
happens once mining pauses, and of peers whose chain can be taken: with equal lengths two nodes may stay on different forks for
ever, and the property says no more than lengths for that reason.

## 4. What is proved

With TLAPS, for every value of the constants that satisfies the named assumptions.  These say that constants have
the types the code gives them and that bounds are numbers (`TxnAssumption`, `ClockAssumption`,
`PeerAssumption`, `BoundAssumption`, `BodyAssumption`, `NetworkAssumption`, `WalletAssumption`), and beyond that: the empty
address and "no owner" are not addresses (`AddressAssumption`), the slack is smaller than the
reward (`AmountAssumption`), a reward address is not empty and the reward's identifier neither (`NodeAssumption`), a chain
names finitely many accounts (`FiniteAssumption`), the light client asks for a transaction that has an
identifier (`WantedAssumption`), and "nothing there" is told apart from an account and a
version (`ConsoleAssumption`).  TLC evaluates all of them in the runs.

Two theorems have a hypothesis more, stated in `Node` under a name and as an `ASSUME` or a conjunct of the theorem:
`Orderly`, `Unhurried` and `UniqueIds`.  The code enforces none of them.  The theorems say that nothing else is
missing; the runs that expect a violation show what happens without the first two.

*Induction.*  The provers have no schema for induction over data.  `Lists` gets around it: `LeastElement` is proved from the
library's facts about well-founded relations, `SetInduction` follows for any *set* of natural numbers, and a statement
about all lengths, levels or prefixes is proved by showing that the set of numbers at which it fails is empty.  Folds are treated through
the sequence of their intermediate results: `FoldsTo` in `BlockchainProofs` says that there is such a sequence, and
`BodyFold`, `DeriveFold`, `OutflowFold` and `OwnerFold` that the four folds of `State` are of that form.

`BlockchainProofs`:

* `PaymentEffect`, `RewardEffect` and `AssetEffect` say entry by entry what `Effect` does, `AppliesCases` splits a
  transaction that applies into the three kinds; the self-payment and self-transfer cases are split off,
  because there two assignments meet in one map entry.
* `AppendValidIsDerivable`: `validateBlockAppend` accepts a block just when `deriveFromChain` accepts the chain that the block
  makes.  The lemmas under it, `BodyAppend` and `DeriveAppend`, say that the state after one more is the state before with
  one more applied.
* `AppendMinedKeepsLinks`, `AppendReceivedKeepsLinks`, `ReceiveChainKeepsLinks`: what each way to change the chain keeps, once for the
  node and the light client.

`ReplayProofs`:

* `TypeCorrect`, `FloorHolds`, `IndexesHold`, `SignaturesProtect`: `TypeOK`, `BalanceFloor`,
  `IndexesAgree` and `OnlySignerLoses`.  `BalanceFloor` and `IndexesAgree` are inductive
  together with `TypeOK`.
* `SupplyHolds`: `SupplyIsMinted`, from what a sum over a finite set of accounts becomes when one or two of its entries change.

`NodeProofs`:

* `TypeCorrect` and `AlwaysLinked`: the invariant `TypedAndLinked` is `TypeOK` and
  `ChainLinked` together; neither is inductive alone, since mining reads the last block
  (typing it needs a non-empty chain) and a linked chain must be typed for its
  difficulties to be numbers.
* `AlwaysAuthentic`: `ChainAuthentic` is not inductive, because `addBlock` for a mined
  body verifies no signature.  `AuthenticInv` adds `KeptAuthentic`: what a miner has selected
  so far was verified and is no reward.  The pool's contents need no such
  invariant, as `Select` verifies again.
* `HeadersAreALog`: the refinement `ServesGrowingLog`.  The latest hash is the list of all headers (`Hashed`), so appending a
  block appends to the log, and an adopted chain is a log that begins with the genesis header.
* `OnlyMiningBreaks` and `OnlyAdoptionRepairs`: the two action properties, from `NodeStateStep`, which lists what a step may do to
  the derivation.  A received block is validated under the lock, so `AppendValidIsDerivable` gives that the chain with it derives;
  a mined block is not, but one that made a broken chain derive would contradict the same theorem.
* `SelectionSuffices`: with `Orderly`, and as long as `Unhurried` holds, `ChainDerivable`.  The invariant `DerivableInv` adds
  `KeptCovered`: for every miner's selection, the state in which its body ends (reward first) covers what admission counted.
  `Covered` is the relation between the two computations that the code never compares: the applied balance of an account is at least its
  chain balance less its pending outflow (incoming payments only add), and the applied owner of an item is the effective owner,
  or the item was unowned and has been claimed in the body, which admission does not see.  There `Orderly` is needed: the next
  claim it lets through must be by the same account.
* `NoneLost`: with `UniqueIds`, and as long as `Unhurried` holds, `NoTxnLost`.  `PoolInv`: no reward is in the pool or on
  its way into it, and whatever a worker is about to remove is on the chain.  Removal is by identifier, and so is
  replacement, which is why identifiers have to be unique.

`LightClientProofs`:

* `ServedProofsVerify`, `OnlyMembersVerify`, `RootBinds`: the three properties of `Bodies`, for bodies of any length.  The
  levels of a tree have the lengths `ParentsShape` gives them and end in one node (`DepthShape`); the nodes over a leaf are found by halving its
  position (`AncestorsShape`), and `GetProof` collects their siblings, so that `Climb` passes through them (`ProofVerifies`).
  For the converse the climb is followed down from the root: two pairs with one hash have equal halves.
* `TipAlwaysSeals`, `ChainOnlyGrows`: `TipSealsChain` and `OnlyGrows`, for every chain that nodes mine, receive and adopt.
* `PassIsInclusion`, `NoneTurnedDownWrongly`: `PassMeansIncluded` and `NoFalseAlarm`.  `LightInv` says what the headers and
  the answer in hand are snapshots of (`HeadersSeen`, `Answer`), whatever the chain became since.  The proof verifies for the
  transaction that the node found; when what the client received is another one, the comparison fails, and for no other reason.

`NetworkProofs`, for any number of nodes listed as peers in any way:

* `TypeCorrect`, `CacheStaysSound`, `HistoryIsOne`: `TypeOK`, `CacheSound` and `OneHistory`.  `NetInv` adds the shapes of messages
  and payloads (`Shapes`), that only a connecting node has peers left to try (`TodoSound`), and that blocks known anywhere were
  mined (`KnownBounded`).  `KnownGrows` says once which chains a step makes known; history follows from it.  `CacheSound` is kept
  because whether a CHAIN message is taken depends on the message and on the length of the node's chain alone, never on whether that
  chain derives, and because a restart, which alone makes a chain shorter, forgets the payloads too.

`ConsoleProofs`, for any number of calls, changes and faults:

* `TypeCorrect`, `PairsTogether`, `FlagsTrue`, `SuccessIsReal`, `StoredOnlyGrows`, `AddressesAgree`: `TypeOK`, `PairsComplete`,
  `FlagsHonest`, `ConfirmedApplied`, `HistoryKept` and `RecipientMeant`.  `ConsoleInv` has four parts: what is stored is a suffix of the history
  once that was read back (`RestOK`); pairs are filled together (`ViewOK`); each call waits for the requests of its
  handler, and an answer that resolved to a change was applied (`CallsOK`); the mining flag belongs to the one
  call of the page that will clear it (`FlagsOK`).

`WalletProofs`, for any number of tabs, flows, keys and passkeys:

* `TypeCorrect`, `AlwaysOpens`, `KeysAlwaysMatch`: the invariant `VaultInv` adds to `TypeOK`, `VaultOpens` and `KeysMatch`
  what a flow has in hand (`FlowsReady`): one that waits for its last dialog to unlock holds a vault that opens,
  the one read at the click, so that it does not matter what is stored by then.
* `BusyAlwaysMatches` and `SecretsStay`: `PageInv` adds to `BusyMatches` that at most one flow has a page waiting for it
  (`OnePerPage`), so that the flow which clears the flag is the last, and that none has while a secret is on display
  (`SecretQuiet`), which is why none can replace it.
* `WritersKnow`: every step that writes `localStorage` looks again.

## 5. What is model-checked only

* Liveness: `CatchesUp`, `RelayingEnds`, `BusyEnds`, `LoadingEnds` and `PoolCatchesUp`.  The provers handle neither fairness nor
  `ENABLED`.
* That `SelectionSuffices` needs its hypotheses: `rival_claims`, `zero_payment` and `two_miners`.

Every invariant and every action property that a passing run checks is stated by a theorem.

## 6. Plan

1. Handlers that wait for one another: the relaying POST inside the handler, Crow's fixed number of threads
   and the time limits that end the wait.
2. Miner and pool in `Network` with real admission, so that adoption, purge and relaying meet.
3. Read-only routes (`/state`, `/balance`, `/transactions`, `/proof`) as observers of one chain.
4. Theorems: that `Network` abstracts `Node`, one process of it at a time.

Not modelled in the front end: text in forms other than addresses, lookups that overtake each other (their
cards name what they answer), the copy buttons, toasts and their timers, bodies that are no JSON, other tabs in
`Console` (they share nothing with it but the vault, which is in `Wallet`).

Not planned: OpenSSL, JSON libraries, Crow and libcurl themselves, environment loading, CORS headers,
page layout.
