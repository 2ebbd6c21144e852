---------------------------- MODULE WalletProofs ----------------------------
(***************************************************************************)
(* Proofs about the browser's wallet, for any number of tabs, flows, keys  *)
(* and passkeys.  First the vault and what is unlocked from it, then the   *)
(* page and its flows.                                                     *)
(***************************************************************************)
EXTENDS Wallet, TLAPS

-----------------------------------------------------------------------------
(* Addresses and records. *)

\* The address of a key is already in the form that normalizeAddress gives.
LEMMA NormalAddress ==
  ASSUME NEW k \in Key
  PROVE  /\ AddressOf(k) \in Address
         /\ NormalizeAddress(AddressOf(k)) = AddressOf(k)
<1>1. AddressOf(k).prefix # "" /\ AddressOf(k).body = k
  BY DEF AddressOf, Canonical
<1>2. QED
  BY <1>1 DEF AddressOf, NormalizeAddress, Address

\* What a tab knows of a vault is its address, or that there is none.
LEMMA SyncKnows ==
  ASSUME NEW v \in OrNone(Vault)
  PROVE  /\ Sync(v) \in OrNone(Address)
         /\ v # None => Sync(v) = v.address
<1>1. CASE v = None
  BY <1>1 DEF Sync, OrNone
<1>2. CASE v # None
  <2>1. v.address \in Address
    BY <1>2 DEF OrNone, Vault
  <2>2. PICK k \in Key : v.address = AddressOf(k)
    BY <2>1 DEF Address
  <2>3. QED
    BY <1>2, <2>2, NormalAddress DEF Sync, OrNone
<1>3. QED
  BY <1>1, <1>2

\* The vault that provisionWalletVault saves is one, and opens.
LEMMA VaultSound ==
  ASSUME NEW k \in Key, NEW c \in 1..MaxPasskeys
  PROVE  WalletVault(k, c) \in Vault /\ Opens(WalletVault(k, c))
BY NormalAddress DEF WalletVault, Vault, Opens, Decrypts, EncryptSecret

-----------------------------------------------------------------------------
(* The vault and what is unlocked from it. *)

\* What a flow has when it has come as far as it says.
Ready(r) ==
  /\ r.at # "idle" => r.tab \in Tab
  /\ r.at # "idle" /\ r.kind = "recover" => r.secret \in Key
  /\ r.at = "passkey" => r.secret \in Key /\ r.kind \in {"create", "recover"}
  /\ r.at = "verify" /\ r.kind \in {"create", "recover"} =>
       r.secret \in Key /\ r.credential \in 1..MaxPasskeys
  /\ r.at = "verify" /\ r.kind = "connect" => r.read \in Vault /\ Opens(r.read)

FlowsReady == \A f \in Flow : Ready(flow[f])

\* The inductive invariant: a flow that was started from a vault that opens
\* still holds it when the vault in localStorage is another one.
VaultInv == TypeOK /\ FlowsReady /\ VaultOpens /\ KeysMatch

\* Idle is a record of a flow that has nothing yet.
LEMMA IdleReady == Idle \in FlowRecord /\ Ready(Idle)
BY DEF Idle, FlowRecord, OrNone, Ready

\* A click starts a flow that has what it needs.
LEMMA StartedReady ==
  ASSUME NEW t \in Tab, NEW here \in BOOLEAN
  PROVE  /\ Started("create", "request", t, here) \in FlowRecord
         /\ Ready(Started("create", "request", t, here))
         /\ \A k \in Key :
              LET r == [Started("recover", "request", t, here) EXCEPT !.secret = k]
              IN  r \in FlowRecord /\ Ready(r)
         /\ \A v \in Vault :
              LET r == [Started("connect", "verify", t, here) EXCEPT
                          !.read = v, !.credential = v.credentialId]
              IN  r \in FlowRecord /\ (Opens(v) => Ready(r))
<1>1. \A v \in Vault : v.credentialId \in 1..MaxPasskeys
  BY DEF Vault
<1>2. QED
  BY <1>1 DEF Started, Idle, FlowRecord, OrNone, Ready

\* Replacing one flow by another that is ready.
LEMMA PutFlow ==
  ASSUME flow \in [Flow -> FlowRecord], FlowsReady,
         NEW f \in Flow, NEW r \in FlowRecord, Ready(r),
         flow' = [flow EXCEPT ![f] = r]
  PROVE  flow' \in [Flow -> FlowRecord] /\ FlowsReady'
<1>1. \A g \in Flow : flow'[g] = IF g = f THEN r ELSE flow[g]
  OBVIOUS
<1>2. \A g \in Flow : Ready(flow'[g])
  BY <1>1 DEF FlowsReady
<1>3. QED
  BY <1>2 DEF FlowsReady

\* The end of a flow keeps the types of what it touches.
LEMMA EndTypes ==
  ASSUME TypeOK, FlowsReady, NEW f \in Flow, End(f)
  PROVE  /\ flow' \in [Flow -> FlowRecord] /\ FlowsReady'
         /\ isBusy' \in [Tab -> BOOLEAN]
<1>1. flow' = [flow EXCEPT ![f] = Idle]
  BY DEF End
<1>2. flow' \in [Flow -> FlowRecord] /\ FlowsReady'
  BY <1>1, IdleReady, PutFlow DEF TypeOK
<1>3. isBusy' \in [Tab -> BOOLEAN]
  BY DEF End, PageDone, TypeOK
<1>4. QED
  BY <1>2, <1>3

-----------------------------------------------------------------------------
(* Each step keeps the vault's invariant. *)

LEMMA InitVault == Init => VaultInv
<1> SUFFICES ASSUME Init PROVE VaultInv
  OBVIOUS
<1>1. TypeOK
  BY WalletAssumption, IdleReady DEF Init, TypeOK, OrNone
<1>2. FlowsReady
  BY IdleReady DEF Init, FlowsReady
<1>3. VaultOpens /\ KeysMatch
  BY DEF Init, VaultOpens, KeysMatch
<1>4. QED
  BY <1>1, <1>2, <1>3 DEF VaultInv

\* A step that leaves the vault and the wallets alone.
LEMMA KeepsVault ==
  ASSUME VaultInv, UNCHANGED <<vault, wallet>>
  PROVE  VaultOpens' /\ KeysMatch'
BY DEF VaultInv, VaultOpens, KeysMatch

LEMMA ClickStep ==
  ASSUME VaultInv, NEW t \in Tab, NEW f \in Flow,
         \/ ClickCreate(t, f) \/ ClickConnect(t, f) \/ HeaderConnect(t, f)
         \/ \E k \in Key : ClickRecover(t, f, k)
  PROVE  VaultInv'
<1>1. UNCHANGED <<stored, made, wallet, seen, onPage, showSecret>>
  BY DEF ClickCreate, ClickConnect, HeaderConnect, ClickRecover, Unlocking
<1>2. isBusy' \in [Tab -> BOOLEAN]
  BY DEF ClickCreate, ClickConnect, HeaderConnect, ClickRecover, PressOnPage,
         VaultInv, TypeOK
<1>3. flow' \in [Flow -> FlowRecord] /\ FlowsReady'
  <2>1. CASE ClickCreate(t, f)
    BY <2>1, StartedReady, PutFlow DEF ClickCreate, Begin, VaultInv, TypeOK
  <2>2. CASE \E k \in Key : ClickRecover(t, f, k)
    BY <2>2, StartedReady, PutFlow DEF ClickRecover, Begin, VaultInv, TypeOK
  <2>3. CASE \E here \in BOOLEAN : Unlocking(t, f, here)
    <3>1. PICK here \in BOOLEAN : Unlocking(t, f, here)
      BY <2>3
    <3>2. vault \in Vault /\ Opens(vault)
      BY <3>1 DEF Unlocking, VaultInv, VaultOpens, TypeOK, OrNone
    <3>3. QED
      BY <3>1, <3>2, StartedReady, PutFlow DEF Unlocking, Begin, VaultInv, TypeOK
  <2>4. QED
    BY <2>1, <2>2, <2>3 DEF ClickConnect, HeaderConnect
<1>4. TypeOK'
  BY <1>1, <1>2, <1>3 DEF VaultInv, TypeOK, stored, made
<1>5. QED
  BY <1>1, <1>3, <1>4, KeepsVault DEF VaultInv, stored

LEMMA AnswerStep ==
  ASSUME VaultInv, NEW f \in Flow, Answer(f)
  PROVE  VaultInv'
<1>1. UNCHANGED <<stored, wallet, seen, page, passkeys>>
  BY DEF Answer
<1>2. flow[f] \in FlowRecord /\ Ready(flow[f]) /\ flow[f].at = "request"
  BY DEF Answer, VaultInv, TypeOK, FlowsReady
<1>3. CASE flow[f].kind = "create"
  <2>1. PICK k \in Key \ generated :
          /\ generated' = generated \cup {k}
          /\ flow' = [flow EXCEPT ![f] = [flow[f] EXCEPT !.at = "passkey", !.secret = k]]
    BY <1>3 DEF Answer, Begin
  <2> DEFINE r == [flow[f] EXCEPT !.at = "passkey", !.secret = k]
  <2>2. r \in FlowRecord /\ Ready(r)
    BY <1>2, <1>3 DEF FlowRecord, Ready, OrNone
  <2>3. flow' \in [Flow -> FlowRecord] /\ FlowsReady'
    <3> HIDE DEF r
    <3>1. QED
      BY <2>1, <2>2, PutFlow DEF VaultInv, TypeOK, r
  <2>4. generated' \in SUBSET Key
    BY <2>1 DEF VaultInv, TypeOK
  <2>5. QED
    BY <1>1, <2>3, <2>4, KeepsVault DEF VaultInv, TypeOK, stored, page
<1>4. CASE flow[f].kind = "recover"
  <2> DEFINE r == [flow[f] EXCEPT !.at = "passkey"]
  <2>1. flow' = [flow EXCEPT ![f] = r] /\ generated' = generated
    BY <1>4 DEF Answer, Begin
  <2>2. r \in FlowRecord /\ Ready(r)
    BY <1>2, <1>4 DEF FlowRecord, Ready, OrNone
  <2>3. flow' \in [Flow -> FlowRecord] /\ FlowsReady'
    <3> HIDE DEF r
    <3>1. QED
      BY <2>1, <2>2, PutFlow DEF VaultInv, TypeOK
  <2>4. QED
    BY <1>1, <2>1, <2>3, KeepsVault DEF VaultInv, TypeOK, stored, page
<1>5. QED
  BY <1>3, <1>4 DEF Answer

LEMMA PasskeyStep ==
  ASSUME VaultInv, NEW f \in Flow, CreatePasskey(f)
  PROVE  VaultInv'
<1> DEFINE r == [flow[f] EXCEPT !.at = "verify", !.credential = passkeys']
<1>1. /\ UNCHANGED <<stored, wallet, seen, page, generated>>
      /\ passkeys' \in 1..MaxPasskeys
      /\ flow' = [flow EXCEPT ![f] = r]
  BY WalletAssumption DEF CreatePasskey, Begin, VaultInv, TypeOK
<1>2. flow[f] \in FlowRecord /\ Ready(flow[f]) /\ flow[f].at = "passkey"
  BY DEF CreatePasskey, VaultInv, TypeOK, FlowsReady
<1>3. r \in FlowRecord /\ Ready(r)
  BY <1>1, <1>2 DEF FlowRecord, Ready, OrNone
<1>4. flow' \in [Flow -> FlowRecord] /\ FlowsReady'
  <2> HIDE DEF r
  <2>1. QED
    BY <1>1, <1>3, PutFlow DEF VaultInv, TypeOK
<1>5. passkeys' \in 0..MaxPasskeys
  BY <1>1, WalletAssumption
<1>6. QED
  BY <1>1, <1>4, <1>5, KeepsVault DEF VaultInv, TypeOK, stored, page

\* The vault saved and the wallet set by one flow are of one key, whatever
\* other flows have made or saved since it started.
LEMMA ProvisionStep ==
  ASSUME VaultInv, NEW f \in Flow, Provision(f)
  PROVE  VaultInv'
<1> DEFINE k == flow[f].secret
           t == flow[f].tab
           c == flow[f].credential
           w == [address |-> NormalizeAddress(AddressOf(k)), secretKey |-> k]
<1>1. t \in Tab /\ k \in Key /\ c \in 1..MaxPasskeys
  BY DEF Provision, VaultInv, FlowsReady, Ready
<1>2. /\ vault' = WalletVault(k, c) /\ writer' = t
      /\ wallet' = [wallet EXCEPT ![t] = w]
      /\ seen' = [seen EXCEPT ![t] = Sync(vault')]
      /\ showSecret' \in {showSecret, [showSecret EXCEPT ![t] = k]}
      /\ End(f) /\ UNCHANGED <<made, onPage>>
  BY DEF Provision
<1>3. flow' \in [Flow -> FlowRecord] /\ FlowsReady' /\ isBusy' \in [Tab -> BOOLEAN]
  BY <1>2, EndTypes DEF VaultInv
<1>4. vault' \in Vault /\ Opens(vault')
  BY <1>1, <1>2, VaultSound
<1>5. w \in [address : Address, secretKey : Key] /\ w.address = AddressOf(w.secretKey)
  BY <1>1, NormalAddress
<1>6. Sync(vault') \in OrNone(Address)
  BY <1>4, SyncKnows DEF OrNone
<1> HIDE DEF k, t, c, w
<1>7. TypeOK'
  BY <1>1, <1>2, <1>3, <1>4, <1>5, <1>6 DEF VaultInv, TypeOK, OrNone, made
<1>8. KeysMatch'
  BY <1>2, <1>5 DEF VaultInv, TypeOK, KeysMatch
<1>9. QED
  BY <1>3, <1>4, <1>7, <1>8 DEF VaultInv, VaultOpens

\* What is unlocked is of one key: that of the vault as it was at the click.
LEMMA UnlockStep ==
  ASSUME VaultInv, NEW f \in Flow, Unlock(f)
  PROVE  VaultInv'
<1> DEFINE v == flow[f].read
           t == flow[f].tab
           w == Unlocked(f)
<1>1. t \in Tab /\ v \in Vault /\ Opens(v)
  BY DEF Unlock, VaultInv, FlowsReady, Ready
<1>2. /\ wallet' = [wallet EXCEPT ![t] = w]
      /\ seen' = [seen EXCEPT ![t] = Sync(vault)]
      /\ End(f) /\ UNCHANGED <<stored, made, onPage, showSecret>>
  BY DEF Unlock
<1>3. flow' \in [Flow -> FlowRecord] /\ FlowsReady' /\ isBusy' \in [Tab -> BOOLEAN]
  BY <1>2, EndTypes DEF VaultInv
<1>4. w \in [address : Address, secretKey : Key] /\ w.address = AddressOf(w.secretKey)
  <2>1. v.encryptedSecretKey.secret \in Key
    BY <1>1 DEF Vault
  <2>2. v.address = AddressOf(v.encryptedSecretKey.secret)
    BY <1>1 DEF Opens
  <2>3. QED
    BY <2>1, <2>2, NormalAddress DEF Unlocked
<1>5. Sync(vault) \in OrNone(Address)
  BY SyncKnows DEF VaultInv, TypeOK
<1> HIDE DEF v, t, w
<1>6. TypeOK'
  BY <1>1, <1>2, <1>3, <1>4, <1>5 DEF VaultInv, TypeOK, OrNone, stored, made
<1>7. KeysMatch'
  BY <1>2, <1>4 DEF VaultInv, TypeOK, KeysMatch
<1>8. VaultOpens'
  BY <1>2 DEF VaultInv, VaultOpens, stored
<1>9. QED
  BY <1>3, <1>6, <1>7, <1>8 DEF VaultInv

LEMMA FailStep ==
  ASSUME VaultInv, NEW f \in Flow, Fail(f)
  PROVE  VaultInv'
<1>1. End(f) /\ UNCHANGED <<stored, made, wallet, seen, onPage, showSecret>>
  BY DEF Fail
<1>2. flow' \in [Flow -> FlowRecord] /\ FlowsReady' /\ isBusy' \in [Tab -> BOOLEAN]
  BY <1>1, EndTypes DEF VaultInv
<1>3. QED
  BY <1>1, <1>2, KeepsVault DEF VaultInv, TypeOK, stored, made

\* The buttons, and the life of pages and tabs.
LEMMA TabVaultStep ==
  ASSUME VaultInv, NEW t \in Tab,
         \/ Disconnect(t) \/ Forget(t) \/ CloseSecret(t)
         \/ LeavePage(t) \/ OpenPage(t) \/ Reload(t)
  PROVE  VaultInv'
<1>1. FlowsReady' /\ flow' \in [Flow -> FlowRecord]
  <2>1. CASE LeavePage(t)
    <3>1. \A f \in Flow :
            flow'[f] \in {flow[f], [flow[f] EXCEPT !.here = FALSE]}
      BY <2>1 DEF LeavePage, Orphans
    <3>2. \A r \in FlowRecord :
            LET q == [r EXCEPT !.here = FALSE]
            IN  q \in FlowRecord /\ (Ready(r) => Ready(q))
      BY DEF FlowRecord, Ready
    <3>3. flow' = [f \in Flow |-> flow'[f]]
      BY <2>1 DEF LeavePage, Orphans
    <3>4. \A f \in Flow : flow[f] \in FlowRecord /\ Ready(flow[f])
      BY DEF VaultInv, TypeOK, FlowsReady
    <3>5. \A f \in Flow : flow'[f] \in FlowRecord /\ Ready(flow'[f])
      BY <3>1, <3>2, <3>4
    <3>6. QED
      BY <3>3, <3>5 DEF FlowsReady
  <2>2. CASE Reload(t)
    <3>1. flow' = [f \in Flow |-> IF flow[f].tab = t THEN Idle ELSE flow[f]]
      BY <2>2 DEF Reload
    <3>2. \A f \in Flow : flow[f] \in FlowRecord /\ Ready(flow[f])
      BY DEF VaultInv, TypeOK, FlowsReady
    <3>3. QED
      BY <3>1, <3>2, IdleReady DEF FlowsReady
  <2>3. CASE UNCHANGED flow
    BY <2>3 DEF VaultInv, TypeOK, FlowsReady
  <2>4. QED
    BY <2>1, <2>2, <2>3 DEF Disconnect, Forget, CloseSecret, OpenPage, page, made, stored
<1>2. vault' \in {vault, None} /\ writer' \in {writer, t}
      /\ UNCHANGED <<passkeys, generated>>
  BY DEF Disconnect, Forget, CloseSecret, LeavePage, OpenPage, Reload, stored, made
<1>3. wallet' \in {wallet, [wallet EXCEPT ![t] = None]}
  BY DEF Disconnect, Forget, CloseSecret, LeavePage, OpenPage, Reload
<1>4. seen' \in [Tab -> OrNone(Address)]
  <2>1. vault' \in OrNone(Vault)
    BY <1>2 DEF VaultInv, TypeOK, OrNone
  <2>2. Sync(vault) \in OrNone(Address) /\ Sync(vault') \in OrNone(Address)
    BY <2>1, SyncKnows DEF VaultInv, TypeOK
  <2>3. seen' \in {seen, [seen EXCEPT ![t] = Sync(vault)], [seen EXCEPT ![t] = Sync(vault')]}
    BY DEF Disconnect, Forget, CloseSecret, LeavePage, OpenPage, Reload
  <2>4. QED
    BY <2>2, <2>3 DEF VaultInv, TypeOK
<1>5. /\ onPage' \in [Tab -> BOOLEAN] /\ isBusy' \in [Tab -> BOOLEAN]
      /\ showSecret' \in [Tab -> OrNone(Key)]
  BY DEF Disconnect, Forget, CloseSecret, LeavePage, OpenPage, Reload, Unmount, page,
         VaultInv, TypeOK, OrNone
<1>6. TypeOK'
  BY <1>1, <1>2, <1>3, <1>4, <1>5 DEF VaultInv, TypeOK, OrNone
<1>7. VaultOpens' /\ KeysMatch'
  BY <1>2, <1>3 DEF VaultInv, TypeOK, VaultOpens, KeysMatch
<1>8. QED
  BY <1>1, <1>6, <1>7 DEF VaultInv

LEMMA VaultStep == VaultInv /\ [Next]_vars => VaultInv'
<1> SUFFICES ASSUME VaultInv, [Next]_vars PROVE VaultInv'
  OBVIOUS
<1>1. CASE UNCHANGED vars
  BY <1>1 DEF vars, VaultInv, TypeOK, FlowsReady, VaultOpens, KeysMatch
<1>2. CASE \E f \in Flow : FlowStep(f)
  BY <1>2, AnswerStep, PasskeyStep, ProvisionStep, UnlockStep, FailStep DEF FlowStep
<1>3. CASE \E t \in Tab : TabStep(t)
  BY <1>3, ClickStep, TabVaultStep DEF TabStep
<1>4. QED
  BY <1>1, <1>2, <1>3 DEF Next

LEMMA VaultInvariant == Spec => []VaultInv
BY InitVault, VaultStep, PTL DEF Spec

\* The tabs and what they share stay well typed, with any number of flows
\* under way (wallet-provider.tsx, passkey-vault.ts).
THEOREM TypeCorrect == Spec => []TypeOK
<1>1. VaultInv => TypeOK
  BY DEF VaultInv
<1>2. QED
  BY <1>1, VaultInvariant, PTL

\* The vault that any flow of any tab saved can be opened with the passkey it
\* names, to the key of its address (provisionWalletVault).
THEOREM AlwaysOpens == Spec => []VaultOpens
<1>1. VaultInv => VaultOpens
  BY DEF VaultInv
<1>2. QED
  BY <1>1, VaultInvariant, PTL

\* The wallet a tab signs with belongs to the address it shows, whatever
\* happened to the vault while the dialog was open (unlockWalletVault).
THEOREM KeysAlwaysMatch == Spec => []KeysMatch
<1>1. VaultInv => KeysMatch
  BY DEF VaultInv
<1>2. QED
  BY <1>1, VaultInvariant, PTL

-----------------------------------------------------------------------------
(* The page and its flows. *)

Mine(f, t) == flow[f].tab = t /\ flow[f].here

\* At most one flow has a page that waits for it, in each tab.
OnePerPage ==
  \A t \in Tab : \A f, g \in Flow : Mine(f, t) /\ Mine(g, t) => f = g

\* No flow that the page waits for goes on behind the dialog with the secret.
SecretQuiet == \A t \in Tab : showSecret[t] # None => ~isBusy[t]

IdleHere == \A f \in Flow : Free(f) => ~flow[f].here

\* The inductive invariant: BusyMatches needs that the flow which clears the
\* flag is the only one, and SecretStays that it is not under way any more.
PageInv == BusyMatches /\ OnePerPage /\ SecretQuiet /\ IdleHere

\* Nothing of it changes.
LEMMA KeepsPage ==
  ASSUME PageInv, UNCHANGED <<isBusy, onPage, flow>>,
         \A t \in Tab : showSecret'[t] \in {showSecret[t], None}
  PROVE  PageInv'
BY DEF PageInv, BusyMatches, OnePerPage, SecretQuiet, IdleHere, Mine, Free

\* A flow begins for which a page waits that was not busy.
LEMMA PressPage ==
  ASSUME TypeOK, PageInv, NEW t \in Tab, NEW f \in Flow, NEW r \in FlowRecord,
         Free(f), PressOnPage(t), r.tab = t, r.here, r.at # "idle",
         flow' = [flow EXCEPT ![f] = r], UNCHANGED <<onPage, showSecret>>
  PROVE  PageInv'
<1>1. /\ onPage[t] /\ showSecret[t] = None /\ ~isBusy[t]
      /\ isBusy' = [isBusy EXCEPT ![t] = TRUE]
  BY DEF PressOnPage, Clickable
<1>2. \A g \in Flow : ~Mine(g, t)
  BY <1>1 DEF PageInv, BusyMatches, Mine
<1>3. \A g \in Flow : flow'[g] = IF g = f THEN r ELSE flow[g]
  BY DEF TypeOK
<1>4. \A u \in Tab : isBusy'[u] = IF u = t THEN TRUE ELSE isBusy[u]
  BY <1>1 DEF TypeOK
<1>5. \A u \in Tab, g \in Flow :
        (flow'[g].tab = u /\ flow'[g].here)
          <=> IF u = t THEN g = f ELSE Mine(g, u)
  <2> TAKE u \in Tab, g \in Flow
  <2>1. CASE g = f
    <3>1. ~Mine(f, u)
      BY DEF PageInv, IdleHere, Mine
    <3>2. QED
      BY <2>1, <3>1, <1>3
  <2>2. CASE g # f
    BY <2>2, <1>2, <1>3 DEF Mine
  <2>3. QED
    BY <2>1, <2>2
<1>6. BusyMatches'
  <2> SUFFICES ASSUME NEW u \in Tab
               PROVE  /\ isBusy'[u] <=> \E g \in Flow : flow'[g].tab = u /\ flow'[g].here
                      /\ isBusy'[u] => onPage[u]
    BY DEF BusyMatches
  <2>1. CASE u = t
    BY <2>1, <1>1, <1>4, <1>5
  <2>2. CASE u # t
    <3>1. \A g \in Flow : (flow'[g].tab = u /\ flow'[g].here) <=> Mine(g, u)
      BY <2>2, <1>5
    <3>2. isBusy'[u] = isBusy[u]
      BY <2>2, <1>4
    <3>3. (isBusy[u] <=> \E g \in Flow : Mine(g, u)) /\ (isBusy[u] => onPage[u])
      BY DEF PageInv, BusyMatches, Mine
    <3>4. QED
      BY <3>1, <3>2, <3>3
  <2>3. QED
    BY <2>1, <2>2
<1>7. OnePerPage'
  BY <1>5 DEF PageInv, OnePerPage, Mine
<1>8. SecretQuiet'
  BY <1>1, <1>4 DEF PageInv, SecretQuiet
<1>9. IdleHere'
  BY <1>3 DEF PageInv, IdleHere, Free
<1>10. QED
  BY <1>6, <1>7, <1>8, <1>9 DEF PageInv

\* A flow goes on, or begins for no page.
LEMMA GoOnPage ==
  ASSUME TypeOK, PageInv, NEW f \in Flow, NEW r \in FlowRecord,
         r.here => flow[f].here /\ r.tab = flow[f].tab,
         flow[f].here => r.here, r.at = "idle" => ~r.here,
         flow' = [flow EXCEPT ![f] = r], UNCHANGED <<onPage, isBusy, showSecret>>
  PROVE  PageInv'
<1>1. \A g \in Flow : flow'[g] = IF g = f THEN r ELSE flow[g]
  BY DEF TypeOK
<1>2. \A u \in Tab, g \in Flow : Mine(g, u) <=> flow'[g].tab = u /\ flow'[g].here
  BY <1>1 DEF Mine
<1>3. BusyMatches' /\ OnePerPage'
  BY <1>2 DEF PageInv, BusyMatches, OnePerPage, Mine
<1>4. SecretQuiet' /\ IdleHere'
  BY <1>1 DEF PageInv, SecretQuiet, IdleHere, Free
<1>5. QED
  BY <1>3, <1>4 DEF PageInv

\* A flow ends; only one that its page waited for may show a secret.
LEMMA EndPage ==
  ASSUME TypeOK, PageInv, NEW f \in Flow, End(f), UNCHANGED onPage,
         \A t \in Tab : showSecret'[t] # showSecret[t] => Mine(f, t)
  PROVE  /\ PageInv'
         /\ \A t \in Tab : showSecret[t] # None => showSecret'[t] = showSecret[t]
<1>1. /\ flow' = [flow EXCEPT ![f] = Idle]
      /\ isBusy' = IF flow[f].here THEN [isBusy EXCEPT ![flow[f].tab] = FALSE] ELSE isBusy
  BY DEF End, PageDone
<1>2. \A g \in Flow : flow'[g] = IF g = f THEN Idle ELSE flow[g]
  BY <1>1 DEF TypeOK
<1>3. \A u \in Tab : isBusy'[u] = (isBusy[u] /\ ~Mine(f, u))
  BY <1>1 DEF TypeOK, Mine
<1>4. \A u \in Tab, g \in Flow :
        (flow'[g].tab = u /\ flow'[g].here) <=> Mine(g, u) /\ g # f
  BY <1>2 DEF Mine, Idle
<1>5. \A u \in Tab : isBusy'[u] <=> \E g \in Flow : Mine(g, u) /\ g # f
  <2> TAKE u \in Tab
  <2>1. isBusy[u] <=> \E g \in Flow : Mine(g, u)
    BY DEF PageInv, BusyMatches, Mine
  <2>2. Mine(f, u) => \A g \in Flow : Mine(g, u) => g = f
    BY DEF PageInv, OnePerPage
  <2>3. QED
    BY <2>1, <2>2, <1>3
<1>6. BusyMatches'
  BY <1>3, <1>4, <1>5 DEF PageInv, BusyMatches
<1>7. OnePerPage'
  BY <1>4 DEF PageInv, OnePerPage, Mine
<1>8. \A t \in Tab : Mine(f, t) => isBusy[t] /\ ~isBusy'[t]
  BY <1>3 DEF PageInv, BusyMatches, Mine
<1>9. SecretQuiet'
  BY <1>3, <1>8 DEF PageInv, SecretQuiet
<1>10. IdleHere'
  BY <1>2 DEF PageInv, IdleHere, Free, Idle
<1>11. QED
  BY <1>6, <1>7, <1>8, <1>9, <1>10 DEF PageInv, SecretQuiet

\* A tab's page is left or the tab reloaded: it is not busy, shows no secret,
\* and no flow takes the next page for its own.
LEMMA LeavePagePage ==
  ASSUME TypeOK, PageInv, NEW t \in Tab, Unmount(t),
         \A u \in Tab : u # t => onPage'[u] = onPage[u],
         \A g \in Flow :
           IF flow[g].tab = t THEN flow'[g].here = FALSE
           ELSE flow'[g] = flow[g]
  PROVE  PageInv'
<1>1. /\ \A u \in Tab : isBusy'[u] = (isBusy[u] /\ u # t)
      /\ \A u \in Tab : showSecret'[u] = IF u = t THEN None ELSE showSecret[u]
  BY DEF Unmount, TypeOK
<1>2. \A u \in Tab, g \in Flow :
        (flow'[g].tab = u /\ flow'[g].here) <=> Mine(g, u) /\ u # t
  <2> TAKE u \in Tab, g \in Flow
  <2>1. CASE flow[g].tab = t
    BY <2>1 DEF Mine
  <2>2. CASE flow[g].tab # t
    BY <2>2 DEF Mine
  <2>3. QED
    BY <2>1, <2>2
<1>3. BusyMatches'
  <2> SUFFICES ASSUME NEW u \in Tab
               PROVE  /\ isBusy'[u] <=> \E g \in Flow : flow'[g].tab = u /\ flow'[g].here
                      /\ isBusy'[u] => onPage'[u]
    BY DEF BusyMatches
  <2>1. (isBusy[u] <=> \E g \in Flow : Mine(g, u)) /\ (isBusy[u] => onPage[u])
    BY DEF PageInv, BusyMatches, Mine
  <2>2. QED
    BY <2>1, <1>1, <1>2
<1>4. OnePerPage'
  BY <1>2 DEF PageInv, OnePerPage, Mine
<1>5. SecretQuiet'
  BY <1>1 DEF PageInv, SecretQuiet
<1>6. IdleHere'
  BY DEF PageInv, IdleHere, Free
<1>7. QED
  BY <1>3, <1>4, <1>5, <1>6 DEF PageInv

LEMMA PageStep ==
  ASSUME VaultInv, PageInv, [Next]_vars
  PROVE  /\ PageInv'
         /\ \A t \in Tab : showSecret[t] # None => showSecret'[t] \in {showSecret[t], None}
<1>0. TypeOK /\ FlowsReady
  BY DEF VaultInv
<1>1. CASE UNCHANGED vars
  BY <1>1, KeepsPage DEF vars
<1>2. CASE \E f \in Flow : FlowStep(f)
  <2>1. PICK f \in Flow : FlowStep(f)
    BY <1>2
  <2>2. CASE Answer(f)
    <3>1. flow[f] \in FlowRecord
      BY <1>0 DEF TypeOK
    <3>2. ASSUME flow[f].kind = "create"
          PROVE  \E r \in FlowRecord :
                   /\ flow' = [flow EXCEPT ![f] = r]
                   /\ r.here = flow[f].here /\ r.tab = flow[f].tab /\ r.at = "passkey"
      <4>1. PICK k \in Key :
              flow' = [flow EXCEPT ![f] = [flow[f] EXCEPT !.at = "passkey", !.secret = k]]
        BY <2>2, <3>2 DEF Answer, Begin
      <4> DEFINE r == [flow[f] EXCEPT !.at = "passkey", !.secret = k]
      <4>2. r \in FlowRecord /\ r.here = flow[f].here /\ r.tab = flow[f].tab /\ r.at = "passkey"
        BY <3>1 DEF FlowRecord, OrNone
      <4>3. flow' = [flow EXCEPT ![f] = r]
        BY <4>1
      <4> HIDE DEF r
      <4>4. QED
        BY <4>2, <4>3
    <3>3. ASSUME flow[f].kind = "recover"
          PROVE  \E r \in FlowRecord :
                   /\ flow' = [flow EXCEPT ![f] = r]
                   /\ r.here = flow[f].here /\ r.tab = flow[f].tab /\ r.at = "passkey"
      <4> DEFINE r == [flow[f] EXCEPT !.at = "passkey"]
      <4>1. r \in FlowRecord /\ r.here = flow[f].here /\ r.tab = flow[f].tab /\ r.at = "passkey"
        BY <3>1 DEF FlowRecord, OrNone
      <4>2. flow' = [flow EXCEPT ![f] = r]
        BY <2>2, <3>3 DEF Answer, Begin
      <4> HIDE DEF r
      <4>3. QED
        BY <4>1, <4>2
    <3>4. PICK r \in FlowRecord :
            /\ flow' = [flow EXCEPT ![f] = r]
            /\ r.here = flow[f].here /\ r.tab = flow[f].tab /\ r.at = "passkey"
      BY <2>2, <3>2, <3>3 DEF Answer
    <3>5. UNCHANGED <<onPage, isBusy, showSecret>>
      BY <2>2 DEF Answer, page
    <3>6. QED
      BY <1>0, <3>4, <3>5, GoOnPage
  <2>3. CASE CreatePasskey(f)
    <3> DEFINE r == [flow[f] EXCEPT !.at = "verify", !.credential = passkeys']
    <3>1. /\ flow' = [flow EXCEPT ![f] = r]
          /\ UNCHANGED <<onPage, isBusy, showSecret>>
          /\ passkeys' \in 1..MaxPasskeys
      BY <2>3, <1>0, WalletAssumption DEF CreatePasskey, Begin, page, TypeOK
    <3>2. flow[f] \in FlowRecord
      BY <1>0 DEF TypeOK
    <3>3. /\ r \in FlowRecord
          /\ r.here = flow[f].here /\ r.tab = flow[f].tab /\ r.at = "verify"
      BY <3>1, <3>2 DEF FlowRecord, OrNone
    <3> HIDE DEF r
    <3>4. QED
      BY <1>0, <3>1, <3>3, GoOnPage
  <2>4. CASE Provision(f)
    <3>1. /\ End(f) /\ UNCHANGED onPage
          /\ showSecret' = IF flow[f].here /\ flow[f].kind = "create"
                             THEN [showSecret EXCEPT ![flow[f].tab] = flow[f].secret]
                             ELSE showSecret
      BY <2>4 DEF Provision
    <3>2. \A t \in Tab : showSecret'[t] # showSecret[t] => Mine(f, t)
      BY <3>1, <1>0 DEF TypeOK, Mine
    <3>3. QED
      BY <1>0, <3>1, <3>2, EndPage
  <2>5. CASE Unlock(f) \/ Fail(f)
    BY <2>5, <1>0, EndPage DEF Unlock, Fail
  <2>6. QED
    BY <2>1, <2>2, <2>3, <2>4, <2>5 DEF FlowStep
<1>3. CASE \E t \in Tab : TabStep(t)
  <2>1. PICK t \in Tab : TabStep(t)
    BY <1>3
  <2>2. ASSUME NEW f \in Flow,
               ClickCreate(t, f) \/ ClickConnect(t, f) \/ \E k \in Key : ClickRecover(t, f, k)
        PROVE  PageInv' /\ UNCHANGED showSecret
    <3>1. PICK r \in FlowRecord :
            r.tab = t /\ r.here /\ r.at # "idle" /\ flow' = [flow EXCEPT ![f] = r]
      <4>1. CASE ClickCreate(t, f)
        BY <4>1, StartedReady DEF ClickCreate, Begin, Started, Idle
      <4>2. CASE \E k \in Key : ClickRecover(t, f, k)
        BY <4>2, StartedReady DEF ClickRecover, Begin, Started, Idle
      <4>3. CASE ClickConnect(t, f)
        <5>1. vault \in Vault
          BY <4>3, <1>0 DEF ClickConnect, Unlocking, TypeOK, OrNone
        <5>2. QED
          BY <4>3, <5>1, StartedReady DEF ClickConnect, Unlocking, Begin, Started, Idle
      <4>4. QED
        BY <2>2, <4>1, <4>2, <4>3
    <3>2. Free(f) /\ PressOnPage(t) /\ UNCHANGED <<onPage, showSecret>>
      BY <2>2 DEF ClickCreate, ClickConnect, ClickRecover, Unlocking
    <3>3. QED
      BY <1>0, <3>1, <3>2, PressPage
  <2>3. ASSUME NEW f \in Flow, HeaderConnect(t, f)
        PROVE  PageInv' /\ UNCHANGED showSecret
    <3> DEFINE r == [Started("connect", "verify", t, FALSE) EXCEPT
                       !.read = vault, !.credential = vault.credentialId]
    <3>1. /\ Free(f) /\ vault # None /\ flow' = [flow EXCEPT ![f] = r]
          /\ UNCHANGED <<onPage, isBusy, showSecret>>
      BY <2>3 DEF HeaderConnect, Unlocking, Begin
    <3>2. r \in FlowRecord
      BY <3>1, <1>0, StartedReady DEF TypeOK, OrNone
    <3>3. r.at = "verify" /\ r.here = FALSE
      BY DEF Started, Idle
    <3>4. flow[f].here = FALSE
      BY <3>1, <1>0 DEF PageInv, IdleHere, TypeOK, FlowRecord
    <3> HIDE DEF r
    <3>5. QED
      BY <1>0, <3>1, <3>2, <3>3, <3>4, GoOnPage
  <2>4. CASE Disconnect(t) \/ Forget(t) \/ CloseSecret(t)
    <3>1. UNCHANGED <<isBusy, onPage, flow>>
      BY <2>4 DEF Disconnect, Forget, CloseSecret, page
    <3>2. \A u \in Tab : showSecret'[u] \in {showSecret[u], None}
      BY <2>4, <1>0 DEF Disconnect, Forget, CloseSecret, page, TypeOK
    <3>3. QED
      BY <3>1, <3>2, KeepsPage
  <2>5. CASE OpenPage(t)
    <3>1. /\ ~onPage[t] /\ onPage' = [onPage EXCEPT ![t] = TRUE]
          /\ UNCHANGED <<isBusy, showSecret, flow>>
      BY <2>5 DEF OpenPage
    <3>2. BusyMatches'
      BY <3>1, <1>0 DEF PageInv, BusyMatches, TypeOK
    <3>3. QED
      BY <3>1, <3>2 DEF PageInv, OnePerPage, SecretQuiet, IdleHere, Mine, Free
  <2>6. CASE LeavePage(t)
    <3>1. Unmount(t) /\ onPage' = [onPage EXCEPT ![t] = FALSE] /\ flow' = Orphans(t)
      BY <2>6 DEF LeavePage
    <3>2. \A g \in Flow :
            IF flow[g].tab = t THEN flow'[g].here = FALSE ELSE flow'[g] = flow[g]
      BY <3>1, <1>0 DEF Orphans, TypeOK, FlowRecord
    <3>3. PageInv'
      BY <1>0, <3>1, <3>2, LeavePagePage DEF TypeOK
    <3>4. QED
      BY <3>1, <3>3, <1>0 DEF Unmount, TypeOK
  <2>7. CASE Reload(t)
    <3>1. /\ Unmount(t) /\ UNCHANGED onPage
          /\ flow' = [f \in Flow |-> IF flow[f].tab = t THEN Idle ELSE flow[f]]
      BY <2>7 DEF Reload
    <3>2. \A g \in Flow :
            IF flow[g].tab = t THEN flow'[g].here = FALSE ELSE flow'[g] = flow[g]
      BY <3>1 DEF Idle
    <3>3. PageInv'
      BY <1>0, <3>1, <3>2, LeavePagePage
    <3>4. QED
      BY <3>1, <3>3, <1>0 DEF Unmount, TypeOK
  <2>8. QED
    BY <2>1, <2>2, <2>3, <2>4, <2>5, <2>6, <2>7 DEF TabStep
<1>4. QED
  BY <1>1, <1>2, <1>3 DEF Next

LEMMA PageInvariant == Spec => [](VaultInv /\ PageInv)
<1>1. Init => PageInv
  BY DEF Init, Idle, PageInv, BusyMatches, OnePerPage, SecretQuiet, IdleHere, Mine, Free
<1>2. VaultInv /\ PageInv /\ [Next]_vars => VaultInv' /\ PageInv'
  BY VaultStep, PageStep
<1>3. QED
  BY <1>1, <1>2, InitVault, PTL DEF Spec

\* The wallet page is busy just while a flow of its own is under way, with
\* pages left and opened and flows of other tabs in any order.
THEOREM BusyAlwaysMatches == Spec => []BusyMatches
<1>1. PageInv => BusyMatches
  BY DEF PageInv
<1>2. QED
  BY <1>1, PageInvariant, PTL

\* A secret on display is not replaced by that of another flow.
THEOREM SecretsStay == Spec => SecretStays
<1>1. VaultInv /\ PageInv /\ [Next]_vars =>
        [\A t \in Tab : showSecret[t] # None => showSecret'[t] \in {showSecret[t], None}]_vars
  BY PageStep
<1>2. QED
  BY <1>1, PageInvariant, PTL DEF Spec, SecretStays

-----------------------------------------------------------------------------
(* What a tab knows of localStorage. *)

\* A tab that does not write may fall behind, but no step writes without
\* looking again.
LEMMA WriterStep ==
  ASSUME VaultInv, WriterKnows, [Next]_vars
  PROVE  WriterKnows'
<1>1. CASE UNCHANGED <<vault, writer>>
  <2>1. \A t \in Tab : seen'[t] \in {seen[t], Sync(vault)}
    BY <1>1 DEF VaultInv, TypeOK, Next, vars, stored, made, page, FlowStep, TabStep,
         Answer, CreatePasskey, Provision, Unlock, Fail, ClickCreate, ClickConnect,
         HeaderConnect, ClickRecover, Unlocking, Disconnect, Forget, CloseSecret,
         LeavePage, OpenPage, Reload
  <2>2. QED
    BY <1>1, <2>1 DEF WriterKnows, Sync
<1>2. CASE \E t \in Tab : writer' = t /\ seen' = [seen EXCEPT ![t] = Sync(vault')]
  BY <1>2 DEF VaultInv, TypeOK, WriterKnows, Sync
<1>3. \/ UNCHANGED <<vault, writer>>
      \/ \E t \in Tab : Forget(t)
      \/ \E f \in Flow : Provision(f)
  <2>1. ASSUME NEW f \in Flow, FlowStep(f)
        PROVE  Provision(f) \/ UNCHANGED <<vault, writer>>
    BY <2>1 DEF FlowStep, Answer, CreatePasskey, Unlock, Fail, stored
  <2>2. ASSUME NEW t \in Tab, TabStep(t)
        PROVE  Forget(t) \/ UNCHANGED <<vault, writer>>
    BY <2>2 DEF TabStep, ClickCreate, ClickConnect, HeaderConnect, ClickRecover, Unlocking,
         Disconnect, CloseSecret, LeavePage, OpenPage, Reload, stored
  <2>3. QED
    BY <2>1, <2>2 DEF Next, vars
<1>4. ASSUME NEW f \in Flow, Provision(f)
      PROVE  \E t \in Tab : writer' = t /\ seen' = [seen EXCEPT ![t] = Sync(vault')]
  BY <1>4 DEF Provision, VaultInv, FlowsReady, Ready
<1>5. QED
  BY <1>1, <1>2, <1>3, <1>4 DEF Forget

\* The tab that wrote localStorage last knows what is stored there.
THEOREM WritersKnow == Spec => []WriterKnows
<1>1. Init => WriterKnows
  BY DEF Init, WriterKnows, Sync
<1>2. VaultInv /\ WriterKnows /\ [Next]_vars => WriterKnows'
  BY WriterStep
<1>3. QED
  BY <1>1, <1>2, VaultInvariant, PTL DEF Spec
=============================================================================
