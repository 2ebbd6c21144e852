------------------------------- MODULE Wallet -------------------------------
(***************************************************************************)
(* The wallet of the browser: the provider (wallet-provider.tsx), the      *)
(* passkey vault in localStorage (passkey-vault.ts), and the buttons of    *)
(* the wallet page and of the header that start its flows.                 *)
(*                                                                         *)
(* Tabs share localStorage and nothing else.  A flow is a promise chain:   *)
(* its steps are the awaits that other events can come between, a request  *)
(* to the node, the dialog that makes a passkey and the dialog that        *)
(* verifies one.  The cryptography after the last dialog touches the       *)
(* flow's own data alone, so what follows it, up to the page's "finally",  *)
(* is one step.  A flow outlives the page that started it: the provider    *)
(* sits above the pages.                                                   *)
(***************************************************************************)
EXTENDS Address, Integers

CONSTANTS
  Tab,          \* tabs of one browser
  Flow,         \* promise chains that may be under way at once
  Key,          \* secret keys; the address of each is its 40 digits
  Held,         \* keys of wallets the user has from elsewhere
  None,         \* null
  MaxPasskeys   \* bound on the passkeys made

ASSUME WalletAssumption ==
  /\ Key \subseteq Hex40 /\ Held \subseteq Key
  /\ None \notin Key
  /\ MaxPasskeys \in Nat

VARIABLES
  vault,       \* the vault in localStorage, or None
  wallet,      \* per tab: the unlocked wallet, or None
  seen,        \* per tab: storedAddress; hasVault says whether there is one
  onPage,      \* per tab: whether the wallet page is mounted
  isBusy,      \* per tab: the wallet page's isBusy
  showSecret,  \* per tab: the secret in the wallet page's dialog, or None
  flow,        \* the promise chains
  passkeys,    \* how many credentials exist; they are numbered
  generated,   \* the keys of wallets that exist
  writer       \* history: the tab that wrote localStorage last (not in the code)

vars == <<vault, wallet, seen, onPage, isBusy, showSecret, flow, passkeys, generated, writer>>

stored == <<vault, writer>>
page == <<onPage, isBusy, showSecret>>
made == <<passkeys, generated>>

-----------------------------------------------------------------------------
(* The vault. *)

AddressOf(k) == Canonical(k)

\* AES-GCM under a key derived from the credential.
EncryptSecret(k, credential) == [secret |-> k, under |-> credential]

Decrypts(sealed, credential) == sealed.under = credential

\* Mutant: the vault is sealed under the passkey made last.
LatestPasskeyVault(k, credential) ==
  [address |-> AddressOf(k), credentialId |-> credential,
   encryptedSecretKey |-> EncryptSecret(k, passkeys)]

\* The record that provisionWalletVault saves.
WalletVault(k, credential) ==
  [address |-> NormalizeAddress(AddressOf(k)), credentialId |-> credential,
   encryptedSecretKey |-> EncryptSecret(k, credential)]

\* syncVaultState: what a tab knows of the vault v.
Sync(v) == IF v = None THEN None ELSE NormalizeAddress(v.address)

HasVault(t) == seen[t] # None

-----------------------------------------------------------------------------
(* Flows. *)

Idle == [at |-> "idle", kind |-> None, tab |-> None, here |-> FALSE,
         secret |-> None, credential |-> None, read |-> None]

\* A flow of tab t; here says that the page which started it is mounted and
\* waits for it.
Started(kind, at, t, here) ==
  [Idle EXCEPT !.at = at, !.kind = kind, !.tab = t, !.here = here]

Free(f) == flow[f].at = "idle"

\* Nothing but the dialog with the secret can be clicked while it is open.
Clickable(t) == showSecret[t] = None

Begin(f, record) == flow' = [flow EXCEPT ![f] = record]

\* The page's "finally", when there still is a page.
PageDone(f) ==
  isBusy' = IF flow[f].here THEN [isBusy EXCEPT ![flow[f].tab] = FALSE] ELSE isBusy

End(f) == flow' = [flow EXCEPT ![f] = Idle] /\ PageDone(f)

\* Mutant: the button is not disabled while the page is busy.
EagerPressOnPage(t) ==
  onPage[t] /\ Clickable(t) /\ isBusy' = [isBusy EXCEPT ![t] = TRUE]

PressOnPage(t) ==
  onPage[t] /\ Clickable(t) /\ ~isBusy[t] /\ isBusy' = [isBusy EXCEPT ![t] = TRUE]

ClickCreate(t, f) ==
  /\ Free(f) /\ PressOnPage(t)
  /\ Begin(f, Started("create", "request", t, TRUE))
  /\ UNCHANGED <<stored, made, wallet, seen, onPage, showSecret>>

ClickRecover(t, f, k) ==
  /\ k \in generated /\ Free(f) /\ PressOnPage(t)
  /\ Begin(f, [Started("recover", "request", t, TRUE) EXCEPT !.secret = k])
  /\ UNCHANGED <<stored, made, wallet, seen, onPage, showSecret>>

\* unlockWalletVault reads the vault at the click, and uses what it read after
\* the dialog.  Without a vault it throws at once and nothing changes.
Unlocking(t, f, here) ==
  /\ Free(f) /\ wallet[t] = None /\ HasVault(t) /\ vault # None
  /\ Begin(f, [Started("connect", "verify", t, here) EXCEPT
                 !.read = vault, !.credential = vault.credentialId])
  /\ UNCHANGED <<stored, made, wallet, seen, onPage, showSecret>>

ClickConnect(t, f) == PressOnPage(t) /\ Unlocking(t, f, TRUE)

\* The header's button is never disabled.
HeaderConnect(t, f) == Clickable(t) /\ Unlocking(t, f, FALSE) /\ UNCHANGED isBusy

\* /wallet/generate and /wallet/recover answer.
Answer(f) ==
  /\ flow[f].at = "request"
  /\ \/ /\ flow[f].kind = "create"
        /\ \E k \in Key \ generated :
             /\ generated' = generated \cup {k}
             /\ Begin(f, [flow[f] EXCEPT !.at = "passkey", !.secret = k])
     \/ /\ flow[f].kind = "recover"
        /\ Begin(f, [flow[f] EXCEPT !.at = "passkey"])
        /\ UNCHANGED generated
  /\ UNCHANGED <<stored, wallet, seen, page, passkeys>>

CreatePasskey(f) ==
  /\ flow[f].at = "passkey" /\ passkeys < MaxPasskeys
  /\ passkeys' = passkeys + 1
  /\ Begin(f, [flow[f] EXCEPT !.at = "verify", !.credential = passkeys'])
  /\ UNCHANGED <<stored, wallet, seen, page, generated>>

\* The passkey is verified: encrypt, save, set the wallet, look the vault up
\* again; then the page, if it is still there, shows a created secret.
Provision(f) ==
  LET k == flow[f].secret
      t == flow[f].tab
  IN  /\ flow[f].at = "verify" /\ flow[f].kind \in {"create", "recover"}
      /\ vault' = WalletVault(k, flow[f].credential) /\ writer' = t
      /\ wallet' = [wallet EXCEPT ![t] =
                      [address |-> NormalizeAddress(AddressOf(k)), secretKey |-> k]]
      /\ seen' = [seen EXCEPT ![t] = Sync(vault')]
      /\ showSecret' = IF flow[f].here /\ flow[f].kind = "create"
                         THEN [showSecret EXCEPT ![t] = k] ELSE showSecret
      /\ End(f)
      /\ UNCHANGED <<made, onPage>>

\* Mutant: the vault is read a second time, after the dialog.
RereadUnlocked(f) ==
  [address |-> NormalizeAddress((IF vault = None THEN flow[f].read ELSE vault).address),
   secretKey |-> flow[f].read.encryptedSecretKey.secret]

\* What unlockWalletVault returns.
Unlocked(f) ==
  [address |-> NormalizeAddress(flow[f].read.address),
   secretKey |-> flow[f].read.encryptedSecretKey.secret]

\* The passkey is verified: decrypt the vault as it was read, set the wallet.
Unlock(f) ==
  LET t == flow[f].tab
  IN  /\ flow[f].at = "verify" /\ flow[f].kind = "connect"
      /\ Decrypts(flow[f].read.encryptedSecretKey, flow[f].credential)
      /\ wallet' = [wallet EXCEPT ![t] = Unlocked(f)]
      /\ seen' = [seen EXCEPT ![t] = Sync(vault)]
      /\ End(f)
      /\ UNCHANGED <<stored, made, onPage, showSecret>>

\* Mutant: a dialog that nobody answers stays open.
UntimedFail(f) ==
  /\ flow[f].at = "request" /\ End(f)
  /\ UNCHANGED <<stored, made, wallet, seen, onPage, showSecret>>

\* A request fails, or a dialog is dismissed or times out: the exception ends
\* the flow, in the page's catch and finally if the page started it.
Fail(f) ==
  /\ ~Free(f) /\ End(f)
  /\ UNCHANGED <<stored, made, wallet, seen, onPage, showSecret>>

-----------------------------------------------------------------------------
(* The other buttons, and the life of pages and tabs. *)

Disconnect(t) ==
  /\ wallet[t] # None /\ Clickable(t)
  /\ wallet' = [wallet EXCEPT ![t] = None]
  /\ UNCHANGED <<stored, made, seen, page, flow>>

\* Mutant: the vault is looked up before it is cleared.
EarlySyncForget(t) ==
  /\ onPage[t] /\ wallet[t] # None /\ Clickable(t)
  /\ vault' = None /\ writer' = t
  /\ wallet' = [wallet EXCEPT ![t] = None]
  /\ seen' = [seen EXCEPT ![t] = Sync(vault)]
  /\ UNCHANGED <<made, page, flow>>

Forget(t) ==
  /\ onPage[t] /\ wallet[t] # None /\ Clickable(t)
  /\ vault' = None /\ writer' = t
  /\ wallet' = [wallet EXCEPT ![t] = None]
  /\ seen' = [seen EXCEPT ![t] = Sync(vault')]
  /\ UNCHANGED <<made, page, flow>>

CloseSecret(t) ==
  /\ showSecret[t] # None
  /\ showSecret' = [showSecret EXCEPT ![t] = None]
  /\ UNCHANGED <<stored, made, wallet, seen, onPage, isBusy, flow>>

\* A page that is left loses its state; its flows go on without it.
Unmount(t) ==
  /\ isBusy' = [isBusy EXCEPT ![t] = FALSE]
  /\ showSecret' = [showSecret EXCEPT ![t] = None]

\* Mutant: a flow takes the page that is there when it ends for its own.
ReattachedOrphans(t) == flow

Orphans(t) ==
  [f \in Flow |-> IF flow[f].tab = t THEN [flow[f] EXCEPT !.here = FALSE] ELSE flow[f]]

LeavePage(t) ==
  /\ onPage[t] /\ onPage' = [onPage EXCEPT ![t] = FALSE]
  /\ Unmount(t) /\ flow' = Orphans(t)
  /\ UNCHANGED <<stored, made, wallet, seen>>

OpenPage(t) ==
  /\ ~onPage[t] /\ onPage' = [onPage EXCEPT ![t] = TRUE]
  /\ UNCHANGED <<stored, made, wallet, seen, isBusy, showSecret, flow>>

\* A reload ends the tab's flows; the mount effect reads the vault.
Reload(t) ==
  /\ wallet' = [wallet EXCEPT ![t] = None]
  /\ seen' = [seen EXCEPT ![t] = Sync(vault)]
  /\ Unmount(t)
  /\ flow' = [f \in Flow |-> IF flow[f].tab = t THEN Idle ELSE flow[f]]
  /\ UNCHANGED <<stored, made, onPage>>

Init ==
  /\ vault = None /\ writer = None
  /\ wallet = [t \in Tab |-> None] /\ seen = [t \in Tab |-> None]
  /\ onPage = [t \in Tab |-> FALSE] /\ isBusy = [t \in Tab |-> FALSE]
  /\ showSecret = [t \in Tab |-> None]
  /\ flow = [f \in Flow |-> Idle]
  /\ passkeys = 0 /\ generated = Held

FlowStep(f) == Answer(f) \/ CreatePasskey(f) \/ Provision(f) \/ Unlock(f) \/ Fail(f)

TabStep(t) ==
  \/ \E f \in Flow :
       \/ ClickCreate(t, f) \/ ClickConnect(t, f) \/ HeaderConnect(t, f)
       \/ \E k \in Key : ClickRecover(t, f, k)
  \/ Disconnect(t) \/ Forget(t) \/ CloseSecret(t)
  \/ LeavePage(t) \/ OpenPage(t) \/ Reload(t)

Next == (\E f \in Flow : FlowStep(f)) \/ (\E t \in Tab : TabStep(t))

\* Every request is answered or fails and every dialog ends, after its
\* timeout of 60 seconds at the latest.  Nobody has to click anything.
Fairness == \A f \in Flow : WF_vars(Fail(f))

Spec == Init /\ [][Next]_vars /\ Fairness

-----------------------------------------------------------------------------
(* Properties. *)

Address == {AddressOf(k) : k \in Key}
OrNone(S) == S \cup {None}

Vault ==
  [address : Address, credentialId : 1..MaxPasskeys,
   encryptedSecretKey : [secret : Key, under : 1..MaxPasskeys]]

FlowRecord ==
  [at : {"idle", "request", "passkey", "verify"},
   kind : OrNone({"create", "recover", "connect"}), tab : OrNone(Tab), here : BOOLEAN,
   secret : OrNone(Key), credential : OrNone(1..MaxPasskeys), read : OrNone(Vault)]

TypeOK ==
  /\ vault \in OrNone(Vault) /\ writer \in OrNone(Tab)
  /\ wallet \in [Tab -> OrNone([address : Address, secretKey : Key])]
  /\ seen \in [Tab -> OrNone(Address)]
  /\ onPage \in [Tab -> BOOLEAN] /\ isBusy \in [Tab -> BOOLEAN]
  /\ showSecret \in [Tab -> OrNone(Key)]
  /\ flow \in [Flow -> FlowRecord]
  /\ passkeys \in 0..MaxPasskeys /\ generated \in SUBSET Key

\* The vault can always be opened: its own passkey decrypts it, and to the
\* key of the address it is labelled with, whichever flows of whichever tabs
\* made passkeys and saved vaults in between (provisionWalletVault).
Opens(v) ==
  /\ Decrypts(v.encryptedSecretKey, v.credentialId)
  /\ v.address = AddressOf(v.encryptedSecretKey.secret)

VaultOpens == vault # None => Opens(vault)

\* The wallet a tab signs with belongs to the address it shows, although
\* another tab may replace or clear the vault while the passkey dialog is
\* open (unlockWalletVault reads once).
KeysMatch ==
  \A t \in Tab : wallet[t] # None => wallet[t].address = AddressOf(wallet[t].secretKey)

\* The tab that wrote localStorage last knows what is stored there, so that
\* it offers to connect just when it can.  (Other tabs may be out of date.)
WriterKnows == \A t \in Tab : writer = t => seen[t] = Sync(vault)

\* The page is busy just while a flow that it started, and that will clear
\* the flag, is under way, whatever it was left and opened for in between.
BusyMatches ==
  \A t \in Tab :
    /\ isBusy[t] <=> \E f \in Flow : flow[f].tab = t /\ flow[f].here
    /\ isBusy[t] => onPage[t]

\* A secret on display is never replaced by another one: it is shown until
\* the user closes it or leaves.
SecretStays ==
  [][\A t \in Tab :
       showSecret[t] # None => showSecret'[t] \in {showSecret[t], None}]_vars

\* The buttons of a page that is busy come back.
BusyEnds == \A t \in Tab : isBusy[t] ~> ~isBusy[t]
=============================================================================
