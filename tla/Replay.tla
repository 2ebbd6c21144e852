------------------------------- MODULE Replay -------------------------------
(***************************************************************************)
(* State::deriveFromChain as it runs: one step per transaction of the      *)
(* chain, and one at the end of every block.  The chain is any chain: each *)
(* step takes whatever transaction comes next.  Every balance, owner and   *)
(* asset list a node shows, and every check it makes of a block or of a    *)
(* transaction, is the outcome of this loop.                               *)
(***************************************************************************)
EXTENDS State

CONSTANT MaxTxns   \* bound on the transactions replayed, for TLC

VARIABLES
  state,      \* outState and the result so far
  txn,        \* the loop variable: the set of the transaction just handled
  coinbases,  \* coinbaseCount
  minted,     \* history: rewards credited so far (not in the code)
  count       \* history: transactions handled (not in the code)

vars == <<state, txn, coinbases, minted, count>>

ASSUME BoundAssumption == MaxTxns \in Nat

\* The maps of the state are finite: a chain names finitely many accounts.
ASSUME FiniteAssumption == IsFiniteSet(Addr)

Init ==
  /\ state = Fresh /\ txn = {} /\ coinbases = 0
  /\ minted = 0 /\ count = 0

\* The body of the inner loop.
Handle(t) ==
  /\ state.ok /\ count < MaxTxns
  /\ txn' = {t} /\ count' = count + 1
  /\ \/ /\ Verified(t) /\ Applies(t, state)
        /\ state' = Effect(t, state)
        /\ coinbases' = coinbases + IF t.from = Coinbase THEN 1 ELSE 0
        /\ minted' = minted + IF IsReward(t) THEN 1 ELSE 0
     \/ /\ ~(Verified(t) /\ Applies(t, state))
        /\ state' = [state EXCEPT !.ok = FALSE]
        /\ UNCHANGED <<coinbases, minted>>

\* The test after the inner loop; the next block counts from zero.
EndBlock ==
  /\ state.ok /\ txn # {}
  /\ state' = [state EXCEPT !.ok = coinbases <= 1]
  /\ txn' = {} /\ coinbases' = 0
  /\ UNCHANGED <<minted, count>>

Next == EndBlock \/ \E t \in Txn : Handle(t)

Spec == Init /\ [][Next]_vars

-----------------------------------------------------------------------------
(* Properties. *)

TypeOK ==
  /\ state \in DerivedState
  /\ txn \in {{}} \cup {{t} : t \in Txn}
  /\ coinbases \in Nat /\ minted \in Nat /\ count \in 0..MaxTxns

\* No account is ever overdrawn by more than the slack of one comparison,
\* however many payments take the slack one after the other.
BalanceFloor == \A x \in Addr : state.bal[x] >= -Eps

\* The two indexes of the assets agree: an account's list holds exactly the
\* items it owns, through claims, transfers and transfers to oneself.
IndexesAgree ==
  \A x \in Addr : state.assets[x] = {i \in Item : state.owner[i] = x}

\* Payments neither make nor destroy money: what the accounts hold together
\* is what was minted, to within the slack of each reward's amount.
SupplyIsMinted ==
  LET supply == FoldFunction(LAMBDA n, m : n + m, 0, state.bal)
  IN  supply \in (minted * (Reward - Eps))..(minted * (Reward + Eps))

\* Nobody loses money or an item without having signed the transaction that
\* takes it.
OnlySignerLoses ==
  [][ /\ \A x \in Addr : state'.bal[x] < state.bal[x] => \A t \in txn' : t.signer = x
      /\ \A i \in Item : state'.owner[i] # state.owner[i] /\ state.owner[i] # Unowned
                           => \A t \in txn' : t.signer = state.owner[i] ]_vars
=============================================================================
