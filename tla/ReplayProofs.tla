---------------------------- MODULE ReplayProofs ----------------------------
(***************************************************************************)
(* Proofs about the derivation of a node's state from its chain, for every *)
(* set of accounts, items and transactions.                                *)
(***************************************************************************)
EXTENDS Replay, BlockchainProofs

\* Type correctness of the replay.
THEOREM TypeCorrect == Spec => []TypeOK
<1>1. Init => TypeOK
  BY BoundAssumption DEF Init, TypeOK, Fresh, DerivedState
<1>2. TypeOK /\ [Next]_vars => TypeOK'
  <2> SUFFICES ASSUME TypeOK, [Next]_vars PROVE TypeOK'
    OBVIOUS
  <2> USE DEF TypeOK
  <2>1. CASE EndBlock
    <3>1. state' = [ok |-> coinbases <= 1, bal |-> state.bal,
                    owner |-> state.owner, assets |-> state.assets]
      BY <2>1 DEF EndBlock, DerivedState
    <3>2. (coinbases <= 1) \in BOOLEAN
      OBVIOUS
    <3>3. state' \in DerivedState
      BY <3>1, <3>2 DEF DerivedState
    <3>4. QED
      BY <2>1, <3>3 DEF EndBlock
  <2>2. ASSUME NEW t \in Txn, Handle(t) PROVE TypeOK'
    <3>0. txn' \in {{}} \cup {{u} : u \in Txn}
      BY <2>2 DEF Handle
    <3>1. txn' \in {{}} \cup {{u} : u \in Txn} /\ count' \in 0..MaxTxns
      BY <2>2, <3>0, BoundAssumption DEF Handle
    <3>2. coinbases' \in Nat /\ minted' \in Nat
      BY <2>2 DEF Handle
    <3>3. CASE Applies(t, state) /\ state' = Effect(t, state)
      BY <3>1, <3>2, <3>3, EffectType
    <3>4. CASE state' = [state EXCEPT !.ok = FALSE]
      <4>1. state' = [ok |-> FALSE, bal |-> state.bal,
                      owner |-> state.owner, assets |-> state.assets]
        BY <3>4 DEF DerivedState
      <4>2. QED
        BY <3>1, <3>2, <4>1 DEF DerivedState
    <3>5. QED
      BY <2>2, <3>3, <3>4 DEF Handle
  <2>3. CASE UNCHANGED vars
    BY <2>3 DEF vars
  <2>4. QED
    BY <2>1, <2>2, <2>3 DEF Next
<1>3. QED
  BY <1>1, <1>2, PTL DEF Spec

-----------------------------------------------------------------------------
\* The floor under the balances survives a transaction that applies: the
\* comparison with the amount allows the slack once, and an account that has
\* used it up can pay nothing more.
LEMMA EffectFloor ==
  ASSUME NEW s \in DerivedState, NEW t \in Txn, Applies(t, s),
         \A x \in Addr : s.bal[x] >= -Eps
  PROVE  \A x \in Addr : Effect(t, s).bal[x] >= -Eps
<1> SUFFICES ASSUME NEW x \in Addr PROVE Effect(t, s).bal[x] >= -Eps
  OBVIOUS
<1>1. s.bal[x] \in Int /\ s.bal[x] >= -Eps /\ Eps \in Nat
  BY AmountAssumption DEF DerivedState
<1>2. CASE IsReward(t) /\ RewardApplies(t)
  BY <1>1, <1>2, RewardEffect
<1>3. CASE t.kind = "CURRENCY" /\ ~IsReward(t) /\ PaymentApplies(t, s)
  <2>1. s.bal[Norm[t.from]] + Eps >= t.amount
    BY <1>3 DEF PaymentApplies
  <2>2. QED
    BY <1>1, <1>3, <2>1, PaymentEffect
<1>4. CASE t.kind = "ASSET" /\ AssetApplies(t, s)
  BY <1>1, <1>4, AssetEffect
<1>5. QED
  BY <1>2, <1>3, <1>4, AppliesCases

\* No account is ever overdrawn by more than the slack.
THEOREM FloorHolds == Spec => []BalanceFloor
<1>1. Init => BalanceFloor
  BY AmountAssumption DEF Init, BalanceFloor, Fresh
<1>2. TypeOK /\ BalanceFloor /\ [Next]_vars => BalanceFloor'
  <2> SUFFICES ASSUME TypeOK, BalanceFloor, [Next]_vars PROVE BalanceFloor'
    OBVIOUS
  <2> USE DEF BalanceFloor
  <2>1. CASE state'.bal = state.bal
    BY <2>1
  <2>2. CASE EndBlock
    BY <2>1, <2>2 DEF EndBlock, TypeOK, DerivedState
  <2>3. ASSUME NEW t \in Txn, Handle(t) PROVE BalanceFloor'
    <3>1. CASE Applies(t, state) /\ state' = Effect(t, state)
      BY <3>1, EffectFloor DEF TypeOK
    <3>2. CASE state' = [state EXCEPT !.ok = FALSE]
      BY <2>1, <3>2 DEF TypeOK, DerivedState
    <3>3. QED
      BY <2>3, <3>1, <3>2 DEF Handle
  <2>4. QED
    BY <2>1, <2>2, <2>3 DEF Next, vars
<1>3. QED
  BY <1>1, <1>2, TypeCorrect, PTL DEF Spec

-----------------------------------------------------------------------------
\* An asset transaction that applies keeps the two indexes in agreement.
LEMMA EffectIndexes ==
  ASSUME NEW s \in DerivedState, NEW t \in Txn, Applies(t, s),
         \A x \in Addr : s.assets[x] = {i \in Item : s.owner[i] = x}
  PROVE  \A x \in Addr :
           Effect(t, s).assets[x] = {i \in Item : Effect(t, s).owner[i] = x}
<1>1. CASE IsReward(t) /\ RewardApplies(t)
  BY <1>1, RewardEffect
<1>2. CASE t.kind = "CURRENCY" /\ ~IsReward(t) /\ PaymentApplies(t, s)
  BY <1>2, PaymentEffect
<1>3. CASE t.kind = "ASSET" /\ AssetApplies(t, s)
  <2> SUFFICES ASSUME NEW x \in Addr
               PROVE  Effect(t, s).assets[x] = {i \in Item : Effect(t, s).owner[i] = x}
    OBVIOUS
  <2> DEFINE f == Norm[t.from]
             g == Norm[t.to]
             own == [s.owner EXCEPT ![t.item] = g]
  <2>0. /\ f \in Addr /\ g \in Addr /\ t.item \in Item
        /\ Effect(t, s).owner = own
        /\ Effect(t, s).assets = Reindexed(t, s)
        /\ Reindexed(t, s)[x] =
              IF x = g THEN s.assets[x] \cup {t.item}
              ELSE IF s.owner[t.item] # Unowned /\ x = f THEN s.assets[x] \ {t.item}
              ELSE s.assets[x]
    BY <1>3, AssetEffect, Zenon
  <2>1. Effect(t, s).assets[x] =
              IF x = g THEN s.assets[x] \cup {t.item}
              ELSE IF s.owner[t.item] # Unowned /\ x = f THEN s.assets[x] \ {t.item}
              ELSE s.assets[x]
    BY <2>0
  <2>2. /\ s.owner[t.item] \in {Unowned, f}
        /\ s.owner[t.item] = Unowned => f = g
    BY <1>3, <2>0, AddressAssumption DEF AssetApplies, Holder
  <2>3. \A i \in Item : own[i] = IF i = t.item THEN g ELSE s.owner[i]
    BY <2>0 DEF DerivedState
  <2>4. s.assets[x] = {i \in Item : s.owner[i] = x}
    OBVIOUS
  <2>5. Unowned # x
    BY AddressAssumption DEF Holder
  <2> HIDE DEF f, g, own
  <2>6. CASE x = g
    BY <2>0, <2>1, <2>3, <2>4, <2>6
  <2>7. CASE x # g /\ s.owner[t.item] # Unowned /\ x = f
    BY <2>0, <2>1, <2>3, <2>4, <2>7
  <2>8. CASE x # g /\ (s.owner[t.item] = Unowned \/ x # f)
    BY <2>0, <2>1, <2>2, <2>3, <2>4, <2>5, <2>8
  <2>9. QED
    BY <2>6, <2>7, <2>8
<1>4. QED
  BY <1>1, <1>2, <1>3, AppliesCases

\* An account's asset list is always exactly what it owns.
THEOREM IndexesHold == Spec => []IndexesAgree
<1>1. Init => IndexesAgree
  BY AddressAssumption DEF Init, IndexesAgree, Fresh, Holder
<1>2. TypeOK /\ IndexesAgree /\ [Next]_vars => IndexesAgree'
  <2> SUFFICES ASSUME TypeOK, IndexesAgree, [Next]_vars PROVE IndexesAgree'
    OBVIOUS
  <2> USE DEF IndexesAgree
  <2>1. CASE state'.owner = state.owner /\ state'.assets = state.assets
    BY <2>1
  <2>2. CASE EndBlock
    BY <2>1, <2>2 DEF EndBlock, TypeOK, DerivedState
  <2>3. ASSUME NEW t \in Txn, Handle(t) PROVE IndexesAgree'
    <3>1. CASE Applies(t, state) /\ state' = Effect(t, state)
      BY <3>1, EffectIndexes DEF TypeOK
    <3>2. CASE state' = [state EXCEPT !.ok = FALSE]
      BY <2>1, <3>2 DEF TypeOK, DerivedState
    <3>3. QED
      BY <2>3, <3>1, <3>2 DEF Handle
  <2>4. QED
    BY <2>1, <2>2, <2>3 DEF Next, vars
<1>3. QED
  BY <1>1, <1>2, TypeCorrect, PTL DEF Spec

-----------------------------------------------------------------------------
\* Nobody loses money or an item without having signed the transaction that
\* takes it.
THEOREM SignaturesProtect == Spec => OnlySignerLoses
<1> DEFINE Keeps ==
      /\ \A x \in Addr : state'.bal[x] < state.bal[x] => \A t \in txn' : t.signer = x
      /\ \A i \in Item : state'.owner[i] # state.owner[i] /\ state.owner[i] # Unowned
                           => \A t \in txn' : t.signer = state.owner[i]
<1>1. TypeOK /\ [Next]_vars => [Keeps]_vars
  <2> SUFFICES ASSUME TypeOK, Next PROVE Keeps
    OBVIOUS
  <2>0. \A x \in Addr : state.bal[x] \in Int
    BY DEF TypeOK, DerivedState
  <2>1. CASE EndBlock
    BY <2>1 DEF EndBlock
  <2>2. ASSUME NEW t \in Txn, Handle(t) PROVE Keeps
    <3>1. txn' = {t}
      BY <2>2 DEF Handle
    <3>2. CASE state' = [state EXCEPT !.ok = FALSE]
      BY <2>0, <3>2 DEF TypeOK, DerivedState
    <3>3. CASE Verified(t) /\ Applies(t, state) /\ state' = Effect(t, state)
      <4>1. state \in DerivedState
        BY DEF TypeOK
      <4>2. CASE IsReward(t) /\ RewardApplies(t)
        BY <2>0, <3>3, <4>1, <4>2, RewardEffect
      <4>3. CASE t.kind = "CURRENCY" /\ ~IsReward(t) /\ PaymentApplies(t, state)
        <5>1. t.signer = Norm[t.from]
          BY <3>3, <4>3 DEF Verified, IsReward
        <5>2. QED
          BY <2>0, <3>1, <3>3, <4>1, <4>3, <5>1, PaymentEffect
      <4>4. CASE t.kind = "ASSET" /\ AssetApplies(t, state)
        <5>1. t.signer = Norm[t.from]
          BY <3>3, <4>4 DEF Verified
        <5>2. state.owner[t.item] \in {Unowned, Norm[t.from]}
          BY <4>4 DEF AssetApplies
        <5>3. state'.bal = state.bal
              /\ state'.owner = [state.owner EXCEPT ![t.item] = Norm[t.to]]
          BY <3>3, <4>1, <4>4, AssetEffect
        <5>4. QED
          BY <2>0, <3>1, <4>1, <5>1, <5>2, <5>3 DEF DerivedState
      <4>5. QED
        BY <3>3, <4>2, <4>3, <4>4, AppliesCases
    <3>4. QED
      BY <2>2, <3>2, <3>3 DEF Handle
  <2>3. QED
    BY <2>1, <2>2 DEF Next
<1>2. Spec => [][Keeps]_vars
  BY <1>1, TypeCorrect, PTL DEF Spec
<1>3. QED
  BY <1>2 DEF OnlySignerLoses

-----------------------------------------------------------------------------
(* Sums over the accounts.  FoldFunction takes an element of what is left,  *)
(* always the same of the same set.                                         *)

Pick(s) == CHOOSE x \in s : TRUE

\* g is the sum of f over each set of accounts in D.
SumOf(g, f, D) ==
  g = [s \in SUBSET D |-> IF s = {} THEN 0 ELSE f[Pick(s)] + g[s \ {Pick(s)}]]

Total(f) == FoldFunction(LAMBDA n, m : n + m, 0, f)

\* A property of the empty set that a set has when it has it without the
\* element picked is one of all subsets of a finite set.
LEMMA SubsetInduction ==
  ASSUME NEW D, IsFiniteSet(D), NEW P \in SUBSET SUBSET D, {} \in P,
         \A s \in SUBSET D : s # {} /\ s \ {Pick(s)} \in P => s \in P
  PROVE  P = SUBSET D
<1> DEFINE T == {n \in Nat : \A s \in SUBSET D : Cardinality(s) = n => s \in P}
<1>1. \A s \in SUBSET D : IsFiniteSet(s) /\ Cardinality(s) \in Nat
  BY FS_Subset, FS_CardinalityType
<1>2. 0 \in T
  BY <1>1, FS_EmptySet
<1>3. ASSUME NEW n \in T PROVE n + 1 \in T
  <2> SUFFICES ASSUME NEW s \in SUBSET D, Cardinality(s) = n + 1 PROVE s \in P
    OBVIOUS
  <2>1. n \in Nat /\ s # {}
    BY <1>3, FS_EmptySet
  <2>2. Pick(s) \in s
    BY <2>1 DEF Pick
  <2>3. Cardinality(s \ {Pick(s)}) = Cardinality(s) - 1
    BY <1>1, <2>2, FS_RemoveElement
  <2>4. Cardinality(s \ {Pick(s)}) = n /\ s \ {Pick(s)} \in SUBSET D
    BY <2>1, <2>3
  <2>5. s \ {Pick(s)} \in P
    BY <1>3, <2>4
  <2>6. QED
    BY <2>1, <2>5
<1>4. T = Nat
  <2>1. T \in SUBSET Nat
    OBVIOUS
  <2> HIDE DEF T
  <2>2. QED
    BY <1>2, <1>3, <2>1, SetInduction
<1>5. QED
  BY <1>1, <1>4

\* h is the sum of f over each set of at most n accounts of D.
SumUpTo(h, f, D, n) ==
  /\ h \in [SUBSET D -> Int]
  /\ \A s \in SUBSET D :
       Cardinality(s) <= n => h[s] = IF s = {} THEN 0 ELSE f[Pick(s)] + h[s \ {Pick(s)}]

\* There are such sums.
LEMMA SumExists ==
  ASSUME NEW D, IsFiniteSet(D), NEW f \in [D -> Int]
  PROVE  \E g \in [SUBSET D -> Int] : SumOf(g, f, D)
<1> DEFINE T == {n \in Nat : \E h : SumUpTo(h, f, D, n)}
<1>1. \A s \in SUBSET D : IsFiniteSet(s) /\ Cardinality(s) \in Nat
  BY FS_Subset, FS_CardinalityType
<1>2. \A s \in SUBSET D : s # {} => Pick(s) \in s /\ f[Pick(s)] \in Int
  BY DEF Pick
<1>3. 0 \in T
  <2> DEFINE h == [s \in SUBSET D |-> 0]
  <2>1. \A s \in SUBSET D : Cardinality(s) <= 0 => s = {}
    <3> SUFFICES ASSUME NEW s \in SUBSET D, Cardinality(s) <= 0 PROVE s = {}
      OBVIOUS
    <3>1. Cardinality(s) = 0
      BY <1>1
    <3>2. QED
      BY <1>1, <3>1, FS_EmptySet
  <2>2. SumUpTo(h, f, D, 0)
    BY <2>1 DEF SumUpTo
  <2>3. QED
    BY <2>2
<1>4. ASSUME NEW n \in T PROVE n + 1 \in T
  <2>1. n \in Nat
    OBVIOUS
  <2>2. PICK h : SumUpTo(h, f, D, n)
    BY <1>4
  <2> DEFINE k == [s \in SUBSET D |-> IF s = {} THEN 0 ELSE f[Pick(s)] + h[s \ {Pick(s)}]]
  <2>3. h \in [SUBSET D -> Int]
    BY <2>2 DEF SumUpTo
  <2>4. k \in [SUBSET D -> Int]
    <3> SUFFICES ASSUME NEW s \in SUBSET D, s # {} PROVE f[Pick(s)] + h[s \ {Pick(s)}] \in Int
      OBVIOUS
    <3>1. f[Pick(s)] \in Int /\ h[s \ {Pick(s)}] \in Int
      BY <1>2, <2>3
    <3>2. QED
      BY <3>1
  <2>5. \A s \in SUBSET D : k[s] = IF s = {} THEN 0 ELSE f[Pick(s)] + h[s \ {Pick(s)}]
    OBVIOUS
  <2> HIDE DEF k
  <2>6. \A s \in SUBSET D : Cardinality(s) <= n => k[s] = h[s]
    BY <2>2, <2>5 DEF SumUpTo
  <2>7. ASSUME NEW s \in SUBSET D, Cardinality(s) <= n + 1, s # {}
        PROVE  k[s] = f[Pick(s)] + k[s \ {Pick(s)}]
    <3>1. Cardinality(s \ {Pick(s)}) = Cardinality(s) - 1 /\ s \ {Pick(s)} \in SUBSET D
      BY <1>1, <1>2, <2>7, FS_RemoveElement
    <3>2. Cardinality(s \ {Pick(s)}) <= n
      BY <1>1, <2>1, <2>7, <3>1
    <3>3. QED
      BY <2>5, <2>6, <2>7, <3>1, <3>2
  <2>8. SumUpTo(k, f, D, n + 1)
    BY <2>4, <2>5, <2>7 DEF SumUpTo
  <2>9. QED
    BY <2>1, <2>8
<1>5. T = Nat
  <2>1. T \in SUBSET Nat
    OBVIOUS
  <2> HIDE DEF T
  <2>2. QED
    BY <1>3, <1>4, <2>1, SetInduction
<1>6. PICK h : SumUpTo(h, f, D, Cardinality(D))
  BY <1>1, <1>5
<1>7. \A s \in SUBSET D : Cardinality(s) <= Cardinality(D)
  BY FS_Subset
<1>8. h \in [SUBSET D -> Int] /\ SumOf(h, f, D)
  BY <1>6, <1>7 DEF SumUpTo, SumOf
<1>9. QED
  BY <1>8

\* The total is such a sum.
LEMMA SumIsFold ==
  ASSUME NEW D, IsFiniteSet(D), NEW f \in [D -> Int]
  PROVE  \E g \in [SUBSET D -> Int] :
           SumOf(g, f, D) /\ Total(f) = g[D]
<1> DEFINE g == CHOOSE h : SumOf(h, f, D)
<1>1. PICK h \in [SUBSET D -> Int] : SumOf(h, f, D)
  BY SumExists
<1>2. SumOf(g, f, D)
  BY <1>1
<1>3. DOMAIN f = D
  OBVIOUS
<1>4. Total(f) = g[D]
  BY <1>3 DEF Total, FoldFunction, FoldFunctionOnSet, MapThenFoldSet, SumOf, Pick
<1> HIDE DEF g
<1> DEFINE P == {s \in SUBSET D : g[s] = h[s]}
<1>5. g = h
  <2>1. {} \in P
    BY <1>1, <1>2 DEF SumOf
  <2>2. ASSUME NEW s \in SUBSET D, s # {}, s \ {Pick(s)} \in P PROVE s \in P
    BY <1>1, <1>2, <2>2 DEF SumOf
  <2>3. P \in SUBSET SUBSET D
    OBVIOUS
  <2> HIDE DEF P
  <2>4. P = SUBSET D
    BY <2>1, <2>2, <2>3, SubsetInduction
  <2>5. \A s \in SUBSET D : g[s] = h[s]
    BY <2>4 DEF P
  <2>6. g = [s \in SUBSET D |-> g[s]] /\ h = [s \in SUBSET D |-> h[s]]
    BY <1>1, <1>2 DEF SumOf
  <2>7. QED
    BY <2>5, <2>6
<1>6. QED
  BY <1>1, <1>4, <1>5

\* e is f but for a change of n at account a.
Moved(e, f, D, a, n) == \A x \in D : e[x] = f[x] + IF x = a THEN n ELSE 0

\* A change at one account changes the sum by as much.
LEMMA SumMoves ==
  ASSUME NEW D, IsFiniteSet(D), NEW f \in [D -> Int], NEW e \in [D -> Int], NEW a \in D, NEW n \in Int,
         Moved(e, f, D, a, n)
  PROVE  Total(e) = Total(f) + n
<1>1. PICK g \in [SUBSET D -> Int] : SumOf(g, f, D) /\ Total(f) = g[D]
  BY SumIsFold
<1>2. PICK h \in [SUBSET D -> Int] : SumOf(h, e, D) /\ Total(e) = h[D]
  BY SumIsFold
<1> DEFINE P == {s \in SUBSET D : h[s] = g[s] + IF a \in s THEN n ELSE 0}
<1>3. {} \in P
  <2>1. {} \in SUBSET D /\ a \notin {}
    OBVIOUS
  <2>2. g[{}] = 0 /\ h[{}] = 0
    BY <1>1, <1>2, <2>1 DEF SumOf
  <2>3. QED
    BY <2>1, <2>2
<1>4. ASSUME NEW s \in SUBSET D, s # {}, s \ {Pick(s)} \in P PROVE s \in P
  <2> DEFINE x == Pick(s)
             r == s \ {x}
  <2>1. x \in s
    BY <1>4 DEF Pick
  <2>2. h[s] = e[x] + h[r] /\ g[s] = f[x] + g[r] /\ g[r] \in Int /\ f[x] \in Int /\ x \in D /\ r \in SUBSET D
    BY <1>1, <1>2, <1>4, <2>1 DEF SumOf
  <2>3. h[r] = g[r] + (IF a \in r THEN n ELSE 0) /\ e[x] = f[x] + (IF x = a THEN n ELSE 0)
    BY <1>4, <2>2 DEF Moved
  <2>4. (a \in s /\ (x = a <=> a \notin r)) \/ (a \notin s /\ x # a /\ a \notin r)
    BY <2>1
  <2> HIDE DEF x, r
  <2>5. h[s] = g[s] + IF a \in s THEN n ELSE 0
    BY <2>2, <2>3, <2>4
  <2>6. QED
    BY <2>5
<1>5. P \in SUBSET SUBSET D
  OBVIOUS
<1> HIDE DEF P
<1>6. P = SUBSET D
  <2>1. \A s \in SUBSET D : s # {} /\ s \ {Pick(s)} \in P => s \in P
    BY <1>4
  <2>2. QED
    BY <1>3, <1>5, <2>1, SubsetInduction
<1>7. h[D] = g[D] + IF a \in D THEN n ELSE 0
  BY <1>6 DEF P
<1>8. QED
  BY <1>1, <1>2, <1>7

\* The sum of nothing.
LEMMA SumZero ==
  ASSUME NEW D, IsFiniteSet(D), NEW f \in [D -> Int], \A x \in D : f[x] = 0
  PROVE  Total(f) = 0
<1>1. PICK g \in [SUBSET D -> Int] : SumOf(g, f, D) /\ Total(f) = g[D]
  BY SumIsFold
<1> DEFINE P == {s \in SUBSET D : g[s] = 0}
<1>2. {} \in P
  BY <1>1 DEF SumOf
<1>3. ASSUME NEW s \in SUBSET D, s # {}, s \ {Pick(s)} \in P PROVE s \in P
  <2>1. Pick(s) \in D
    BY <1>3 DEF Pick
  <2>2. g[s] = f[Pick(s)] + g[s \ {Pick(s)}]
    BY <1>1, <1>3 DEF SumOf
  <2>3. QED
    BY <1>3, <2>1, <2>2
<1>4. P \in SUBSET SUBSET D
  OBVIOUS
<1> HIDE DEF P
<1>5. P = SUBSET D
  BY <1>2, <1>3, <1>4, SubsetInduction
<1>6. QED
  BY <1>1, <1>5 DEF P

-----------------------------------------------------------------------------
\* Payments move money, a reward makes as much as its amount says, and an
\* asset transaction does neither.
LEMMA EffectTotal ==
  ASSUME NEW s \in DerivedState, NEW t \in Txn, Applies(t, s)
  PROVE  /\ ~IsReward(t) => Total(Effect(t, s).bal) = Total(s.bal)
         /\ IsReward(t) => /\ t.amount \in (Reward - Eps)..(Reward + Eps)
                           /\ Total(Effect(t, s).bal) = Total(s.bal) + t.amount
<1>1. s.bal \in [Addr -> Int] /\ IsFiniteSet(Addr)
  BY FiniteAssumption DEF DerivedState
<1>2. CASE IsReward(t) /\ RewardApplies(t)
  <2> DEFINE g == Norm[t.to]
             e == Effect(t, s).bal
             n == t.amount
  <2>1. /\ g \in Addr /\ n \in Nat /\ e \in [Addr -> Int]
        /\ \A x \in Addr : e[x] = IF x = g THEN s.bal[x] + n ELSE s.bal[x]
    BY <1>2, RewardEffect
  <2>2. n \in (Reward - Eps)..(Reward + Eps)
    BY <1>2 DEF RewardApplies
  <2> HIDE DEF g, e, n
  <2>3. Moved(e, s.bal, Addr, g, n)
    BY <1>1, <2>1 DEF Moved
  <2>4. Total(e) = Total(s.bal) + n
    BY <1>1, <2>1, <2>3, SumMoves
  <2>5. QED
    BY <1>2, <2>2, <2>4 DEF e, n
<1>3. CASE t.kind = "CURRENCY" /\ ~IsReward(t) /\ PaymentApplies(t, s)
  <2> DEFINE f == Norm[t.from]
             g == Norm[t.to]
             e == Effect(t, s).bal
             n == t.amount
             k == -n
             b == s.bal
             d == [x \in Addr |-> b[x] + IF x = f THEN k ELSE 0]
  <2>1. /\ f \in Addr /\ g \in Addr /\ n \in Nat /\ e \in [Addr -> Int]
        /\ \A x \in Addr : e[x] = IF f = g THEN b[x]
                                  ELSE IF x = f THEN b[x] - n
                                  ELSE IF x = g THEN b[x] + n ELSE b[x]
    BY <1>3, PaymentEffect
  <2>2. k \in Int /\ n \in Int /\ k = 0 - n
    BY <2>1
  <2>3. b \in [Addr -> Int] /\ f \in Addr /\ g \in Addr /\ e \in [Addr -> Int]
    BY <1>1, <2>1
  <2> HIDE DEF f, g, e, n, k, b
  <2>4. d \in [Addr -> Int] /\ Moved(d, b, Addr, f, k)
    BY <2>2, <2>3 DEF Moved
  <2> HIDE DEF d
  <2>5. Moved(e, d, Addr, g, n)
    BY <2>1, <2>2, <2>3, <2>4 DEF Moved
  <2>6. Total(d) = Total(b) + k
    BY <1>1, <2>2, <2>3, <2>4, SumMoves
  <2>7. Total(e) = Total(d) + n
    BY <1>1, <2>2, <2>3, <2>4, <2>5, SumMoves
  <2>8. Total(b) \in Int
    <3>1. PICK h \in [SUBSET Addr -> Int] : SumOf(h, b, Addr) /\ Total(b) = h[Addr]
      BY <1>1, <2>3, SumIsFold
    <3>2. Addr \in SUBSET Addr
      OBVIOUS
    <3>3. QED
      BY <3>1, <3>2
  <2>9. Total(e) = Total(b)
    BY <2>2, <2>6, <2>7, <2>8
  <2>10. QED
    BY <1>3, <2>9 DEF e, b
<1>4. CASE t.kind = "ASSET" /\ AssetApplies(t, s)
  BY <1>4, AssetEffect DEF IsReward
<1>5. QED
  BY <1>2, <1>3, <1>4, AppliesCases

\* The accounts together hold what was minted, to within the slack of each
\* reward's amount.
THEOREM SupplyHolds == Spec => []SupplyIsMinted
<1> DEFINE Supply == Total(state.bal)
<1>1. SupplyIsMinted <=> Supply \in (minted * (Reward - Eps))..(minted * (Reward + Eps))
  BY DEF SupplyIsMinted, Total
<1>2. Init => SupplyIsMinted
  <2> SUFFICES ASSUME Init PROVE SupplyIsMinted
    OBVIOUS
  <2>1. minted = 0 /\ state.bal = [a \in Addr |-> 0]
    BY DEF Init, Fresh
  <2> DEFINE b == state.bal
  <2>2. b \in [Addr -> Int] /\ \A x \in Addr : b[x] = 0
    BY <2>1
  <2> HIDE DEF b
  <2>3. Total(b) = 0
    BY <2>2, FiniteAssumption, SumZero
  <2>4. 0 \in (0 * (Reward - Eps))..(0 * (Reward + Eps))
    BY AmountAssumption
  <2>5. QED
    BY <1>1, <2>1, <2>3, <2>4 DEF b
<1>3. TypeOK /\ SupplyIsMinted /\ [Next]_vars => SupplyIsMinted'
  <2> SUFFICES ASSUME TypeOK, SupplyIsMinted, [Next]_vars PROVE SupplyIsMinted'
    OBVIOUS
  <2>1. SupplyIsMinted' <=> Supply' \in (minted' * (Reward - Eps))..(minted' * (Reward + Eps))
    BY DEF SupplyIsMinted, Total
  <2>2. CASE state'.bal = state.bal /\ minted' = minted
    BY <1>1, <2>1, <2>2
  <2>3. CASE EndBlock
    BY <2>2, <2>3 DEF EndBlock, TypeOK, DerivedState
  <2>4. ASSUME NEW t \in Txn, Handle(t) PROVE SupplyIsMinted'
    <3>1. CASE Applies(t, state) /\ state' = Effect(t, state)
                 /\ minted' = minted + IF IsReward(t) THEN 1 ELSE 0
      <4>1. CASE ~IsReward(t)
        BY <1>1, <2>1, <3>1, <4>1, EffectTotal DEF TypeOK
      <4>2. CASE IsReward(t)
        <5> DEFINE n == t.amount
                   lo == Reward - Eps
                   hi == Reward + Eps
                   m == minted
                   v == Supply
        <5>1. n \in lo..hi /\ Supply' = v + n /\ minted' = m + 1
          BY <3>1, <4>2, EffectTotal DEF TypeOK
        <5>2. lo \in Int /\ hi \in Int /\ m \in Int
          BY AmountAssumption DEF TypeOK
        <5>3. v \in (m * lo)..(m * hi)
          BY <1>1
        <5> HIDE DEF n, lo, hi, m, v
        <5>4. (m + 1) * lo = m * lo + lo /\ (m + 1) * hi = m * hi + hi
              /\ m * lo \in Int /\ m * hi \in Int
          BY <5>2
        <5>5. v + n \in ((m + 1) * lo)..((m + 1) * hi)
          BY <5>1, <5>2, <5>3, <5>4
        <5>6. QED
          BY <2>1, <5>1, <5>5 DEF lo, hi
      <4>3. QED
        BY <4>1, <4>2
    <3>2. CASE state' = [state EXCEPT !.ok = FALSE] /\ minted' = minted
      BY <2>2, <3>2 DEF TypeOK, DerivedState
    <3>3. QED
      BY <2>4, <3>1, <3>2 DEF Handle
  <2>5. QED
    BY <2>2, <2>3, <2>4 DEF Next, vars
<1>4. QED
  BY <1>2, <1>3, TypeCorrect, PTL DEF Spec
=============================================================================
