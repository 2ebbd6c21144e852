--------------------------- MODULE ConsoleProofs ---------------------------
(***************************************************************************)
(* Proofs about a tab of the web console, for any accounts and spellings,  *)
(* and any number of calls under way, changes of the node's data and       *)
(* faults.                                                                 *)
(***************************************************************************)
EXTENDS Console, Lists, FiniteSetTheorems

-----------------------------------------------------------------------------
(* Answers. *)

\* What comes back to a page from a response of the node: what resolves was a
\* success of the node, with what it sent.
LEMMA ApiOutcome ==
  ASSUME NEW q, NEW status \in Int, NEW b
  PROVE  LET a == ApiRequest(q, Response(status, b))
         IN  /\ a.how \in {"resolved", "thrown"}
             /\ a.how = "resolved" => status \in 200..299 /\ a.value = Value(Value(b))
<1> DEFINE r == Response(status, b)
           v == VoidchainServerRequest(r)
           w == ProxyRequest(q, r)
           a == ApiRequest(q, r)
<1> SUFFICES /\ a.how \in {"resolved", "thrown"}
             /\ a.how = "resolved" => status \in 200..299 /\ a.value = Value(Value(b))
  OBVIOUS
<1>1. r.status = status /\ r.body = b
  BY DEF Response
<1>2. \/ v = Thrown
      \/ status \notin 200..299 /\ v = ApiError(r)
      \/ status \in 200..299 /\ v = Resolved(Value(b))
  BY <1>1 DEF VoidchainServerRequest, IsOk
<1>3. a = IF w.status \in 200..299 THEN Resolved(Value(w.body)) ELSE Thrown
  BY DEF ApiRequest, ParseResponse, IsOk
<1>4. w = IF ~Allow(q) THEN Response(404, NoBody)
          ELSE CASE v.how = "resolved" -> Response(200, v.value)
                 [] v.how = "ApiError" -> Response(v.status, v.value)
                 [] OTHER -> Response(500, NoBody)
  BY DEF ProxyRequest
<1> HIDE DEF r, v, w, a
<1>5. CASE ~Allow(q)
  BY <1>3, <1>4, <1>5 DEF Response, Thrown
<1>6. CASE Allow(q) /\ v = Thrown
  BY <1>3, <1>4, <1>6 DEF Response, Thrown
<1>7. CASE Allow(q) /\ status \notin 200..299 /\ v = ApiError(r)
  BY <1>1, <1>3, <1>4, <1>7 DEF Response, Thrown, ApiError
<1>8. CASE Allow(q) /\ status \in 200..299 /\ v = Resolved(Value(b))
  BY <1>3, <1>4, <1>8 DEF Response, Resolved
<1>9. QED
  BY <1>2, <1>5, <1>6, <1>7, <1>8

\* The form in which a page sends an address is the account the node would
\* have made of what was typed.
LEMMA FormsAgree ==
  ASSUME NEW s \in Spelling, Unambiguous(s)
  PROVE  NodeNormalize(NormalizeAddress(s)) = NodeNormalize(s)
<1>1. CASE s.prefix # "" \/ s.body \in Hex40
  BY <1>1 DEF NodeNormalize, NormalizeAddress, Canonical
<1>2. CASE ~(s.prefix # "" \/ s.body \in Hex40)
  <2> DEFINE t == Lowered(Trimmed(s))
  <2>1. t.prefix = "" /\ t.body = s.body /\ ~s.upper /\ s.upper \in BOOLEAN
    BY <1>2 DEF Spelling, Unambiguous, Lowered, Trimmed
  <2>2. Trimmed(t) = Trimmed(s)
    BY <2>1 DEF Spelling, Lowered, Trimmed
  <2> HIDE DEF t
  <2>3. NormalizeAddress(s) = t /\ NodeNormalize(t) = Trimmed(t) /\ NodeNormalize(s) = Trimmed(s)
    BY <1>2, <2>1 DEF NodeNormalize, NormalizeAddress, t
  <2>4. QED
    BY <2>2, <2>3
<1>3. QED
  BY <1>1, <1>2

\* The page and the node agree on the account that an address in any
\* spelling, or a name in small letters, stands for.
THEOREM AddressesAgree == Spec => []RecipientMeant
<1>1. RecipientMeant
  BY FormsAgree DEF RecipientMeant
<1>2. QED
  BY <1>1, PTL

-----------------------------------------------------------------------------
(* Where new calls go. *)

\* g is the placement of the calls of each set of indices.
PlaceIter(g, c, list, D) ==
  g = [s \in SUBSET D |-> IF s = {} THEN c ELSE Place(g[s \ {Max(s)}], list[Max(s)])]

\* acc[k] is what the first k calls of the list make of c.
Placing(acc, c, list) ==
  /\ acc[0] = c /\ FoldLeft(Place, c, list) = acc[Len(list)]
  /\ \A k \in 1..Len(list) : acc[k] = Place(acc[k - 1], list[k])

\* Placing the calls of a list one after the other.
LEMMA PlaceSteps ==
  ASSUME NEW X, NEW c \in [Slot -> X], NEW list \in Seq(X)
  PROVE  \E acc : Placing(acc, c, list)
<1> DEFINE n == Len(list)
           V == [Slot -> X]
           F == [p \in V \X X |-> Place(p[1], p[2])]
           g == CHOOSE h : PlaceIter(h, c, list, 1..n)
           acc == [k \in 0..n |-> g[1..k]]
<1>1. n \in Nat /\ DOMAIN list = 1..n /\ \A i \in 1..n : list[i] \in X
  OBVIOUS
<1>2. PlaceIter(g, c, list, 1..n)
  <2>1. ASSUME NEW v \in V, NEW x \in X PROVE F[<<v, x>>] = Place(v, x) /\ F[<<v, x>>] \in V
    <3>1. Place(v, x) \in V
      BY DEF Place
    <3>2. F[<<v, x>>] = Place(v, x)
      OBVIOUS
    <3>3. QED
      BY <3>1, <3>2
  <2> HIDE DEF F, n, V
  <2>2. c \in V /\ \A v \in V, x \in X : F[<<v, x>>] \in V
    BY <2>1 DEF V
  <2>3. PICK h \in [SUBSET (1..n) -> V] : FoldOf(h, F, c, list, 1..n)
    BY <1>1, <2>2, FoldExists
  <2>4. ASSUME NEW s \in SUBSET (1..n)
        PROVE  h[s] = IF s = {} THEN c ELSE Place(h[s \ {Max(s)}], list[Max(s)])
    <3>1. h[s] = IF s = {} THEN c ELSE F[<<h[s \ {Max(s)}], list[Max(s)]>>]
      BY <2>3 DEF FoldOf
    <3>2. CASE s = {}
      BY <3>1, <3>2
    <3>3. CASE s # {}
      <4> DEFINE m == Max(s)
                 r == s \ {m}
      <4>1. r \in SUBSET (1..n) /\ m \in 1..n
        BY <1>1, <3>3, MaxIsIn
      <4> HIDE DEF m
      <4>2. h[r] \in V /\ list[m] \in X
        BY <1>1, <4>1
      <4>3. QED
        BY <2>1, <3>1, <3>3, <4>2 DEF m
    <3>4. QED
      BY <3>2, <3>3
  <2>5. h = [s \in SUBSET (1..n) |-> h[s]]
    OBVIOUS
  <2>6. PlaceIter(h, c, list, 1..n)
    BY <2>4, <2>5 DEF PlaceIter
  <2>7. QED
    BY <2>6
<1>3. FoldLeft(Place, c, list) = g[1..n]
  BY <1>1 DEF FoldLeft, MapThenFoldSet, PlaceIter
<1> HIDE DEF g, n, V, F
<1>4. acc[0] = c
  <2>1. 1..0 = {} /\ {} \in SUBSET (1..n)
    OBVIOUS
  <2>2. g[{}] = c
    BY <1>2, <2>1 DEF PlaceIter
  <2>3. QED
    BY <1>1, <2>1, <2>2
<1>5. ASSUME NEW k \in 1..n PROVE acc[k] = Place(acc[k - 1], list[k])
  <2>1. Max(1..k) = k /\ 1..k \in SUBSET (1..n) /\ 1..k # {} /\ (1..k) \ {k} = 1..(k - 1)
    BY <1>1, IndexSets
  <2>2. g[1..k] = Place(g[(1..k) \ {k}], list[k])
    BY <1>2, <2>1 DEF PlaceIter
  <2>3. k - 1 \in 0..n /\ k \in 0..n
    BY <1>1
  <2>4. QED
    BY <2>1, <2>2, <2>3
<1>6. FoldLeft(Place, c, list) = acc[n]
  BY <1>1, <1>3
<1> HIDE DEF acc
<1>7. Placing(acc, c, list)
  BY <1>4, <1>5, <1>6 DEF Placing, n
<1>8. QED
  BY <1>7

\* d is c with the calls of the list in free slots of their own.
Placed(d, c, list) ==
  /\ d = [s \in Slot |-> d[s]]
  /\ \A s \in Slot : \/ d[s] = c[s]
                     \/ c[s].what = None /\ \E i \in 1..Len(list) : d[s] = list[i]
  /\ \A i \in 1..Len(list) : \E s \in Slot : c[s].what = None /\ d[s] = list[i]
  /\ Len(list) = 1 => \E t \in Slot : \A s \in Slot \ {t} : d[s] = c[s]

\* Where there are enough free slots, every call of a list gets one.
LEMMA PlacedAll ==
  ASSUME NEW X, NEW c \in [Slot -> X], NEW list \in Seq(X),
         \A i \in 1..Len(list) : list[i].what # None,
         Cardinality(FreeSlots(c)) >= Len(list)
  PROVE  Placed(FoldLeft(Place, c, list), c, list)
<1> DEFINE n == Len(list)
           d == FoldLeft(Place, c, list)
<1>1. n \in Nat /\ \A i \in 1..n : list[i] \in X
  OBVIOUS
<1>0. PICK acc : Placing(acc, c, list)
  BY PlaceSteps
<1>2. /\ acc[0] = c /\ d = acc[n]
      /\ \A k \in 1..n : acc[k] = Place(acc[k - 1], list[k])
  BY <1>0 DEF Placing
<1> DEFINE Q(k) ==
             /\ acc[k] \in [Slot -> X]
             /\ Cardinality(FreeSlots(acc[k])) \in Nat /\ Cardinality(FreeSlots(acc[k])) >= n - k
             /\ \A s \in Slot : \/ acc[k][s] = c[s]
                                \/ c[s].what = None /\ \E i \in 1..k : acc[k][s] = list[i]
             /\ \A i \in 1..k : \E s \in Slot : c[s].what = None /\ acc[k][s] = list[i]
           T == {k \in Nat : k <= n => Q(k)}
<1>3. ASSUME NEW e \in [Slot -> X] PROVE IsFiniteSet(FreeSlots(e)) /\ Cardinality(FreeSlots(e)) \in Nat
  <2>1. FreeSlots(e) \in SUBSET Slot
    BY DEF FreeSlots
  <2>2. QED
    BY <2>1, ConsoleAssumption, FS_Subset, FS_CardinalityType
<1>4. Q(0)
  <2>1. Cardinality(FreeSlots(c)) \in Nat
    BY <1>3
  <2>2. QED
    BY <1>1, <1>2, <2>1
<1> HIDE DEF n, d
<1>5. ASSUME NEW k \in Nat, k + 1 <= n, Q(k) PROVE Q(k + 1)
  <2> DEFINE e == acc[k]
             x == list[k + 1]
             t == CHOOSE s \in FreeSlots(e) : TRUE
             f == acc[k + 1]
  <2>1. k + 1 \in 1..n /\ k + 1 - 1 = k /\ \A i \in 1..(k + 1) : i \in 1..k \/ i = k + 1
    BY <1>1, <1>5
  <2>2. x \in X /\ e \in [Slot -> X] /\ x.what # None
    BY <1>1, <1>5, <2>1 DEF n
  <2>3. f = Place(e, x)
    BY <1>2, <2>1
  <2>4. /\ Cardinality(FreeSlots(e)) \in Nat /\ Cardinality(FreeSlots(e)) >= n - k
        /\ \A s \in Slot : \/ e[s] = c[s]
                           \/ c[s].what = None /\ \E i \in 1..k : e[s] = list[i]
        /\ \A i \in 1..k : \E s \in Slot : c[s].what = None /\ e[s] = list[i]
    BY <1>5
  <2>5. t \in FreeSlots(e)
    <3>1. FreeSlots(e) # {}
      <4>1. Cardinality(FreeSlots(e)) # 0
        BY <1>1, <1>5, <2>4
      <4>2. QED
        BY <4>1, FS_EmptySet
    <3>2. QED
      BY <3>1
  <2>6. f = [e EXCEPT ![t] = x]
    BY <2>3 DEF Place
  <2> HIDE DEF e, x, t, f
  <2>7. t \in Slot /\ e[t].what = None
    BY <2>5 DEF FreeSlots
  <2>8. f \in [Slot -> X] /\ f[t] = x /\ \A s \in Slot \ {t} : f[s] = e[s]
    BY <2>2, <2>6, <2>7
  <2>9. c[t].what = None
    BY <2>4, <2>7
  <2>10. Cardinality(FreeSlots(f)) \in Nat /\ Cardinality(FreeSlots(f)) >= n - (k + 1)
    <3> DEFINE A == FreeSlots(e)
               B == FreeSlots(f)
    <3>1. A \ {t} \subseteq B
      BY <2>7, <2>8 DEF FreeSlots
    <3>2. IsFiniteSet(A) /\ IsFiniteSet(B) /\ Cardinality(B) \in Nat
      BY <1>3, <2>2, <2>8
    <3> HIDE DEF A, B
    <3>3. Cardinality(A \ {t}) = Cardinality(A) - 1
      BY <2>5, <3>2, FS_RemoveElement DEF A
    <3>4. Cardinality(A \ {t}) <= Cardinality(B)
      BY <3>1, <3>2, FS_Subset
    <3>5. QED
      BY <1>1, <2>4, <3>2, <3>3, <3>4 DEF A, B
  <2>11. ASSUME NEW s \in Slot
         PROVE  f[s] = c[s] \/ (c[s].what = None /\ \E i \in 1..(k + 1) : f[s] = list[i])
    <3>1. CASE s = t
      <4>1. f[s] = list[k + 1] /\ k + 1 \in 1..(k + 1)
        BY <2>8, <3>1, <1>5 DEF x
      <4>2. QED
        BY <2>9, <3>1, <4>1
    <3>2. CASE s # t
      <4>1. f[s] = e[s]
        BY <2>8, <3>2
      <4>2. \A i \in 1..k : i \in 1..(k + 1)
        BY <1>5
      <4>3. QED
        BY <2>4, <4>1, <4>2
    <3>3. QED
      BY <3>1, <3>2
  <2>12. ASSUME NEW i \in 1..(k + 1) PROVE \E s \in Slot : c[s].what = None /\ f[s] = list[i]
    <3>1. CASE i = k + 1
      BY <2>7, <2>8, <2>9, <3>1 DEF x
    <3>2. CASE i # k + 1
      <4>1. i \in 1..k /\ i \in 1..n
        BY <1>1, <1>5, <2>1, <3>2
      <4>2. PICK s \in Slot : c[s].what = None /\ e[s] = list[i]
        BY <2>4, <4>1
      <4>3. list[i].what # None
        BY <4>1 DEF n
      <4>4. s # t
        BY <2>7, <4>2, <4>3
      <4>5. QED
        BY <2>8, <4>2, <4>4
    <3>3. QED
      BY <3>1, <3>2
  <2>13. QED
    BY <2>8, <2>10, <2>11, <2>12 DEF f
<1> HIDE DEF Q
<1>6. T = Nat
  <2>1. T \in SUBSET Nat /\ 0 \in T
    BY <1>4
  <2>2. ASSUME NEW k \in T PROVE k + 1 \in T
    <3>1. k \in Nat /\ (k <= n => Q(k))
      OBVIOUS
    <3>2. k + 1 <= n => k <= n
      BY <1>1, <3>1
    <3>3. QED
      BY <1>5, <3>1, <3>2
  <2> HIDE DEF T
  <2>3. QED
    BY <2>1, <2>2, SetInduction
<1>7. Q(n)
  BY <1>1, <1>6
<1>8. n = 1 => \E t \in Slot : \A s \in Slot \ {t} : d[s] = c[s]
  <2> SUFFICES ASSUME n = 1 PROVE \E t \in Slot : \A s \in Slot \ {t} : d[s] = c[s]
    OBVIOUS
  <2> DEFINE t == CHOOSE s \in FreeSlots(c) : TRUE
  <2>1. d = [c EXCEPT ![t] = list[1]]
    <3>1. 1 \in 1..n /\ 1 - 1 = 0
      BY <1>1
    <3>2. acc[1] = Place(acc[0], list[1])
      BY <1>2, <3>1
    <3>3. QED
      BY <1>2, <3>2 DEF Place
  <2>2. t \in Slot
    <3>1. Cardinality(FreeSlots(c)) # 0
      BY <1>3 DEF n
    <3>2. FreeSlots(c) # {}
      BY <3>1, FS_EmptySet
    <3>3. QED
      BY <3>2 DEF FreeSlots
  <2> HIDE DEF t
  <2>3. \A s \in Slot \ {t} : d[s] = c[s]
    BY <2>1
  <2>4. QED
    BY <2>2, <2>3
<1>9. QED
  <2>1. /\ d \in [Slot -> X]
        /\ \A s \in Slot : d[s] = c[s] \/ (c[s].what = None /\ \E i \in 1..n : d[s] = list[i])
        /\ \A i \in 1..n : \E s \in Slot : c[s].what = None /\ d[s] = list[i]
    BY <1>2, <1>7 DEF Q
  <2>2. d = [s \in Slot |-> d[s]]
    BY <2>1
  <2>3. QED
    BY <1>8, <2>1, <2>2 DEF Placed, d, n

-----------------------------------------------------------------------------
(* The inductive invariant. *)

ViewType ==
  [info : OrNone, txs : OrNone, health : {"unknown", "ok", "DOWN"},
   isMining : BOOLEAN, miner : OrNone, owner : BOOLEAN, result : BOOLEAN,
   proof : BOOLEAN, blocks : Read, headers : Read, pool : Read, isLoading : BOOLEAN]

\* The cards that one answer fills are filled together.
ViewOK(v) ==
  /\ v \in ViewType
  /\ v.info = v.txs /\ (v.blocks = Unread <=> v.headers = Unread)

\* An answer a to the request p of a call.
IsAnswer(a, p, applied) ==
  /\ a.how \in {"pending", "resolved", "thrown"}
  /\ a.how = "resolved" /\ p \in Versioned => a.value \in Version
  /\ a.how = "resolved" /\ p \in Changing => applied

Calling(c) ==
  /\ c.what \in DOMAIN Paths /\ c.here \in BOOLEAN
  /\ c.for \in OrNone /\ c.applied \in BOOLEAN
  /\ c = [what |-> c.what, here |-> c.here, for |-> c.for, applied |-> c.applied,
          got |-> c.got]
  /\ c.got = [p \in Paths[c.what] |-> c.got[p]]
  /\ \A p \in Paths[c.what] : IsAnswer(c.got[p], p, c.applied)

CallsOK(c) ==
  /\ c = [s \in Slot |-> c[s]]
  /\ \A s \in Slot : c[s] = NoCall \/ Calling(c[s])

\* A request to mine, and one that shows the page as loading, of the page.
Mines(call) == call.what = "mine" /\ call.here
Loads(call) == call.what \in {"refreshChain", "refreshPool"} /\ call.here

\* A page has no two requests to mine under way.
FlagsOK(v, c) ==
  /\ v.isMining <=> \E s \in Slot : Mines(c[s])
  /\ \A s, t \in Slot : Mines(c[s]) /\ Mines(c[t]) => s = t
  /\ v.isLoading => \E s \in Slot : Loads(c[s])

RestOK ==
  /\ version \in Version /\ faults \in 0..MaxFaults
  /\ wallet \in OrNone /\ isHydrated \in BOOLEAN /\ page \in Page
  /\ history \in Seq(Version) /\ stored \in Seq(Version)
  /\ isHydrated => IsSuffix(stored, history)

ConsoleInv == RestOK /\ ViewOK(view) /\ CallsOK(calls) /\ FlagsOK(view, calls)

\* The calls that handlers make.
Fresh == {Call(x, f) : x \in DOMAIN Paths, f \in OrNone}

\* A call that was just made.
LEMMA FreshCall ==
  ASSUME NEW x \in DOMAIN Paths, NEW f \in OrNone
  PROVE  /\ Call(x, f) \in Fresh /\ Calling(Call(x, f))
         /\ Call(x, f).what = x /\ Call(x, f).here /\ x # None
<1>1. Call(x, f) \in Fresh
  BY DEF Fresh
<1>2. x # None
  BY ConsoleAssumption
<1> DEFINE c == Call(x, f)
<1>3. /\ c.what = x /\ c.here = TRUE /\ c.for = f /\ c.applied = FALSE
      /\ c = [what |-> c.what, here |-> c.here, for |-> c.for, applied |-> c.applied, got |-> c.got]
      /\ c.got = [p \in Paths[x] |-> Pending]
  BY DEF Call
<1> HIDE DEF c
<1>4. \A p \in Paths[x] : c.got[p] = Pending
  BY <1>3
<1>5. \A p \in Paths[x] : IsAnswer(c.got[p], p, c.applied)
  BY <1>4 DEF IsAnswer, Pending
<1>6. c.got = [p \in Paths[x] |-> c.got[p]]
  BY <1>3
<1>7. Calling(c)
  BY <1>3, <1>5, <1>6 DEF Calling
<1>8. QED
  BY <1>1, <1>2, <1>3, <1>7 DEF c

\* Making calls from a handler.
LEMMA Making ==
  ASSUME NEW c, NEW d, NEW list \in Seq(Fresh), CallsOK(c),
         Cardinality(FreeSlots(c)) >= Len(list), d = FoldLeft(Place, c, list)
  PROVE  CallsOK(d) /\ Placed(d, c, list)
<1> DEFINE X == Fresh \cup {c[s] : s \in Slot}
<1>1. Fresh \subseteq X /\ \A s \in Slot : c[s] \in X
  OBVIOUS
<1> HIDE DEF X
<1>2. \A x \in Fresh : x.what # None /\ Calling(x)
  <2> SUFFICES ASSUME NEW x \in Fresh PROVE x.what # None /\ Calling(x)
    OBVIOUS
  <2>1. PICK y \in DOMAIN Paths, f \in OrNone : x = Call(y, f)
    BY DEF Fresh
  <2>2. QED
    BY <2>1, FreshCall
<1>3. c \in [Slot -> X]
  BY <1>1 DEF CallsOK
<1>4. list \in Seq(X) /\ \A i \in 1..Len(list) : list[i] \in Fresh
  BY <1>1
<1>5. \A i \in 1..Len(list) : list[i].what # None
  BY <1>2, <1>4
<1>6. Placed(d, c, list)
  BY <1>3, <1>4, <1>5, PlacedAll
<1>7. \A s \in Slot : d[s] = NoCall \/ Calling(d[s])
  <2> SUFFICES ASSUME NEW s \in Slot PROVE d[s] = NoCall \/ Calling(d[s])
    OBVIOUS
  <2>1. CASE d[s] = c[s]
    BY <2>1 DEF CallsOK
  <2>2. CASE \E i \in 1..Len(list) : d[s] = list[i]
    BY <1>2, <1>4, <2>2
  <2>3. QED
    BY <1>6, <2>1, <2>2 DEF Placed
<1>8. QED
  BY <1>6, <1>7 DEF Placed, CallsOK

\* A handler that goes on with one call, or with none.
LEMMA AtMostOne ==
  ASSUME NEW x \in DOMAIN Paths, NEW f \in OrNone, x # "mine",
         NEW list, list \in {<<>>, <<Call(x, f)>>}
  PROVE  list \in Seq(Fresh) /\ \A i \in 1..Len(list) : list[i].what # "mine"
<1> DEFINE k == Call(x, f)
<1>1. k \in Fresh /\ k.what # "mine"
  BY FreshCall
<1> HIDE DEF k
<1>2. CASE list = <<>>
  BY <1>2
<1>3. CASE list = <<k>>
  <2>1. Len(list) = 1 /\ list[1] = k /\ list \in Seq(Fresh)
    BY <1>1, <1>3
  <2>2. QED
    BY <1>1, <2>1
<1>4. QED
  BY <1>2, <1>3 DEF k

\* The flags need not change while the page's requests to mine are the same,
\* and none that it waits for is gone.
LEMMA FlagsStay ==
  ASSUME NEW v, NEW c, NEW w, NEW d, FlagsOK(v, c),
         w.isMining = v.isMining, w.isLoading => v.isLoading,
         \A s \in Slot : Mines(d[s]) <=> Mines(c[s]),
         w.isLoading => \A s \in Slot : Loads(c[s]) => Loads(d[s])
  PROVE  FlagsOK(w, d)
BY DEF FlagsOK

\* New calls other than to mine; the page may wait for one of them.
LEMMA FlagsWithMore ==
  ASSUME NEW v, NEW c, NEW w, NEW d, NEW list \in Seq(Fresh), FlagsOK(v, c),
         w.isMining = v.isMining, Placed(d, c, list),
         w.isLoading => v.isLoading \/ \E i \in 1..Len(list) : Loads(list[i]),
         \A i \in 1..Len(list) : list[i].what # "mine"
  PROVE  FlagsOK(w, d)
<1>1. "mine" # None /\ "refreshChain" # None /\ "refreshPool" # None
  BY ConsoleAssumption DEF Paths
<1>2. ASSUME NEW s \in Slot PROVE (Mines(d[s]) <=> Mines(c[s])) /\ (Loads(c[s]) => Loads(d[s]))
  <2>1. CASE d[s] = c[s]
    BY <2>1
  <2>2. CASE c[s].what = None /\ \E i \in 1..Len(list) : d[s] = list[i]
    <3>1. d[s].what # "mine"
      BY <2>2
    <3>2. QED
      BY <1>1, <2>2, <3>1 DEF Mines, Loads
  <2>3. QED
    BY <2>1, <2>2 DEF Placed
<1>3. w.isLoading => \E s \in Slot : Loads(d[s])
  <2>1. CASE v.isLoading
    BY <1>2, <2>1 DEF FlagsOK
  <2>2. CASE \E i \in 1..Len(list) : Loads(list[i])
    BY <2>2 DEF Placed
  <2>3. QED
    BY <2>1, <2>2
<1>4. QED
  BY <1>2, <1>3 DEF FlagsOK

-----------------------------------------------------------------------------
(* The steps of Next. *)

\* The invariant of the next state from that of its parts.
LEMMA Together ==
  ASSUME RestOK', ViewOK(view'), CallsOK(calls'), FlagsOK(view', calls')
  PROVE  ConsoleInv'
BY DEF ConsoleInv, ViewOK, CallsOK, FlagsOK, ViewType, Calling, IsAnswer, Mines, Loads,
       NoCall, OrNone, Read, Version, Versioned, Changing, Paths, Unread

\* What is not of the page or the calls is left alone.
LEMMA RestStays ==
  ASSUME RestOK, UNCHANGED <<node, wallet, mining, page>>
  PROVE  RestOK'
<1>1. /\ version' = version /\ faults' = faults /\ wallet' = wallet /\ page' = page
      /\ history' = history /\ stored' = stored /\ isHydrated' = isHydrated
  BY DEF node, mining
<1>2. QED
  BY <1>1 DEF RestOK, Version, OrNone, Page, IsSuffix

\* A handler that makes one call.
LEMMA Asking ==
  ASSUME CallsOK(calls), NEW x \in DOMAIN Paths, NEW f \in OrNone, Asks(x, f)
  PROVE  /\ <<Call(x, f)>> \in Seq(Fresh) /\ CallsOK(calls')
         /\ Placed(calls', calls, <<Call(x, f)>>)
<1> DEFINE list == <<Call(x, f)>>
<1>1. list \in Seq(Fresh)
  BY FreshCall
<1>2. Cardinality(FreeSlots(calls)) >= Len(list) /\ calls' = FoldLeft(Place, calls, list)
  BY DEF Asks, Makes
<1> HIDE DEF list
<1>3. QED
  BY <1>1, <1>2, Making DEF list

\* The invariant after a handler that makes one call, not to mine.
LEMMA AskingKeeps ==
  ASSUME ConsoleInv, NEW x \in DOMAIN Paths, NEW f \in OrNone, Asks(x, f), x # "mine",
         UNCHANGED <<node, wallet, mining, page>>, ViewOK(view'),
         view'.isMining = view.isMining,
         view'.isLoading => view.isLoading \/ x \in {"refreshChain", "refreshPool"}
  PROVE  ConsoleInv'
<1> DEFINE list == <<Call(x, f)>>
<1>1. list \in Seq(Fresh) /\ CallsOK(calls') /\ Placed(calls', calls, list)
  BY Asking DEF ConsoleInv
<1>2. \A i \in 1..Len(list) : list[i].what # "mine"
  BY FreshCall
<1>3. view'.isLoading => view.isLoading \/ \E i \in 1..Len(list) : Loads(list[i])
  <2>1. Len(list) = 1 /\ list[1] = Call(x, f)
    OBVIOUS
  <2>2. x \in {"refreshChain", "refreshPool"} => Loads(Call(x, f))
    BY FreshCall DEF Loads
  <2>3. QED
    BY <2>1, <2>2
<1> HIDE DEF list
<1>4. FlagsOK(view', calls')
  BY <1>1, <1>2, <1>3, FlagsWithMore DEF ConsoleInv
<1>5. QED
  BY <1>1, <1>4, RestStays, Together DEF ConsoleInv

\* A page whose flags stay, with the same calls.
LEMMA ViewKeeps ==
  ASSUME ConsoleInv, UNCHANGED <<node, wallet, mining, page, calls>>, ViewOK(view'),
         view'.isMining = view.isMining, view'.isLoading = view.isLoading
  PROVE  ConsoleInv'
<1>1. calls' = calls
  OBVIOUS
<1>2. CallsOK(calls') /\ FlagsOK(view', calls')
  BY <1>1 DEF ConsoleInv, FlagsOK
<1>3. RestOK'
  BY RestStays DEF ConsoleInv
<1>4. QED
  BY <1>2, <1>3, Together

\* What a page's view may be set to.
LEMMA ViewEdits ==
  ASSUME NEW v, ViewOK(v)
  PROVE  /\ v.isMining \in BOOLEAN /\ v.isLoading \in BOOLEAN
         /\ \A b \in BOOLEAN :
              /\ ViewOK([v EXCEPT !.isMining = b]) /\ ViewOK([v EXCEPT !.isLoading = b])
              /\ ViewOK([v EXCEPT !.proof = b]) /\ ViewOK([v EXCEPT !.owner = b])
              /\ ViewOK([v EXCEPT !.result = b])
         /\ \A w \in OrNone :
              /\ ViewOK([v EXCEPT !.miner = w])
              /\ ViewOK([v EXCEPT !.info = w, !.txs = w])
         /\ \A h \in {"ok", "DOWN"} : ViewOK([v EXCEPT !.health = h])
         /\ \A x, y \in Version :
              ViewOK([v EXCEPT !.isLoading = FALSE, !.blocks = x, !.headers = y])
         /\ \A x \in Version : ViewOK([v EXCEPT !.isLoading = FALSE, !.pool = x])
<1>1. v \in ViewType
  BY DEF ViewOK
<1>2. \A x \in Version : x \in Read /\ x # Unread
  BY ConsoleAssumption DEF Read, Version, Unread
<1>3. v.isMining \in BOOLEAN /\ v.isLoading \in BOOLEAN
  BY <1>1 DEF ViewType
<1>4. ASSUME NEW b \in BOOLEAN
      PROVE  /\ ViewOK([v EXCEPT !.isMining = b]) /\ ViewOK([v EXCEPT !.isLoading = b])
             /\ ViewOK([v EXCEPT !.proof = b]) /\ ViewOK([v EXCEPT !.owner = b])
             /\ ViewOK([v EXCEPT !.result = b])
  BY <1>1 DEF ViewOK, ViewType
<1>5. ASSUME NEW w \in OrNone PROVE ViewOK([v EXCEPT !.miner = w])
  BY <1>1 DEF ViewOK, ViewType
<1>6. ASSUME NEW w \in OrNone PROVE ViewOK([v EXCEPT !.info = w, !.txs = w])
  BY <1>1 DEF ViewOK, ViewType
<1>7. ASSUME NEW h \in {"ok", "DOWN"} PROVE ViewOK([v EXCEPT !.health = h])
  BY <1>1 DEF ViewOK, ViewType
<1>8. ASSUME NEW x \in Version, NEW y \in Version
      PROVE  ViewOK([v EXCEPT !.isLoading = FALSE, !.blocks = x, !.headers = y])
  BY <1>1, <1>2 DEF ViewOK, ViewType
<1>9. ASSUME NEW x \in Version PROVE ViewOK([v EXCEPT !.isLoading = FALSE, !.pool = x])
  BY <1>1, <1>2 DEF ViewOK, ViewType
<1>10. QED
  BY <1>3, <1>4, <1>5, <1>6, <1>7, <1>8, <1>9

\* The clicks that make a request other than to mine, the timer, and typing.
LEMMA ClicksKeep ==
  ASSUME ConsoleInv,
         \/ RefreshChain \/ RefreshPool \/ FetchProof \/ LookUpOwner
         \/ Send \/ SubmitAsset \/ ClickCreate \/ EditMiner
  PROVE  ConsoleInv'
<1>1. ViewOK(view) /\ wallet \in OrNone /\ None \in OrNone
  BY DEF ConsoleInv, RestOK, OrNone
<1>2. view \in ViewType
  BY <1>1 DEF ViewOK
<1> DEFINE K == {"refreshChain", "refreshPool", "fetchProof", "lookUpOwner", "send", "asset",
                 "create"}
<1>3. \A x \in K : x \in DOMAIN Paths /\ x # "mine"
  BY DEF Paths
<1>4. ASSUME view' = view PROVE view'.isMining = view.isMining /\ view'.isLoading = view.isLoading
             /\ ViewOK(view')
  BY <1>1, <1>4
<1>5. CASE RefreshChain \/ RefreshPool
  <2>1. view' = [view EXCEPT !.isLoading = TRUE] /\ UNCHANGED <<node, wallet, mining, page>>
    BY <1>5 DEF RefreshChain, RefreshPool
  <2>2. view'.isMining = view.isMining /\ ViewOK(view')
    BY <1>1, <1>2, <2>1, ViewEdits DEF ViewType
  <2>3. PICK x \in {"refreshChain", "refreshPool"} : Asks(x, None)
    BY <1>5 DEF RefreshChain, RefreshPool
  <2>4. QED
    BY <1>1, <1>3, <2>1, <2>2, <2>3, AskingKeeps
<1>6. CASE FetchProof
  <2>1. UNCHANGED <<node, wallet, mining, page>>
    BY <1>6 DEF FetchProof
  <2>2. CASE Asks("fetchProof", None) /\ UNCHANGED view
    BY <1>1, <1>3, <1>4, <2>1, <2>2, AskingKeeps
  <2>3. CASE UNCHANGED calls /\ view' = [view EXCEPT !.proof = FALSE]
    <3>1. view'.isMining = view.isMining /\ view'.isLoading = view.isLoading /\ ViewOK(view')
      BY <1>1, <1>2, <2>3, ViewEdits DEF ViewType
    <3>2. QED
      BY <2>1, <2>3, <3>1, ViewKeeps
  <2>4. QED
    BY <1>6, <2>2, <2>3 DEF FetchProof
<1>7. CASE LookUpOwner
  <2>1. Asks("lookUpOwner", None) /\ UNCHANGED <<node, wallet, mining, page>> /\ view' = view
    BY <1>7 DEF LookUpOwner
  <2>2. QED
    BY <1>1, <1>3, <1>4, <2>1, AskingKeeps
<1>8. CASE Send
  <2>1. Asks("send", wallet) /\ UNCHANGED <<node, wallet, mining, page>> /\ view' = view
    BY <1>8 DEF Send
  <2>2. QED
    BY <1>1, <1>3, <1>4, <2>1, AskingKeeps
<1>9. CASE SubmitAsset
  <2>1. Asks("asset", wallet) /\ UNCHANGED <<node, wallet, mining, page>> /\ view' = view
    BY <1>9 DEF SubmitAsset
  <2>2. QED
    BY <1>1, <1>3, <1>4, <2>1, AskingKeeps
<1>10. CASE ClickCreate
  <2>1. Asks("create", wallet) /\ UNCHANGED <<node, wallet, mining, page>> /\ view' = view
    BY <1>10 DEF ClickCreate
  <2>2. QED
    BY <1>1, <1>3, <1>4, <2>1, AskingKeeps
<1>11. CASE EditMiner
  <2>1. PICK m \in OrNone : view' = [view EXCEPT !.miner = m]
    BY <1>11 DEF EditMiner, OrNone
  <2>2. UNCHANGED <<node, wallet, mining, page, calls>>
    BY <1>11 DEF EditMiner
  <2>3. view'.isMining = view.isMining /\ view'.isLoading = view.isLoading /\ ViewOK(view')
    BY <1>1, <1>2, <2>1, ViewEdits DEF ViewType
  <2>4. QED
    BY <2>2, <2>3, ViewKeeps
<1>12. QED
  BY <1>5, <1>6, <1>7, <1>8, <1>9, <1>10, <1>11

\* The first request of a page to mine.
LEMMA ClickMineKeeps ==
  ASSUME ConsoleInv, ClickMine
  PROVE  ConsoleInv'
<1>1. ViewOK(view) /\ CallsOK(calls) /\ FlagsOK(view, calls) /\ view \in ViewType
  BY DEF ConsoleInv, ViewOK
<1>2. view.miner \in OrNone /\ "mine" \in DOMAIN Paths
  BY <1>1 DEF ViewType, Paths
<1>3. /\ Asks("mine", view.miner) /\ view' = [view EXCEPT !.isMining = TRUE]
      /\ ~view.isMining /\ UNCHANGED <<node, wallet, mining, page>>
  BY DEF ClickMine
<1>4. ViewOK(view') /\ view'.isMining = TRUE /\ view'.isLoading = view.isLoading
  BY <1>1, <1>3, ViewEdits DEF ViewType
<1> DEFINE k == Call("mine", view.miner)
           list == <<k>>
<1>5. k.what = "mine" /\ k.here /\ "mine" # None /\ "refreshChain" # None /\ "refreshPool" # None
  BY <1>2, FreshCall, ConsoleAssumption DEF Paths
<1>6. CallsOK(calls') /\ Placed(calls', calls, list)
  BY <1>1, <1>2, <1>3, Asking
<1>7. Len(list) = 1 /\ list[1] = k /\ 1..Len(list) = {1}
  OBVIOUS
<1> HIDE DEF list, k
<1>8. /\ \A s \in Slot : calls'[s] = calls[s] \/ (calls[s].what = None /\ calls'[s] = k)
      /\ \E s \in Slot : calls[s].what = None /\ calls'[s] = k
      /\ \E t \in Slot : \A s \in Slot \ {t} : calls'[s] = calls[s]
  BY <1>6, <1>7 DEF Placed
<1>9. PICK u \in Slot : calls[u].what = None /\ calls'[u] = k
  BY <1>8
<1>10. Mines(k) /\ \A s \in Slot : ~Mines(calls[s])
  BY <1>1, <1>3, <1>5 DEF Mines, FlagsOK
<1>11. \A s \in Slot : s # u => calls'[s] = calls[s]
  <2>1. PICK t \in Slot : \A s \in Slot \ {t} : calls'[s] = calls[s]
    BY <1>8
  <2>2. t = u
    BY <1>5, <1>9, <2>1
  <2>3. QED
    BY <2>1, <2>2
<1>12. \A s \in Slot : Mines(calls'[s]) <=> s = u
  BY <1>9, <1>10, <1>11
<1>13. \A s \in Slot : Loads(calls[s]) => Loads(calls'[s])
  BY <1>5, <1>8 DEF Loads
<1>14. FlagsOK(view', calls')
  BY <1>1, <1>4, <1>12, <1>13 DEF FlagsOK
<1>15. QED
  BY <1>3, <1>4, <1>6, <1>14, RestStays, Together DEF ConsoleInv

\* A page that is opened, with the calls of its mount effects, when none of
\* the calls under way is a request of the page to mine.
LEMMA Opening ==
  ASSUME NEW c, NEW d, NEW w, NEW list \in Seq(Fresh), CallsOK(c), \A s \in Slot : ~Mines(c[s]),
         Cardinality(FreeSlots(c)) >= Len(list), d = FoldLeft(Place, c, list),
         \A i \in 1..Len(list) : list[i].what # "mine",
         w.isMining = FALSE, w.isLoading => \E i \in 1..Len(list) : Loads(list[i])
  PROVE  CallsOK(d) /\ FlagsOK(w, d)
<1> DEFINE v == [isMining |-> FALSE, isLoading |-> FALSE]
<1>1. CallsOK(d) /\ Placed(d, c, list)
  BY Making
<1>2. FlagsOK(v, c)
  BY DEF FlagsOK
<1>3. v.isMining = w.isMining /\ ~v.isLoading
  OBVIOUS
<1> HIDE DEF v
<1>4. QED
  BY <1>1, <1>2, <1>3, FlagsWithMore

\* The calls of the mount effects of a page.
LEMMA Mounting ==
  ASSUME NEW p \in Page, wallet \in OrNone
  PROVE  /\ MountCalls(p) \in Seq(Fresh) /\ Len(MountCalls(p)) <= 1
         /\ \A i \in 1..Len(MountCalls(p)) : MountCalls(p)[i].what # "mine"
         /\ p \in {"blocks", "mempool"} =>
              \E i \in 1..Len(MountCalls(p)) : Loads(MountCalls(p)[i])
<1> DEFINE K == {"refreshChain", "refreshPool", "refreshHealth", "loadWallet"}
           l == MountCalls(p)
<1>1. K \subseteq DOMAIN Paths /\ None \in OrNone
  BY DEF Paths, OrNone
<1>2. \/ l = <<>> /\ p \notin {"blocks", "mempool"}
      \/ \E x \in K, f \in OrNone :
           l = <<Call(x, f)>> /\ (p \in {"blocks", "mempool"} => x \in {"refreshChain", "refreshPool"})
  BY <1>1 DEF MountCalls, Page
<1> HIDE DEF l
<1>3. CASE l = <<>> /\ p \notin {"blocks", "mempool"}
  BY <1>3 DEF l
<1>4. ASSUME NEW x \in K, NEW f \in OrNone, l = <<Call(x, f)>>,
             p \in {"blocks", "mempool"} => x \in {"refreshChain", "refreshPool"}
      PROVE  /\ l \in Seq(Fresh) /\ Len(l) <= 1
             /\ \A i \in 1..Len(l) : l[i].what # "mine"
             /\ p \in {"blocks", "mempool"} => \E i \in 1..Len(l) : Loads(l[i])
  <2>1. Call(x, f) \in Fresh /\ Call(x, f).what = x /\ Call(x, f).here /\ x # "mine"
    BY <1>1, FreshCall
  <2>2. Len(l) = 1 /\ l[1] = Call(x, f) /\ l \in Seq(Fresh)
    BY <1>4, <2>1
  <2>3. QED
    BY <1>4, <2>1, <2>2 DEF Loads
<1>5. QED
  BY <1>2, <1>3, <1>4 DEF l

\* A page that was just mounted.
LEMMA BlankOK ==
  ASSUME NEW p \in Page, NEW w \in OrNone
  PROVE  /\ ViewOK(Blank(p)) /\ ViewOK([Blank(p) EXCEPT !.miner = w])
         /\ \A v \in {Blank(p), [Blank(p) EXCEPT !.miner = w]} :
              v.isMining = FALSE /\ (v.isLoading => p \in {"blocks", "mempool"})
<1>1. None \in OrNone /\ Unread \in Read
  BY DEF OrNone, Read
<1>2. ViewOK(Blank(p))
  BY <1>1 DEF Blank, ViewOK, ViewType
<1>3. ViewOK([Blank(p) EXCEPT !.miner = w])
  BY <1>2, ViewEdits
<1>4. \A v \in {Blank(p), [Blank(p) EXCEPT !.miner = w]} :
        v.isMining = FALSE /\ (v.isLoading => p \in {"blocks", "mempool"})
  <2> DEFINE b == Blank(p)
             e == [b EXCEPT !.miner = w]
  <2>1. b.isMining = FALSE /\ (b.isLoading => p \in {"blocks", "mempool"})
    BY DEF Blank
  <2>2. b \in ViewType
    BY <1>2 DEF ViewOK
  <2> HIDE DEF b
  <2>3. e.isMining = b.isMining /\ e.isLoading = b.isLoading
    BY <2>2 DEF ViewType
  <2>4. QED
    BY <2>1, <2>3 DEF b
<1>5. QED
  BY <1>2, <1>3, <1>4

\* There are no calls before a page is opened.
LEMMA NoCalls ==
  LET c == [s \in Slot |-> NoCall]
  IN  CallsOK(c) /\ (\A s \in Slot : ~Mines(c[s])) /\ Cardinality(FreeSlots(c)) >= 1
<1> DEFINE c == [s \in Slot |-> NoCall]
<1> SUFFICES CallsOK(c) /\ (\A s \in Slot : ~Mines(c[s])) /\ Cardinality(FreeSlots(c)) >= 1
  OBVIOUS
<1>1. \A s \in Slot : c[s] = NoCall /\ c[s].what = None /\ c[s].here = FALSE
  BY DEF NoCall
<1>2. CallsOK(c)
  BY <1>1 DEF CallsOK
<1>3. FreeSlots(c) = Slot
  BY <1>1 DEF FreeSlots
<1>4. Cardinality(Slot) \in Nat /\ Cardinality(Slot) # 0
  BY ConsoleAssumption, FS_CardinalityType, FS_EmptySet
<1>5. QED
  BY <1>1, <1>2, <1>3, <1>4 DEF Mines

\* Another page is opened, the calls that last go on without theirs.
LEMMA NavigateKeeps ==
  ASSUME ConsoleInv, NEW p \in Page, Navigate(p)
  PROVE  ConsoleInv'
<1> DEFINE c == [s \in Slot |-> IF calls[s].what \in Lasting
                                  THEN [calls[s] EXCEPT !.here = FALSE] ELSE NoCall]
           list == MountCalls(p)
<1>1. /\ page' = p /\ UNCHANGED <<node, wallet, mining>>
      /\ view' = [Blank(p) EXCEPT !.miner = IF p = "mining" THEN wallet ELSE None]
      /\ Cardinality(FreeSlots(c)) >= Len(list) /\ calls' = FoldLeft(Place, c, list)
  BY DEF Navigate, Mounted, Makes
<1>2. RestOK /\ CallsOK(calls) /\ wallet \in OrNone /\ None \in OrNone
  BY DEF ConsoleInv, RestOK, OrNone
<1>3. ASSUME NEW s \in Slot PROVE (c[s] = NoCall \/ Calling(c[s])) /\ ~Mines(c[s])
  <2>1. CASE calls[s].what \notin Lasting
    BY <2>1 DEF NoCall, Mines
  <2>2. CASE calls[s].what \in Lasting
    <3> DEFINE k == calls[s]
               l == c[s]
    <3>1. l = [k EXCEPT !.here = FALSE]
      BY <2>2
    <3>2. Calling(k)
      BY <1>2, <2>2, ConsoleAssumption DEF CallsOK, NoCall, Lasting, Paths
    <3> HIDE DEF k, l, c
    <3>3. k = [what |-> k.what, here |-> k.here, for |-> k.for, applied |-> k.applied, got |-> k.got]
      BY <3>2 DEF Calling
    <3>4. l = [what |-> k.what, here |-> FALSE, for |-> k.for, applied |-> k.applied, got |-> k.got]
      BY <3>1, <3>3
    <3>5. /\ l.what = k.what /\ l.here = FALSE /\ l.for = k.for /\ l.applied = k.applied
          /\ l.got = k.got
      BY <3>4
    <3>6. Calling(l) /\ ~Mines(l)
      BY <3>2, <3>4, <3>5 DEF Calling, Mines
    <3>7. QED
      BY <3>6 DEF l
  <2>3. QED
    BY <2>1, <2>2
<1>4. c = [s \in Slot |-> c[s]]
  OBVIOUS
<1> HIDE DEF c
<1>5. CallsOK(c)
  BY <1>3, <1>4 DEF CallsOK
<1>6. /\ list \in Seq(Fresh) /\ \A i \in 1..Len(list) : list[i].what # "mine"
      /\ p \in {"blocks", "mempool"} => \E i \in 1..Len(list) : Loads(list[i])
  BY <1>2, Mounting
<1> HIDE DEF list
<1>7. PICK w \in OrNone : view' = [Blank(p) EXCEPT !.miner = w]
  BY <1>1, <1>2
<1>8. /\ ViewOK(view') /\ view'.isMining = FALSE
      /\ view'.isLoading => \E i \in 1..Len(list) : Loads(list[i])
  BY <1>6, <1>7, BlankOK
<1>9. CallsOK(calls') /\ FlagsOK(view', calls')
  BY <1>1, <1>3, <1>5, <1>6, <1>8, Opening
<1>10. RestOK'
  <2>1. /\ version' = version /\ faults' = faults /\ wallet' = wallet /\ page' \in Page
        /\ history' = history /\ stored' = stored /\ isHydrated' = isHydrated
    BY <1>1 DEF node, mining
  <2>2. QED
    BY <1>2, <2>1 DEF RestOK, Version, OrNone, Page, IsSuffix
<1>11. QED
  BY <1>8, <1>9, <1>10, Together

\* The document is loaded again.
LEMMA ReloadKeeps ==
  ASSUME ConsoleInv, Reload
  PROVE  ConsoleInv'
<1> DEFINE c == [s \in Slot |-> NoCall]
           list == IF page = "wallet" THEN <<>> ELSE MountCalls(page)
<1>1. RestOK /\ page \in Page /\ wallet \in OrNone /\ None \in OrNone
  BY DEF ConsoleInv, RestOK, OrNone
<1>2. /\ view' = Blank(page) /\ page' = page
      /\ Cardinality(FreeSlots(c)) >= Len(list) /\ calls' = FoldLeft(Place, c, list)
  BY DEF Reload, Makes
<1>3. CallsOK(c) /\ \A s \in Slot : ~Mines(c[s])
  BY NoCalls
<1>4. /\ list \in Seq(Fresh) /\ \A i \in 1..Len(list) : list[i].what # "mine"
      /\ page \in {"blocks", "mempool"} => \E i \in 1..Len(list) : Loads(list[i])
  <2>1. CASE page = "wallet"
    BY <2>1
  <2>2. CASE page # "wallet"
    BY <1>1, <2>2, Mounting
  <2>3. QED
    BY <2>1, <2>2
<1> HIDE DEF c, list
<1>5. /\ ViewOK(view') /\ view'.isMining = FALSE
      /\ view'.isLoading => \E i \in 1..Len(list) : Loads(list[i])
  BY <1>1, <1>2, <1>4, BlankOK
<1>6. CallsOK(calls') /\ FlagsOK(view', calls')
  BY <1>2, <1>3, <1>4, <1>5, Opening
<1>7. RestOK'
  <2>1. /\ version' = version /\ faults' \in 0..MaxFaults /\ wallet' \in OrNone /\ page' \in Page
        /\ history' = <<>> /\ stored' = stored /\ isHydrated' = FALSE
    BY <1>1, ConsoleAssumption DEF Reload, RestOK
  <2>2. history' \in Seq(Version)
    BY <2>1
  <2>3. QED
    BY <1>1, <2>1, <2>2 DEF RestOK, Version, OrNone, Page, IsSuffix
<1>8. QED
  BY <1>5, <1>6, <1>7, Together

\* The document is loaded for the first time.
LEMMA InitKeeps == Init => ConsoleInv
<1> SUFFICES ASSUME Init PROVE ConsoleInv
  OBVIOUS
<1> DEFINE c == [s \in Slot |-> NoCall]
<1>1. PICK p \in Page : page = p /\ view = Blank(p)
                        /\ calls = FoldLeft(Place, c, IF p = "wallet" THEN <<>> ELSE MountCalls(p))
  BY DEF Init
<1> DEFINE list == IF p = "wallet" THEN <<>> ELSE MountCalls(p)
<1>2. /\ version = 0 /\ faults = 0 /\ wallet = None
      /\ history = <<>> /\ stored = <<>> /\ isHydrated = FALSE
  BY DEF Init
<1>3. wallet \in OrNone /\ None \in OrNone
  BY <1>2 DEF OrNone
<1>4. CallsOK(c) /\ (\A s \in Slot : ~Mines(c[s])) /\ Cardinality(FreeSlots(c)) >= 1
  BY NoCalls
<1>5. /\ list \in Seq(Fresh) /\ Len(list) <= 1 /\ \A i \in 1..Len(list) : list[i].what # "mine"
      /\ p \in {"blocks", "mempool"} => \E i \in 1..Len(list) : Loads(list[i])
  <2>1. CASE p = "wallet"
    BY <2>1
  <2>2. CASE p # "wallet"
    BY <1>3, <2>2, Mounting
  <2>3. QED
    BY <2>1, <2>2
<1>6. calls = FoldLeft(Place, c, list)
  BY <1>1
<1>7. Cardinality(FreeSlots(c)) >= Len(list)
  <2> DEFINE n == Cardinality(FreeSlots(c))
  <2>1. n \in Nat
    <3>1. FreeSlots(c) \in SUBSET Slot
      BY DEF FreeSlots
    <3>2. QED
      BY <3>1, ConsoleAssumption, FS_Subset, FS_CardinalityType
  <2>2. Len(list) \in Nat /\ Len(list) <= 1 /\ n >= 1
    BY <1>4, <1>5
  <2> HIDE DEF n
  <2>3. n >= Len(list)
    BY <2>1, <2>2
  <2>4. QED
    BY <2>3 DEF n
<1> HIDE DEF c, list
<1>8. /\ ViewOK(view) /\ view.isMining = FALSE
      /\ view.isLoading => \E i \in 1..Len(list) : Loads(list[i])
  BY <1>1, <1>3, <1>5, BlankOK
<1>9. CallsOK(calls) /\ FlagsOK(view, calls)
  BY <1>4, <1>5, <1>6, <1>7, <1>8, Opening
<1>10. RestOK
  <2>1. <<>> \in Seq(Version) /\ version \in Version /\ faults \in 0..MaxFaults
    BY <1>2, ConsoleAssumption DEF Version
  <2>2. QED
    BY <1>1, <1>2, <1>3, <2>1 DEF RestOK
<1>11. QED
  BY <1>8, <1>9, <1>10 DEF ConsoleInv

\* The effects of a change of wallet: what they call, and what they leave of
\* a page's view.
LEMMA Effects ==
  ASSUME NEW w \in OrNone, NEW v, wallet \in OrNone, ViewOK(v)
  PROVE  /\ EffectCalls(w) \in Seq(Fresh)
         /\ \A i \in 1..Len(EffectCalls(w)) : EffectCalls(w)[i].what # "mine"
         /\ ViewOK(EffectView(v, w)) /\ ViewOK(Cleared(v))
         /\ \A e \in {EffectView(v, w), Cleared(v)} :
              e.isMining = v.isMining /\ e.isLoading = v.isLoading
<1> DEFINE l == EffectCalls(w)
<1>1. "loadWallet" \in DOMAIN Paths /\ None \in OrNone /\ v \in ViewType
  BY DEF Paths, OrNone, ViewOK
<1>2. l \in {<<>>, <<Call("loadWallet", w)>>}
  BY DEF EffectCalls
<1> HIDE DEF l
<1>4. l \in Seq(Fresh) /\ \A i \in 1..Len(l) : l[i].what # "mine"
  BY <1>1, <1>2, AtMostOne
<1>5. /\ ViewOK(Cleared(v))
      /\ Cleared(v).isMining = v.isMining /\ Cleared(v).isLoading = v.isLoading
  BY <1>1, ViewEdits DEF Cleared, ViewType
<1>6. /\ ViewOK([v EXCEPT !.miner = w])
      /\ [v EXCEPT !.miner = w].isMining = v.isMining
      /\ [v EXCEPT !.miner = w].isLoading = v.isLoading
  BY <1>1, ViewEdits DEF ViewType
<1>7. EffectView(v, w) \in {v, Cleared(v), [v EXCEPT !.miner = w]}
  BY DEF EffectView
<1> HIDE DEF l
<1>8. QED
  BY <1>4, <1>5, <1>6, <1>7 DEF l

\* A wallet is connected, disconnected or forgotten.
LEMMA SwitchKeeps ==
  ASSUME ConsoleInv, NEW w \in OrNone, SwitchWallet(w)
  PROVE  ConsoleInv'
<1> DEFINE list == EffectCalls(w)
<1>1. /\ wallet' = w /\ UNCHANGED <<node, mining, page>> /\ view' = EffectView(view, w)
      /\ Cardinality(FreeSlots(calls)) >= Len(list) /\ calls' = FoldLeft(Place, calls, list)
  BY DEF SwitchWallet, Makes
<1>2. RestOK /\ wallet \in OrNone /\ CallsOK(calls) /\ ViewOK(view) /\ FlagsOK(view, calls)
  BY DEF ConsoleInv, RestOK
<1>3. /\ list \in Seq(Fresh) /\ \A i \in 1..Len(list) : list[i].what # "mine"
      /\ ViewOK(view') /\ view'.isMining = view.isMining /\ view'.isLoading = view.isLoading
  BY <1>1, <1>2, Effects
<1> HIDE DEF list
<1>4. CallsOK(calls') /\ Placed(calls', calls, list)
  BY <1>1, <1>2, <1>3, Making
<1>5. FlagsOK(view', calls')
  BY <1>2, <1>3, <1>4, FlagsWithMore
<1>6. RestOK'
  <2>1. /\ version' = version /\ faults' = faults /\ wallet' \in OrNone /\ page' = page
        /\ history' = history /\ stored' = stored /\ isHydrated' = isHydrated
    BY <1>1 DEF node, mining
  <2>2. QED
    BY <1>2, <2>1 DEF RestOK, Version, OrNone, Page, IsSuffix
<1>7. QED
  BY <1>3, <1>4, <1>5, <1>6, Together

-----------------------------------------------------------------------------
(* Answers, and what follows them. *)

\* A call c of slot s gets the answer a to its request p.
LEMMA Answering ==
  ASSUME CallsOK(calls), FlagsOK(view, calls), NEW s \in Slot, NEW p \in DOMAIN calls[s].got,
         NEW status \in Int, NEW b, NEW applied \in BOOLEAN,
         Answered(s, p, Response(status, b), applied),
         status \in 200..299 => (p \in Versioned => b \in Version) /\ (p \in Changing => applied)
  PROVE  CallsOK(calls') /\ FlagsOK(view, calls')
<1> DEFINE a == ApiRequest(Request(p), Response(status, b))
           k == calls[s]
           g == [k.got EXCEPT ![p] = a]
           done == k.applied \/ applied
           l == [k EXCEPT !.got = g, !.applied = done]
<1>1. Calling(k)
  <2>1. k = NoCall => DOMAIN k.got = {}
    BY DEF NoCall
  <2>2. QED
    BY <2>1 DEF CallsOK
<1>2. p \in Paths[k.what]
  BY <1>1 DEF Calling
<1>3. a.how \in {"resolved", "thrown"} /\ (a.how = "resolved" =>
        status \in 200..299 /\ a.value = Value(Value(b)))
  BY ApiOutcome
<1>4. b \in Version => Value(Value(b)) = b
  BY ConsoleAssumption DEF Version, Value
<1> HIDE DEF a
<1>5. IsAnswer(a, p, done)
  BY <1>3, <1>4 DEF IsAnswer
<1>6. calls' = [calls EXCEPT ![s] = l]
  BY DEF Answered, a
<1>7. done \in BOOLEAN /\ g = [k.got EXCEPT ![p] = a]
  BY <1>1 DEF Calling
<1> HIDE DEF k, g, done
<1>8. /\ l.what = k.what /\ l.here = k.here /\ l.for = k.for /\ l.applied = done /\ l.got = g
      /\ l = [what |-> l.what, here |-> l.here, for |-> l.for, applied |-> l.applied, got |-> l.got]
  <2>1. k = [what |-> k.what, here |-> k.here, for |-> k.for, applied |-> k.applied, got |-> k.got]
    BY <1>1 DEF Calling
  <2> DEFINE x == k.what
             h == k.here
             f == k.for
             ap == k.applied
             go == k.got
  <2>2. k \in [what : {x}, here : {h}, for : {f}, applied : {ap}, got : {go}]
    BY <2>1
  <2> HIDE DEF x, h, f, ap, go
  <2>3. l \in [what : {x}, here : {h}, for : {f}, applied : {done}, got : {g}]
    BY <2>2
  <2> HIDE DEF l
  <2>4. QED
    BY <2>3 DEF x, h, f
<1> HIDE DEF l
<1>9. /\ l.got = [q \in Paths[k.what] |-> l.got[q]] /\ l.got[p] = a
      /\ \A q \in Paths[k.what] \ {p} : l.got[q] = k.got[q]
  BY <1>1, <1>2, <1>7, <1>8 DEF Calling
<1>10. \A q \in Paths[l.what] : IsAnswer(l.got[q], q, l.applied)
  <2> SUFFICES ASSUME NEW q \in Paths[k.what] PROVE IsAnswer(l.got[q], q, done)
    BY <1>8
  <2>1. CASE q = p
    BY <1>5, <1>9, <2>1
  <2>2. CASE q # p
    <3>1. l.got[q] = k.got[q] /\ IsAnswer(k.got[q], q, k.applied)
      BY <1>1, <1>9, <2>2 DEF Calling
    <3>2. k.applied => done
      BY DEF done
    <3>3. QED
      BY <3>1, <3>2 DEF IsAnswer
  <2>3. QED
    BY <2>1, <2>2
<1>11. Calling(l)
  BY <1>1, <1>7, <1>8, <1>9, <1>10 DEF Calling
<1>12. /\ calls' = [t \in Slot |-> calls'[t]] /\ calls'[s] = l
       /\ \A t \in Slot \ {s} : calls'[t] = calls[t]
  BY <1>6 DEF CallsOK
<1>13. CallsOK(calls')
  BY <1>11, <1>12 DEF CallsOK
<1>14. \A t \in Slot : (Mines(calls'[t]) <=> Mines(calls[t])) /\ (Loads(calls'[t]) <=> Loads(calls[t]))
  BY <1>8, <1>12 DEF Mines, Loads, k
<1>15. FlagsOK(view, calls')
  BY <1>14 DEF FlagsOK
<1>16. QED
  BY <1>13, <1>15

\* The node answers a request, or the request or its answer is lost.
LEMMA AnswersKeep ==
  ASSUME ConsoleInv, NEW s \in Slot, NEW p \in DOMAIN calls[s].got, Serve(s, p) \/ Lose(s, p)
  PROVE  ConsoleInv'
<1>1. RestOK /\ ViewOK(view) /\ CallsOK(calls) /\ FlagsOK(view, calls)
  BY DEF ConsoleInv
<1>2. version \in Version /\ MaxVersion \in Nat /\ faults \in 0..MaxFaults /\ MaxFaults \in Nat
  BY <1>1, ConsoleAssumption DEF RestOK
<1>3. view' = view /\ UNCHANGED <<wallet, mining, page>>
  BY DEF Serve, Lose
<1>4. version' \in Version /\ faults' \in 0..MaxFaults
  <2>1. CASE Serve(s, p)
    <3>1. faults' = faults
      BY <2>1 DEF Serve
    <3>2. version' = version \/ (version < MaxVersion /\ version' = version + 1)
      BY <2>1 DEF Serve, Accept, Refuse
    <3>3. QED
      BY <1>2, <3>1, <3>2 DEF Version
  <2>2. CASE Lose(s, p)
    <3>1. faults < MaxFaults /\ faults' = faults + 1
      BY <2>2 DEF Lose
    <3>2. version' = version \/ (version < MaxVersion /\ version' = version + 1)
      BY <2>2 DEF Lose
    <3>3. QED
      BY <1>2, <3>1, <3>2 DEF Version
  <2>3. QED
    BY <2>1, <2>2
<1>5. RestOK'
  <2>1. /\ wallet' = wallet /\ page' = page
        /\ history' = history /\ stored' = stored /\ isHydrated' = isHydrated
    BY <1>3 DEF mining
  <2>2. QED
    BY <1>1, <1>4, <2>1 DEF RestOK, Version, OrNone, Page, IsSuffix
<1>6. CallsOK(calls') /\ FlagsOK(view, calls')
  <2>1. CASE Serve(s, p) /\ Accept(s, p)
    <3>1. Answered(s, p, Response(200, Body(p, version')), p \in Changing)
      BY <2>1 DEF Accept
    <3>2. p \in Versioned => Body(p, version') \in Version
      BY <1>4 DEF Body
    <3>3. 200 \in Int /\ (p \in Changing) \in BOOLEAN
      OBVIOUS
    <3>4. QED
      BY <1>1, <3>1, <3>2, <3>3, Answering
  <2>2. CASE Serve(s, p) /\ Refuse(s, p)
    <3>1. Answered(s, p, Response(400, 0), FALSE)
      BY <2>2 DEF Refuse
    <3>2. 400 \in Int /\ 400 \notin 200..299
      OBVIOUS
    <3>3. QED
      BY <1>1, <3>1, <3>2, Answering
  <2>3. CASE Lose(s, p)
    <3>1. PICK done \in BOOLEAN : Answered(s, p, Response(0, NoBody), done)
      BY <2>3 DEF Lose, Unreachable
    <3>2. 0 \in Int /\ 0 \notin 200..299
      OBVIOUS
    <3>3. QED
      BY <1>1, <3>1, <3>2, Answering
  <2>4. QED
    BY <2>1, <2>2, <2>3 DEF Serve
<1>7. QED
  BY <1>1, <1>3, <1>5, <1>6, Together

\* The node's data changes, and the effects of the mining provider.
LEMMA ProviderKeeps ==
  ASSUME ConsoleInv, NodeMoves \/ Hydrate \/ Persist
  PROVE  ConsoleInv'
<1>1. RestOK /\ ViewOK(view) /\ CallsOK(calls) /\ FlagsOK(view, calls)
  BY DEF ConsoleInv
<1>2. view' = view /\ calls' = calls /\ wallet' = wallet /\ page' = page /\ faults' = faults
  BY DEF NodeMoves, Hydrate, Persist, node
<1>3. version' \in Version
  BY <1>1, ConsoleAssumption DEF NodeMoves, Hydrate, Persist, node, RestOK, Version
<1>4. /\ history' \in Seq(Version) /\ stored' \in Seq(Version) /\ isHydrated' \in BOOLEAN
      /\ isHydrated' => IsSuffix(stored', history')
  <2>1. \A s \in Seq(Version) : IsSuffix(s, s)
    BY SuffixElements
  <2>2. CASE NodeMoves
    BY <1>1, <2>2 DEF NodeMoves, mining, RestOK
  <2>3. CASE Hydrate
    BY <1>1, <2>1, <2>3 DEF Hydrate, RestOK
  <2>4. CASE Persist
    BY <1>1, <2>1, <2>4 DEF Persist, RestOK
  <2>5. QED
    BY <2>2, <2>3, <2>4
<1>5. RestOK'
  BY <1>1, <1>2, <1>3, <1>4 DEF RestOK, Version, OrNone, Page, IsSuffix
<1>6. QED
  BY <1>1, <1>2, <1>5, Together

\* The call of slot s is over; w is what becomes of the view.
LEMMA Dropping ==
  ASSUME CallsOK(calls), FlagsOK(view, calls), NEW s \in Slot, NEW w,
         w.isMining = IF Mines(calls[s]) THEN FALSE ELSE view.isMining,
         w.isLoading => view.isLoading /\ ~Loads(calls[s])
  PROVE  CallsOK(Without(s)) /\ FlagsOK(w, Without(s))
<1> DEFINE d == Without(s)
<1>1. /\ d = [t \in Slot |-> d[t]] /\ d[s] = NoCall
      /\ \A t \in Slot \ {s} : d[t] = calls[t]
  BY DEF Without, CallsOK
<1> HIDE DEF d
<1>2. CallsOK(d)
  BY <1>1 DEF CallsOK
<1>3. ~Mines(d[s]) /\ ~Loads(d[s])
  BY <1>1 DEF Mines, Loads, NoCall
<1>4. w.isMining <=> \E t \in Slot : Mines(d[t])
  <2>1. CASE Mines(calls[s])
    <3>1. \A t \in Slot : ~Mines(d[t])
      BY <1>1, <1>3, <2>1 DEF FlagsOK
    <3>2. QED
      BY <2>1, <3>1
  <2>2. CASE ~Mines(calls[s])
    <3>1. \A t \in Slot : Mines(d[t]) <=> Mines(calls[t])
      BY <1>1, <1>3, <2>2
    <3>2. QED
      BY <2>2, <3>1 DEF FlagsOK
  <2>3. QED
    BY <2>1, <2>2
<1>5. \A t, u \in Slot : Mines(d[t]) /\ Mines(d[u]) => t = u
  BY <1>1, <1>3 DEF FlagsOK
<1>6. w.isLoading => \E t \in Slot : Loads(d[t])
  BY <1>1 DEF FlagsOK
<1>7. QED
  BY <1>2, <1>4, <1>5, <1>6 DEF FlagsOK, d

\* What a settled call got, if it resolved.
LEMMA Gained ==
  ASSUME NEW c, Calling(c), Resolves(c)
  PROVE  /\ \A p \in Paths[c.what] : p \in Versioned => c.got[p].value \in Version
         /\ c.what \in {"mine", "refreshPool"} => Got(c) \in Version
<1>1. DOMAIN c.got = Paths[c.what]
  BY DEF Calling
<1>2. \A p \in Paths[c.what] : p \in Versioned => c.got[p].value \in Version
  BY <1>1 DEF Calling, IsAnswer, Resolves
<1>3. CASE c.what = "mine"
  <2>1. Paths[c.what] = {"mine"} /\ "mine" \in Versioned
    BY <1>3 DEF Paths, Versioned, Changing
  <2>2. (CHOOSE p \in DOMAIN c.got : TRUE) = "mine"
    BY <1>1, <2>1
  <2>3. QED
    BY <1>2, <2>1, <2>2 DEF Got
<1>4. CASE c.what = "refreshPool"
  <2>1. Paths[c.what] = {"pool"} /\ "pool" \in Versioned
    BY <1>4 DEF Paths, Versioned, Changing
  <2>2. (CHOOSE p \in DOMAIN c.got : TRUE) = "pool"
    BY <1>1, <2>1
  <2>3. QED
    BY <1>2, <2>1, <2>2 DEF Got
<1>5. QED
  BY <1>2, <1>3, <1>4

\* A call that has settled is one that was made.
LEMMA SettledCall ==
  ASSUME CallsOK(calls), NEW s \in Slot, Settles(s)
  PROVE  Calling(calls[s])
BY DEF CallsOK, Settles, NoCall

\* What a page sets of what it has read.
LEMMA SettleReadKeeps ==
  ASSUME ConsoleInv, NEW s \in Slot, calls[s].what \notin Lasting, SettleRead(s)
  PROVE  ConsoleInv'
<1> DEFINE c == calls[s]
<1>1. RestOK /\ ViewOK(view) /\ CallsOK(calls) /\ FlagsOK(view, calls)
  BY DEF ConsoleInv
<1>2. /\ Settles(s) /\ calls' = Without(s) /\ UNCHANGED <<node, wallet, mining, page>>
      /\ view' = CASE c.what = "loadWallet" -> Loaded(view, c)
                   [] c.what = "refreshChain" -> ChainRefreshed(view, c)
                   [] c.what = "refreshPool" -> PoolRefreshed(view, c)
                   [] c.what = "refreshHealth" -> HealthRefreshed(view, c)
                   [] c.what = "fetchProof" -> ProofFetched(view, c)
                   [] c.what = "lookUpOwner" -> OwnerFound(view, c)
  BY DEF SettleRead
<1>3. Calling(c)
  BY <1>1, <1>2, SettledCall
<1>4. c.what \in {"loadWallet", "refreshChain", "refreshPool", "refreshHealth", "fetchProof",
                  "lookUpOwner"}
  BY <1>3 DEF Calling, Paths, Lasting
<1> HIDE DEF c
<1>5. c.for \in OrNone /\ view \in ViewType /\ Resolves(c) \in BOOLEAN
  BY <1>1, <1>3 DEF Calling, ViewOK, Resolves
<1> DEFINE Good(w) == /\ ViewOK(w) /\ w.isMining = view.isMining
                      /\ w.isLoading => view.isLoading /\ ~Loads(c)
<1> SUFFICES Good(view')
  <2>1. ~Mines(c)
    BY <1>4 DEF Mines
  <2>2. QED
    BY <1>1, <1>2, <2>1, RestStays, Dropping, Together DEF c
<1>6. CASE c.what = "loadWallet"
  <2>1. Good(Loaded(view, c))
    BY <1>1, <1>5, <1>6, ViewEdits DEF Loaded, ViewType, Loads
  <2>2. QED
    BY <1>2, <1>6, <2>1
<1>7. CASE c.what = "refreshChain"
  <2>1. Good(ChainRefreshed(view, c))
    <3>1. CASE Resolves(c)
      <4>1. c.got["blocks"].value \in Version /\ c.got["headers"].value \in Version
        BY <1>3, <1>7, <3>1, Gained DEF Paths, Versioned
      <4>2. QED
        BY <1>1, <1>5, <3>1, <4>1, ViewEdits DEF ChainRefreshed, ViewType
    <3>2. CASE ~Resolves(c)
      BY <1>1, <1>5, <3>2, ViewEdits DEF ChainRefreshed, ViewType
    <3>3. QED
      BY <3>1, <3>2
  <2>2. QED
    BY <1>2, <1>7, <2>1
<1>8. CASE c.what = "refreshPool"
  <2>1. Good(PoolRefreshed(view, c))
    <3>1. CASE Resolves(c)
      <4>1. Got(c) \in Version
        BY <1>3, <1>8, <3>1, Gained
      <4>2. QED
        BY <1>1, <1>5, <3>1, <4>1, ViewEdits DEF PoolRefreshed, ViewType
    <3>2. CASE ~Resolves(c)
      BY <1>1, <1>5, <3>2, ViewEdits DEF PoolRefreshed, ViewType
    <3>3. QED
      BY <3>1, <3>2
  <2>2. QED
    BY <1>2, <1>8, <2>1
<1>9. CASE c.what = "refreshHealth"
  <2>1. Good(HealthRefreshed(view, c))
    BY <1>1, <1>5, <1>9, ViewEdits DEF HealthRefreshed, ViewType, Loads
  <2>2. QED
    BY <1>2, <1>9, <2>1
<1>10. CASE c.what = "fetchProof"
  <2>1. Good(ProofFetched(view, c))
    BY <1>1, <1>5, <1>10, ViewEdits DEF ProofFetched, ViewType, Loads
  <2>2. QED
    BY <1>2, <1>10, <2>1
<1>11. CASE c.what = "lookUpOwner"
  <2>1. Good(OwnerFound(view, c))
    BY <1>1, <1>5, <1>11, ViewEdits DEF OwnerFound, ViewType, Loads
  <2>2. QED
    BY <1>2, <1>11, <2>1
<1>12. QED
  BY <1>4, <1>6, <1>7, <1>8, <1>9, <1>10, <1>11

\* A block was mined, or the request failed, perhaps after the page was left.
LEMMA SettleMineKeeps ==
  ASSUME ConsoleInv, NEW s \in Slot, SettleMine(s)
  PROVE  ConsoleInv'
<1> DEFINE c == calls[s]
           list == IF Succeeded(s) THEN <<Call("refreshHealth", None)>> ELSE <<>>
<1>1. RestOK /\ ViewOK(view) /\ CallsOK(calls) /\ FlagsOK(view, calls) /\ view \in ViewType
  BY DEF ConsoleInv, ViewOK
<1>2. /\ Settles(s) /\ c.what = "mine" /\ view' = Mined(s)
      /\ history' = IF Resolves(c) THEN <<Got(c)>> \o history ELSE history
      /\ Cardinality(FreeSlots(Without(s))) >= Len(list)
      /\ calls' = FoldLeft(Place, Without(s), list)
      /\ UNCHANGED <<node, wallet, stored, isHydrated, page>>
  BY DEF SettleMine, Settled, Makes
<1>3. Calling(c)
  BY <1>1, <1>2, SettledCall
<1>4. /\ ViewOK(view') /\ view'.isLoading = view.isLoading
      /\ view'.isMining = IF Mines(c) THEN FALSE ELSE view.isMining
  BY <1>1, <1>2, <1>3, ViewEdits DEF Mined, Mines, ViewType, Calling
<1>5. CallsOK(Without(s)) /\ FlagsOK(view', Without(s))
  BY <1>1, <1>2, <1>4, Dropping DEF Loads
<1>6. list \in Seq(Fresh) /\ \A i \in 1..Len(list) : list[i].what # "mine"
  <2>1. "refreshHealth" \in DOMAIN Paths /\ None \in OrNone
    BY DEF Paths, OrNone
  <2>2. list \in {<<>>, <<Call("refreshHealth", None)>>}
    OBVIOUS
  <2>3. QED
    BY <2>1, <2>2, AtMostOne
<1> HIDE DEF list, c
<1>7. CallsOK(calls') /\ FlagsOK(view', calls')
  BY <1>2, <1>5, <1>6, Making, FlagsWithMore
<1>8. history' \in Seq(Version) /\ (isHydrated => IsSuffix(stored, history'))
  <2>1. CASE Resolves(c)
    <3>1. Got(c) \in Version
      BY <1>2, <1>3, <2>1, Gained
    <3>2. history' = <<Got(c)>> \o history /\ history \in Seq(Version) /\ stored \in Seq(Version)
      BY <1>1, <1>2, <2>1 DEF RestOK
    <3>3. history' \in Seq(Version)
      BY <3>1, <3>2
    <3>4. CASE isHydrated
      BY <1>1, <3>1, <3>2, <3>4, SuffixPrepend DEF RestOK
    <3>5. QED
      BY <3>3, <3>4
  <2>2. CASE ~Resolves(c)
    BY <1>1, <1>2, <2>2 DEF RestOK
  <2>3. QED
    BY <2>1, <2>2
<1>9. RestOK'
  <2>1. /\ version' = version /\ faults' = faults /\ wallet' = wallet /\ page' = page
        /\ stored' = stored /\ isHydrated' = isHydrated
    BY <1>2 DEF node
  <2>2. QED
    BY <1>1, <1>8, <2>1 DEF RestOK, Version, OrNone, Page, IsSuffix
<1>10. QED
  BY <1>4, <1>7, <1>9, Together

\* The end of a payment or of an asset's transaction.
LEMMA SettleSendKeeps ==
  ASSUME ConsoleInv, NEW s \in Slot, SettleSend(s) \/ SettleAsset(s)
  PROVE  ConsoleInv'
<1> DEFINE c == calls[s]
<1>1. RestOK /\ ViewOK(view) /\ CallsOK(calls) /\ FlagsOK(view, calls) /\ view \in ViewType
  BY DEF ConsoleInv, ViewOK
<1>2. Settles(s) /\ c.what \in {"send", "asset"} /\ UNCHANGED <<node, wallet, mining, page>>
  BY DEF SettleSend, SettleAsset, Settled
<1>3. Calling(c) /\ ~Mines(c) /\ ~Loads(c)
  BY <1>1, <1>2, SettledCall DEF Mines, Loads
<1>4. c.for \in OrNone
  BY <1>3 DEF Calling
<1>5. RestOK'
  BY <1>1, <1>2, RestStays
<1>6. CASE SettleSend(s)
  <2> DEFINE list == IF Succeeded(s) THEN <<Call("loadWallet", c.for)>> ELSE <<>>
  <2>1. /\ view' = view /\ Cardinality(FreeSlots(Without(s))) >= Len(list)
        /\ calls' = FoldLeft(Place, Without(s), list)
    BY <1>6 DEF SettleSend, Makes
  <2>2. CallsOK(Without(s)) /\ FlagsOK(view', Without(s))
    BY <1>1, <1>3, <2>1, Dropping
  <2>3. list \in Seq(Fresh) /\ \A i \in 1..Len(list) : list[i].what # "mine"
    <3>1. "loadWallet" \in DOMAIN Paths
      BY DEF Paths
    <3>2. list \in {<<>>, <<Call("loadWallet", c.for)>>}
      OBVIOUS
    <3>3. QED
      BY <1>4, <3>1, <3>2, AtMostOne
  <2> HIDE DEF list
  <2>4. CallsOK(calls') /\ FlagsOK(view', calls')
    BY <2>1, <2>2, <2>3, Making, FlagsWithMore
  <2>5. QED
    BY <1>1, <1>5, <2>1, <2>4, Together
<1>7. CASE SettleAsset(s)
  <2>1. calls' = Without(s) /\ view' = IF Succeeded(s) THEN [view EXCEPT !.result = TRUE] ELSE view
    BY <1>7 DEF SettleAsset
  <2>2. ViewOK(view') /\ view'.isMining = view.isMining /\ view'.isLoading = view.isLoading
    BY <1>1, <2>1, ViewEdits DEF ViewType
  <2>3. CallsOK(calls') /\ FlagsOK(view', calls')
    BY <1>1, <1>3, <2>1, <2>2, Dropping
  <2>4. QED
    BY <1>5, <2>2, <2>3, Together
<1>8. QED
  BY <1>6, <1>7

\* The end of a flow that creates or recovers a wallet.
LEMMA SettleCreateKeeps ==
  ASSUME ConsoleInv, NEW s \in Slot, SettleCreate(s)
  PROVE  ConsoleInv'
<1> DEFINE c == calls[s]
           stale == c.here /\ c.for # None
           clears == c.here /\ c.for = None
<1>1. RestOK /\ ViewOK(view) /\ CallsOK(calls) /\ FlagsOK(view, calls) /\ wallet \in OrNone
  BY DEF ConsoleInv, RestOK
<1>2. Settles(s) /\ c.what = "create" /\ UNCHANGED <<node, mining, page>>
  BY DEF SettleCreate, Settled
<1>3. Calling(c) /\ ~Mines(c) /\ ~Loads(c)
  BY <1>1, <1>2, SettledCall DEF Mines, Loads
<1>4. c.for \in OrNone
  BY <1>3 DEF Calling
<1>5. CASE calls' = Without(s) /\ UNCHANGED <<wallet, view>>
  <2>1. CallsOK(calls') /\ FlagsOK(view', calls')
    BY <1>1, <1>3, <1>5, Dropping
  <2>2. RestOK'
    BY <1>1, <1>2, <1>5, RestStays
  <2>3. QED
    BY <1>1, <1>5, <2>1, <2>2, Together
<1>6. ASSUME NEW w \in Account, Resolves(c), wallet' = w,
             view' = EffectView(IF clears THEN Cleared(view) ELSE view, w),
             Makes(Without(s),
                   (IF stale THEN <<Call("loadWallet", c.for)>> ELSE <<>>) \o EffectCalls(w))
      PROVE  ConsoleInv'
  <2> DEFINE v == IF clears THEN Cleared(view) ELSE view
             head == IF stale THEN <<Call("loadWallet", c.for)>> ELSE <<>>
             tail == EffectCalls(w)
             list == head \o tail
  <2>1. w \in OrNone
    BY DEF OrNone
  <2>2. ViewOK(v) /\ v.isMining = view.isMining /\ v.isLoading = view.isLoading
    BY <1>1, <2>1, Effects
  <2>3. view' = EffectView(v, w)
    BY <1>6
  <2>4. /\ Cardinality(FreeSlots(Without(s))) >= Len(list)
        /\ calls' = FoldLeft(Place, Without(s), list)
    BY <1>6 DEF Makes
  <2>5. head \in Seq(Fresh) /\ \A i \in 1..Len(head) : head[i].what # "mine"
    <3>1. "loadWallet" \in DOMAIN Paths
      BY DEF Paths
    <3>2. head \in {<<>>, <<Call("loadWallet", c.for)>>}
      OBVIOUS
    <3>3. QED
      BY <1>4, <3>1, <3>2, AtMostOne
  <2> HIDE DEF v
  <2>6. /\ tail \in Seq(Fresh) /\ \A i \in 1..Len(tail) : tail[i].what # "mine"
        /\ ViewOK(view') /\ view'.isMining = view.isMining /\ view'.isLoading = view.isLoading
    BY <1>1, <2>1, <2>2, <2>3, Effects
  <2> HIDE DEF head, tail
  <2>7. list \in Seq(Fresh) /\ \A i \in 1..Len(list) : list[i].what # "mine"
    <3>1. list \in Seq(Fresh) /\ Len(list) = Len(head) + Len(tail)
      BY <2>5, <2>6
    <3>2. ASSUME NEW i \in 1..Len(list) PROVE list[i].what # "mine"
      <4>1. CASE i <= Len(head)
        <5>1. list[i] = head[i] /\ i \in 1..Len(head)
          BY <2>5, <2>6, <3>1, <4>1
        <5>2. QED
          BY <2>5, <5>1
      <4>2. CASE i > Len(head)
        <5>1. list[i] = tail[i - Len(head)] /\ i - Len(head) \in 1..Len(tail)
          BY <2>5, <2>6, <3>1, <4>2
        <5>2. QED
          BY <2>6, <5>1
      <4>3. QED
        BY <2>5, <3>1, <4>1, <4>2
    <3>3. QED
      BY <3>1, <3>2
  <2> HIDE DEF list
  <2>8. CallsOK(Without(s)) /\ FlagsOK(view', Without(s))
    BY <1>1, <1>3, <2>6, Dropping
  <2>9. CallsOK(calls') /\ FlagsOK(view', calls')
    BY <2>4, <2>7, <2>8, Making, FlagsWithMore
  <2>10. RestOK'
    <3>1. /\ version' = version /\ faults' = faults /\ wallet' \in OrNone /\ page' = page
          /\ history' = history /\ stored' = stored /\ isHydrated' = isHydrated
      BY <1>2, <1>6, <2>1 DEF node, mining
    <3>2. QED
      BY <1>1, <3>1 DEF RestOK, Version, OrNone, Page, IsSuffix
  <2>11. QED
    BY <2>6, <2>9, <2>10, Together
<1>7. QED
  BY <1>5, <1>6 DEF SettleCreate

\* Every step of the tab.
LEMMA NextKeeps ==
  ASSUME ConsoleInv, [Next]_vars
  PROVE  ConsoleInv'
<1>1. RestOK /\ ViewOK(view) /\ CallsOK(calls) /\ FlagsOK(view, calls)
  BY DEF ConsoleInv
<1>2. ASSUME NEW s \in Slot, Settle(s) PROVE ConsoleInv'
  BY <1>2, SettleReadKeeps, SettleMineKeeps, SettleSendKeeps, SettleCreateKeeps DEF Settle
<1>3. ASSUME NEW s \in Slot, NEW p \in DOMAIN calls[s].got, Serve(s, p) \/ Lose(s, p)
      PROVE  ConsoleInv'
  BY <1>3, AnswersKeep
<1>4. CASE \E s \in Slot : Proceed(s) \/ \E p \in DOMAIN calls[s].got : Lose(s, p)
  BY <1>2, <1>3, <1>4 DEF Proceed
<1>5. CASE NodeMoves \/ Hydrate \/ Persist
  BY <1>5, ProviderKeeps
<1>6. CASE Click
  <2>1. CASE \E p \in Page : isHydrated /\ Navigate(p)
    BY <2>1, NavigateKeeps
  <2>2. CASE \E w \in Account \cup {None} : isHydrated /\ SwitchWallet(w)
    BY <2>2, SwitchKeeps DEF OrNone
  <2>3. CASE ClickMine
    BY <2>3, ClickMineKeeps
  <2>4. CASE RefreshChain \/ FetchProof \/ LookUpOwner \/ Send \/ SubmitAsset \/ ClickCreate \/ EditMiner
    BY <2>4, ClicksKeep
  <2>5. QED
    BY <1>6, <2>1, <2>2, <2>3, <2>4 DEF Click
<1>7. CASE RefreshPool
  BY <1>7, ClicksKeep
<1>8. CASE Reload
  BY <1>8, ReloadKeeps
<1>9. CASE UNCHANGED vars
  <2>1. view' = view /\ calls' = calls /\ UNCHANGED <<node, wallet, mining, page>>
    BY <1>9 DEF vars, node, mining
  <2>2. QED
    BY <1>1, <2>1, RestStays, Together
<1>10. QED
  BY <1>4, <1>5, <1>6, <1>7, <1>8, <1>9 DEF Next

\* The invariant holds in every state.
LEMMA Invariant == Spec => []ConsoleInv
<1>1. Init => ConsoleInv
  BY InitKeeps
<1>2. ConsoleInv /\ [Next]_vars => ConsoleInv'
  BY NextKeeps
<1>3. QED
  BY <1>1, <1>2, PTL DEF Spec

-----------------------------------------------------------------------------
(* What follows. *)

\* Every part of the tab's state is of its type; a call that is under way
\* waits for the answers to the requests of its handler and no others.
THEOREM TypeCorrect == Spec => []TypeOK
<1>1. ConsoleInv => TypeOK
  <2> SUFFICES ASSUME ConsoleInv PROVE TypeOK
    OBVIOUS
  <2>1. RestOK /\ ViewOK(view) /\ CallsOK(calls) /\ view \in ViewType
    BY DEF ConsoleInv, ViewOK
  <2>2. Range(history) \subseteq Version /\ Range(stored) \subseteq Version
    <3>1. ASSUME NEW q \in Seq(Version) PROVE Range(q) \subseteq Version
      BY DEF Range
    <3>2. QED
      BY <2>1, <3>1 DEF RestOK
  <2>3. ASSUME NEW s \in Slot
        PROVE  /\ calls[s].what = None => calls[s] = NoCall
               /\ calls[s].what # None =>
                    /\ DOMAIN calls[s].got = Paths[calls[s].what]
                    /\ calls[s].for \in OrNone
                    /\ \A p \in DOMAIN calls[s].got :
                         calls[s].got[p].how \in {"pending", "resolved", "thrown"}
    <3>1. CASE calls[s] = NoCall
      BY <3>1 DEF NoCall
    <3>2. CASE Calling(calls[s])
      <4>1. calls[s].what # None
        BY <3>2, ConsoleAssumption DEF Calling
      <4>2. DOMAIN calls[s].got = Paths[calls[s].what]
        BY <3>2 DEF Calling
      <4>3. QED
        BY <3>2, <4>1, <4>2 DEF Calling, IsAnswer
    <3>3. QED
      BY <2>1, <3>1, <3>2 DEF CallsOK
  <2>4. /\ view.info \in OrNone /\ view.txs \in OrNone /\ view.miner \in OrNone
        /\ view.health \in {"unknown", "ok", "DOWN"}
        /\ view.blocks \in Read /\ view.headers \in Read /\ view.pool \in Read
        /\ {view.isMining, view.isLoading, view.owner, view.result, view.proof} \subseteq BOOLEAN
    BY <2>1 DEF ViewType
  <2>5. QED
    BY <2>1, <2>2, <2>3, <2>4 DEF TypeOK, RestOK
<1>2. QED
  BY <1>1, Invariant, PTL

\* Balance and transactions on display are of one account, and blocks are
\* shown just when headers are, however the requests of overlapping refreshes
\* fail and finish.
THEOREM PairsTogether == Spec => []PairsComplete
<1>1. ConsoleInv => PairsComplete
  BY DEF ConsoleInv, ViewOK, PairsComplete, Snapshot, Transactions, ChainTabs
<1>2. QED
  BY <1>1, Invariant, PTL

\* A mining page is busy just while a request of its own is under way, and a
\* page that shows that it is loading waits for an answer.
THEOREM FlagsTrue == Spec => []FlagsHonest
<1>1. ConsoleInv => FlagsHonest
  <2> SUFFICES ASSUME ConsoleInv PROVE FlagsHonest
    OBVIOUS
  <2>1. FlagsOK(view, calls)
    BY DEF ConsoleInv
  <2>2. view.isMining <=> MyCall("mine")
    BY <2>1 DEF FlagsOK, Mines, MyCall
  <2>3. view.isLoading => MyCall("refreshChain") \/ MyCall("refreshPool")
    BY <2>1 DEF FlagsOK, Loads, MyCall
  <2>4. QED
    BY <2>2, <2>3 DEF FlagsHonest
<1>2. QED
  BY <1>1, Invariant, PTL

\* A mine or a transaction that a page takes for done was accepted by the
\* node, whatever was refused or lost on the two hops between them.
THEOREM SuccessIsReal == Spec => []ConfirmedApplied
<1>1. ConsoleInv => ConfirmedApplied
  <2> SUFFICES ASSUME ConsoleInv, NEW s \in Slot, Resolves(calls[s]),
                      calls[s].what \in {"mine", "send", "asset"}
               PROVE  calls[s].applied
    BY DEF ConfirmedApplied
  <2>1. Calling(calls[s])
    <3>1. calls[s] # NoCall
      BY ConsoleAssumption DEF NoCall, Paths
    <3>2. QED
      BY <3>1 DEF ConsoleInv, CallsOK
  <2>2. PICK p \in Changing : Paths[calls[s].what] = {p}
    BY DEF Paths, Changing
  <2>3. DOMAIN calls[s].got = {p}
    BY <2>1, <2>2 DEF Calling
  <2>4. calls[s].got[p].how = "resolved"
    BY <2>3 DEF Resolves
  <2>5. QED
    BY <2>1, <2>2, <2>4 DEF Calling, IsAnswer
<1>2. QED
  BY <1>1, Invariant, PTL

\* The history in sessionStorage is never cut or rewritten, through reloads,
\* pages left with a request to mine under way, and the time until the
\* provider has read it back.
THEOREM StoredOnlyGrows == Spec => HistoryKept
<1>1. ConsoleInv /\ [Next]_vars => [IsSuffix(stored, stored')]_vars
  <2> SUFFICES ASSUME ConsoleInv, Next PROVE IsSuffix(stored, stored')
    OBVIOUS
  <2>1. stored \in Seq(Version) /\ history \in Seq(Version) /\ (isHydrated => IsSuffix(stored, history))
    BY DEF ConsoleInv, RestOK
  <2>2. stored' = stored => IsSuffix(stored, stored')
    BY <2>1, SuffixElements
  <2>3. CASE Persist
    BY <2>1, <2>3 DEF Persist
  <2>4. CASE Click
    <3>1. stored' = stored
      BY <2>4 DEF Click, RefreshChain, FetchProof, LookUpOwner, Send, SubmitAsset, ClickCreate,
                  ClickMine, EditMiner, Navigate, SwitchWallet, mining
    <3>2. QED
      BY <2>2, <3>1
  <2>5. CASE \E s \in Slot : Settle(s)
    <3>1. stored' = stored
      BY <2>5 DEF Settle, SettleRead, SettleMine, SettleSend, SettleAsset, SettleCreate, mining
    <3>2. QED
      BY <2>2, <3>1
  <2>6. CASE \E s \in Slot : \E p \in DOMAIN calls[s].got : Serve(s, p) \/ Lose(s, p)
    <3>1. stored' = stored
      BY <2>6 DEF Serve, Lose, mining
    <3>2. QED
      BY <2>2, <3>1
  <2>7. CASE NodeMoves \/ RefreshPool \/ Reload \/ Hydrate
    <3>1. stored' = stored
      BY <2>7 DEF NodeMoves, RefreshPool, Reload, Hydrate, mining
    <3>2. QED
      BY <2>2, <3>1
  <2>8. QED
    BY <2>3, <2>4, <2>5, <2>6, <2>7 DEF Next, Proceed
<1>2. QED
  BY <1>1, Invariant, PTL DEF Spec, HistoryKept
=============================================================================
