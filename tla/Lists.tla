------------------------------- MODULE Lists -------------------------------
(***************************************************************************)
(* Facts that the proofs of several components need: induction over the    *)
(* natural numbers, and what appending, cutting and suffixes do to a list. *)
(***************************************************************************)
EXTENDS SequencesExt, SequenceTheorems, WellFoundedInduction, TLAPS

-----------------------------------------------------------------------------
(* Induction. *)

\* Every set of natural numbers but the empty one has a least element.
LEMMA LeastElement ==
  ASSUME NEW U \in SUBSET Nat, U # {}
  PROVE  \E m \in U : \A k \in U : m <= k
<1> DEFINE R == {p \in Nat \X Nat : p[1] < p[2]}
<1>1. IsWellFoundedOn(R, Nat)
  BY NatLessThanWellFounded DEF OpToRel
<1> HIDE DEF R
<1>2. PICK m \in U : \A k \in U : ~(<<k, m>> \in R)
  BY <1>1, WFMin
<1>3. ASSUME NEW k \in U PROVE m <= k
  <2>1. ~(<<k, m>> \in R) /\ k \in Nat /\ m \in Nat
    BY <1>2
  <2>2. ~(k < m)
    BY <2>1 DEF R
  <2>3. QED
    BY <2>1, <2>2
<1>4. QED
  BY <1>2, <1>3

\* A set that has 0 and the successor of each of its elements holds every
\* natural number.  (The induction theorem of the library takes an operator;
\* this is the same fact about a set.)
LEMMA SetInduction ==
  ASSUME NEW T \in SUBSET Nat, 0 \in T, \A n \in T : n + 1 \in T
  PROVE  T = Nat
<1> DEFINE U == Nat \ T
<1>1. ASSUME U # {} PROVE FALSE
  <2>1. PICK x \in U : \A y \in U : x <= y
    BY <1>1, LeastElement
  <2>2. x \in Nat /\ x # 0 /\ x - 1 \in Nat /\ ~(x <= x - 1)
    OBVIOUS
  <2>3. x - 1 \in T
    BY <2>1, <2>2
  <2>4. QED
    BY <2>2, <2>3
<1>2. QED
  BY <1>1

\* The largest number of a set, if it is a bound of the set as well.
LEMMA MaxOfSet ==
  ASSUME NEW n \in Nat, NEW s \in SUBSET (1..n), n \in s
  PROVE  Max(s) = n
<1>1. \A y \in s : n >= y
  OBVIOUS
<1>2. \A x \in s : (\A y \in s : x >= y) => x = n
  OBVIOUS
<1>3. QED
  BY <1>1, <1>2 DEF Max

\* The largest of some numbers up to a bound is one of them.
LEMMA MaxIsIn ==
  ASSUME NEW n \in Nat, NEW s \in SUBSET (1..n), s # {}
  PROVE  Max(s) \in s
<1> DEFINE T == {k \in Nat : \A r \in SUBSET (1..k) : r # {} => Max(r) \in r}
<1>1. 0 \in T
  <2>1. \A r \in SUBSET (1..0) : r = {}
    OBVIOUS
  <2>2. QED
    BY <2>1
<1>2. ASSUME NEW k \in T PROVE k + 1 \in T
  <2> SUFFICES ASSUME NEW r \in SUBSET (1..(k + 1)), r # {} PROVE Max(r) \in r
    BY <1>2
  <2>1. CASE k + 1 \in r
    BY <2>1, <1>2, MaxOfSet
  <2>2. CASE k + 1 \notin r
    <3>1. r \in SUBSET (1..k)
      BY <2>2, <1>2
    <3>2. QED
      BY <3>1, <1>2
  <2>3. QED
    BY <2>1, <2>2
<1>3. T = Nat
  <2>1. T \in SUBSET Nat
    OBVIOUS
  <2> HIDE DEF T
  <2>2. QED
    BY <1>1, <1>2, <2>1, SetInduction
<1>4. QED
  BY <1>3

-----------------------------------------------------------------------------
(* Lists. *)

\* Appending and taking the last element off again.
LEMMA AppendShape ==
  ASSUME NEW S, NEW s \in Seq(S), NEW e \in S
  PROVE  /\ Append(s, e) \in Seq(S) /\ Len(s) \in Nat
         /\ Len(Append(s, e)) = Len(s) + 1
         /\ \A i \in 1..Len(s) : Append(s, e)[i] = s[i]
         /\ Append(s, e)[Len(s) + 1] = e
BY AppendProperties

\* A list is its front with its last element.
LEMMA FrontAndLast ==
  ASSUME NEW S, NEW s \in Seq(S), s # <<>>
  PROVE  /\ Front(s) \in Seq(S) /\ Last(s) \in S
         /\ s = Append(Front(s), Last(s))
<1>1. Len(s) \in Nat \ {0} /\ DOMAIN s = 1..Len(s) /\ \A i \in 1..Len(s) : s[i] \in S
  BY EmptySeq
<1>2. /\ Front(s) \in Seq(S) /\ Len(Front(s)) = Len(s) - 1
      /\ \A i \in 1..(Len(s) - 1) : Front(s)[i] = s[i]
  <2> DEFINE n == Len(s) - 1
             f == SubSeq(s, 1, n)
  <2>1. n \in Nat /\ \A i \in 1..n : s[i] \in S
    BY <1>1
  <2> HIDE DEF n
  <2>2. /\ f \in Seq(S) /\ Len(f) = IF 1 <= n THEN n - 1 + 1 ELSE 0
        /\ \A i \in 1..(n - 1 + 1) : f[i] = s[1 + i - 1]
    BY <2>1, SubSeqProperties
  <2>3. Len(f) = n /\ 1..(n - 1 + 1) = 1..n
    BY <2>1, <2>2
  <2>4. ASSUME NEW i \in 1..n PROVE f[i] = s[i]
    <3>1. 1 + i - 1 = i
      BY <2>1
    <3>2. QED
      BY <2>2, <2>3, <3>1
  <2>5. QED
    BY <2>2, <2>3, <2>4 DEF n, Front
<1>3. Last(s) \in S /\ Last(s) = s[Len(s)]
  BY <1>1 DEF Last
<1> DEFINE f == Front(s)
           e == Last(s)
           r == Append(f, e)
<1> HIDE DEF f, e
<1>4. /\ r \in Seq(S) /\ Len(r) = Len(f) + 1
      /\ \A i \in 1..Len(f) : r[i] = f[i]
      /\ r[Len(f) + 1] = e
  BY <1>2, <1>3, AppendShape DEF f, e
<1> HIDE DEF r
<1>5. Len(r) = Len(s) /\ \A i \in 1..Len(s) : r[i] = s[i]
  BY <1>1, <1>2, <1>3, <1>4 DEF f, e
<1>6. s = r
  BY <1>4, <1>5, SeqEqual
<1> USE DEF f, e, r
<1>7. QED
  BY <1>2, <1>3, <1>6

\* Cutting a list at an index inside it keeps the elements up to there.
LEMMA CutShape ==
  ASSUME NEW S, NEW s \in Seq(S), NEW n \in 0..Len(s)
  PROVE  /\ SubSeq(s, 1, n) \in Seq(S) /\ Len(SubSeq(s, 1, n)) = n
         /\ \A i \in 1..n : SubSeq(s, 1, n)[i] = s[i]
<1>1. n \in Nat /\ \A i \in 1..n : s[i] \in S
  OBVIOUS
<1> DEFINE f == SubSeq(s, 1, n)
<1>2. /\ f \in Seq(S) /\ Len(f) = IF 1 <= n THEN n - 1 + 1 ELSE 0
      /\ \A i \in 1..(n - 1 + 1) : f[i] = s[1 + i - 1]
  BY <1>1, SubSeqProperties
<1>3. Len(f) = n /\ 1..(n - 1 + 1) = 1..n
  BY <1>1, <1>2
<1>4. ASSUME NEW i \in 1..n PROVE f[i] = s[i]
  <2>1. 1 + i - 1 = i
    BY <1>1
  <2>2. QED
    BY <1>2, <1>3, <2>1
<1>5. QED
  BY <1>2, <1>3, <1>4

\* Lists that agree on their first elements have the same beginning, and the
\* other way round.
LEMMA SameCut ==
  ASSUME NEW S, NEW s \in Seq(S), NEW t \in Seq(S), NEW n \in Nat,
         n <= Len(s), n <= Len(t)
  PROVE  SubSeq(s, 1, n) = SubSeq(t, 1, n) <=> \A i \in 1..n : s[i] = t[i]
<1> DEFINE f == SubSeq(s, 1, n)
           g == SubSeq(t, 1, n)
<1>1. n \in 0..Len(s) /\ n \in 0..Len(t)
  OBVIOUS
<1>2. f \in Seq(S) /\ Len(f) = n /\ \A i \in 1..n : f[i] = s[i]
  BY <1>1, CutShape
<1>3. g \in Seq(S) /\ Len(g) = n /\ \A i \in 1..n : g[i] = t[i]
  BY <1>1, CutShape
<1> HIDE DEF f, g
<1>4. ASSUME \A i \in 1..n : s[i] = t[i] PROVE f = g
  BY <1>2, <1>3, <1>4, SeqEqual
<1>5. ASSUME f = g PROVE \A i \in 1..n : s[i] = t[i]
  BY <1>2, <1>3, <1>5
<1>6. QED
  BY <1>4, <1>5 DEF f, g

\* A suffix, element by element from the end.
LEMMA SuffixElements ==
  ASSUME NEW S, NEW s \in Seq(S), NEW t \in Seq(S)
  PROVE  IsSuffix(s, t) <=>
           /\ Len(s) <= Len(t)
           /\ \A i \in 1..Len(s) : s[Len(s) - i + 1] = t[Len(t) - i + 1]
<1> DEFINE r == Reverse(s)
           q == Reverse(t)
<1>1. Len(s) \in Nat /\ Len(t) \in Nat
  OBVIOUS
<1>2. r \in Seq(S) /\ Len(r) = Len(s) /\ \A i \in 1..Len(s) : r[i] = s[Len(s) - i + 1]
  <2>1. \A i \in 1..Len(s) : Len(s) - i + 1 \in 1..Len(s)
    BY <1>1
  <2>2. r \in [1..Len(s) -> S]
    BY <2>1 DEF Reverse
  <2>3. r \in Seq(S) /\ Len(r) = Len(s)
    BY <1>1, <2>2, IsASeq, LenProperties
  <2>4. QED
    BY <2>3 DEF Reverse
<1>3. q \in Seq(S) /\ Len(q) = Len(t) /\ \A i \in 1..Len(t) : q[i] = t[Len(t) - i + 1]
  <2>1. \A i \in 1..Len(t) : Len(t) - i + 1 \in 1..Len(t)
    BY <1>1
  <2>2. q \in [1..Len(t) -> S]
    BY <2>1 DEF Reverse
  <2>3. q \in Seq(S) /\ Len(q) = Len(t)
    BY <1>1, <2>2, IsASeq, LenProperties
  <2>4. QED
    BY <2>3 DEF Reverse
<1> HIDE DEF r, q
<1>4. ASSUME Len(s) <= Len(t)
      PROVE  SubSeq(r, 1, Len(r)) = SubSeq(q, 1, Len(r)) <=> \A i \in 1..Len(r) : r[i] = q[i]
  BY <1>1, <1>2, <1>3, <1>4, SameCut
<1>5. ASSUME Len(s) <= Len(t), NEW i \in 1..Len(s)
      PROVE  r[i] = s[Len(s) - i + 1] /\ q[i] = t[Len(t) - i + 1]
  <2>1. i \in 1..Len(t)
    BY <1>1, <1>5
  <2>2. QED
    BY <1>2, <1>3, <2>1
<1>6. IsSuffix(s, t) <=> Len(r) <= Len(q) /\ SubSeq(r, 1, Len(r)) = SubSeq(q, 1, Len(r))
  BY DEF IsSuffix, IsPrefix, r, q
<1>7. QED
  BY <1>2, <1>3, <1>4, <1>5, <1>6

\* The first element of a suffix is one of the list's, and the rest is a
\* suffix too.
LEMMA SuffixTail ==
  ASSUME NEW S, NEW s \in Seq(S), NEW t \in Seq(S), s # <<>>, IsSuffix(s, t)
  PROVE  Head(s) \in Range(t) /\ Tail(s) \in Seq(S) /\ IsSuffix(Tail(s), t)
<1> DEFINE r == Tail(s)
           n == Len(s)
           m == Len(t)
<1>1. n \in Nat \ {0} /\ m \in Nat
  BY EmptySeq
<1>2. r \in Seq(S) /\ Len(r) = n - 1 /\ \A i \in 1..Len(r) : r[i] = s[i + 1]
  BY HeadTailProperties
<1>3. n <= m /\ \A i \in 1..n : s[n - i + 1] = t[m - i + 1]
  BY SuffixElements
<1>4. Head(s) = s[1]
  OBVIOUS
<1> HIDE DEF r, n, m
<1>5. Head(s) \in Range(t)
  <2>1. n - n + 1 = 1 /\ n \in 1..n /\ m - n + 1 \in 1..m
    BY <1>1, <1>3
  <2>2. s[1] = t[m - n + 1]
    BY <1>3, <2>1
  <2>3. DOMAIN t = 1..m
    BY DEF m
  <2>4. QED
    BY <1>4, <2>1, <2>2, <2>3 DEF Range
<1>6. ASSUME NEW i \in 1..Len(r) PROVE r[Len(r) - i + 1] = t[m - i + 1]
  <2>1. /\ Len(r) - i + 1 \in 1..Len(r) /\ Len(r) - i + 1 + 1 = n - i + 1
        /\ i \in 1..n
    BY <1>1, <1>2
  <2>2. r[Len(r) - i + 1] = s[n - i + 1]
    BY <1>2, <2>1
  <2>3. QED
    BY <1>3, <2>1, <2>2
<1>7. Len(r) <= m
  BY <1>1, <1>2, <1>3
<1>8. IsSuffix(r, t)
  BY <1>2, <1>6, <1>7, SuffixElements DEF m
<1>9. QED
  BY <1>2, <1>5, <1>8 DEF r

\* A list is a suffix of itself, and the empty list is one of every list.
LEMMA SuffixEnds ==
  ASSUME NEW S, NEW t \in Seq(S)
  PROVE  IsSuffix(t, t) /\ IsSuffix(<<>>, t)
<1>1. IsSuffix(t, t)
  BY SuffixElements
<1>2. <<>> \in Seq(S) /\ Len(<<>>) = 0 /\ 1..0 = {}
  OBVIOUS
<1>3. Len(t) \in Nat
  OBVIOUS
<1>4. IsSuffix(<<>>, t)
  <2> DEFINE e == <<>>
  <2>1. e \in Seq(S) /\ Len(e) = 0
    BY <1>2
  <2> HIDE DEF e
  <2>2. \A i \in 1..Len(e) : e[Len(e) - i + 1] = t[Len(t) - i + 1]
    BY <1>2, <2>1
  <2>3. Len(e) <= Len(t)
    BY <1>3, <2>1
  <2>4. IsSuffix(e, t)
    BY <2>1, <2>2, <2>3, SuffixElements
  <2>5. QED
    BY <2>4 DEF e
<1>5. QED
  BY <1>1, <1>4

-----------------------------------------------------------------------------
(* Folds.  FoldLeft goes over the sets of the indices of a list, taking the  *)
(* largest first; with the steps of the fold as a function F on a set V of   *)
(* values and a set X of elements, so does this.                             *)

\* g is the fold of the elements of each set of indices in D.
FoldOf(g, F, base, list, D) ==
  \A s \in SUBSET D :
    g[s] = IF s = {} THEN base ELSE F[<<g[s \ {Max(s)}], list[Max(s)]>>]

\* There is such a function, and its values are values of the fold.
LEMMA FoldExists ==
  ASSUME NEW V, NEW X, NEW F, \A v \in V, x \in X : F[<<v, x>>] \in V,
         NEW base \in V, NEW list, NEW n \in Nat, \A i \in 1..n : list[i] \in X
  PROVE  \E g \in [SUBSET (1..n) -> V] : FoldOf(g, F, base, list, 1..n)
<1> DEFINE Q(k) == \E g \in [SUBSET (1..k) -> V] : FoldOf(g, F, base, list, 1..k)
           T == {k \in Nat : k <= n => Q(k)}
<1>1. Q(0)
  <2> DEFINE g == [s \in SUBSET (1..0) |-> base]
  <2>1. 1..0 = {} /\ SUBSET (1..0) = {{}}
    OBVIOUS
  <2>2. g \in [SUBSET (1..0) -> V] /\ FoldOf(g, F, base, list, 1..0)
    BY <2>1 DEF FoldOf
  <2> HIDE DEF g
  <2>3. QED
    BY <2>2
<1>2. ASSUME NEW k \in Nat, k + 1 <= n, Q(k) PROVE Q(k + 1)
  <2>1. PICK h \in [SUBSET (1..k) -> V] : FoldOf(h, F, base, list, 1..k)
    BY <1>2
  <2> DEFINE D == 1..(k + 1)
             x == list[k + 1]
             g == [s \in SUBSET D |-> IF k + 1 \in s THEN F[<<h[s \ {k + 1}], x>>] ELSE h[s]]
  <2>2. x \in X
    BY <1>2
  <2> HIDE DEF x
  <2>3. ASSUME NEW s \in SUBSET D
        PROVE  g[s] \in V /\ g[s] = IF s = {} THEN base ELSE F[<<g[s \ {Max(s)}], list[Max(s)]>>]
    <3>1. CASE k + 1 \in s
      <4>1. Max(s) = k + 1
        BY <1>2, <3>1, MaxOfSet
      <4>2. /\ s \ {k + 1} \in SUBSET D /\ k + 1 \notin s \ {k + 1}
            /\ s \ {k + 1} \in SUBSET (1..k)
        BY <1>2
      <4>3. g[s \ {k + 1}] = h[s \ {k + 1}] /\ h[s \ {k + 1}] \in V
        BY <4>2
      <4>4. g[s] = F[<<h[s \ {k + 1}], x>>]
        BY <3>1
      <4>5. g[s] \in V
        BY <2>2, <4>3, <4>4
      <4>6. QED
        BY <3>1, <4>1, <4>3, <4>4, <4>5 DEF x
    <3>2. CASE k + 1 \notin s
      <4>1. s \in SUBSET (1..k) /\ g[s] = h[s] /\ h[s] \in V
        BY <1>2, <3>2
      <4>2. h[s] = IF s = {} THEN base ELSE F[<<h[s \ {Max(s)}], list[Max(s)]>>]
        BY <2>1, <4>1 DEF FoldOf
      <4>3. s \ {Max(s)} \in SUBSET D /\ k + 1 \notin s \ {Max(s)}
        BY <3>2
      <4>4. g[s \ {Max(s)}] = h[s \ {Max(s)}]
        BY <4>3
      <4>5. QED
        BY <4>1, <4>2, <4>4
    <3>3. QED
      BY <3>1, <3>2
  <2>4. g = [s \in SUBSET D |-> g[s]]
    OBVIOUS
  <2> HIDE DEF g
  <2>5. g \in [SUBSET D -> V] /\ FoldOf(g, F, base, list, D)
    BY <2>3, <2>4 DEF FoldOf
  <2>6. QED
    BY <2>5
<1> HIDE DEF Q
<1>3. T = Nat
  <2>1. T \in SUBSET Nat /\ 0 \in T
    BY <1>1
  <2>2. ASSUME NEW k \in T PROVE k + 1 \in T
    <3>1. k \in Nat /\ (k <= n => Q(k))
      OBVIOUS
    <3>2. k + 1 <= n => k <= n
      BY <3>1
    <3>3. QED
      BY <1>2, <3>1, <3>2
  <2> HIDE DEF T
  <2>3. QED
    BY <2>1, <2>2, SetInduction
<1>4. Q(n)
  BY <1>3
<1>5. QED
  BY <1>4 DEF Q

\* The sets of indices that a fold goes through.
LEMMA IndexSets ==
  ASSUME NEW n \in Nat, NEW k \in 1..n
  PROVE  /\ 1..k \in SUBSET (1..n) /\ 1..k # {} /\ Max(1..k) = k
         /\ (1..k) \ {k} = 1..(k - 1)
<1> DEFINE s == 1..k
<1>1. k \in Nat /\ s \in SUBSET (1..k) /\ k \in s /\ s \in SUBSET (1..n)
  OBVIOUS
<1>2. s \ {k} = 1..(k - 1)
  OBVIOUS
<1> HIDE DEF s
<1>3. Max(s) = k /\ s # {}
  BY <1>1, MaxOfSet
<1>4. QED
  BY <1>1, <1>2, <1>3 DEF s

\* A list with something put before it has what the list has as a suffix.
LEMMA SuffixPrepend ==
  ASSUME NEW S, NEW s \in Seq(S), NEW t \in Seq(S), NEW x \in S, IsSuffix(s, t)
  PROVE  <<x>> \o t \in Seq(S) /\ IsSuffix(s, <<x>> \o t)
<1> DEFINE u == <<x>> \o t
           m == Len(s)
           n == Len(t)
<1>1. m \in Nat /\ n \in Nat
  OBVIOUS
<1>2. u \in Seq(S) /\ Len(u) = n + 1 /\ \A i \in 1..n : u[i + 1] = t[i]
  OBVIOUS
<1>3. m <= n /\ \A i \in 1..m : s[m - i + 1] = t[n - i + 1]
  BY SuffixElements
<1> HIDE DEF u, m, n
<1>4. ASSUME NEW i \in 1..m PROVE s[m - i + 1] = u[Len(u) - i + 1]
  <2>1. n - i + 1 \in 1..n /\ Len(u) - i + 1 = n - i + 1 + 1
    BY <1>1, <1>2, <1>3
  <2>2. u[Len(u) - i + 1] = t[n - i + 1]
    BY <1>2, <2>1
  <2>3. QED
    BY <1>3, <2>2
<1>5. m <= Len(u)
  BY <1>1, <1>2, <1>3
<1>6. IsSuffix(s, u)
  BY <1>2, <1>4, <1>5, SuffixElements DEF m
<1>7. QED
  BY <1>2, <1>6 DEF u
=============================================================================
