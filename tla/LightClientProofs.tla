------------------------- MODULE LightClientProofs -------------------------
(***************************************************************************)
(* Proofs about Merkle trees of lists of any length, and about the light   *)
(* client of a node whose chain is of any length.                          *)
(***************************************************************************)
EXTENDS LightClient, Bodies, BlockchainProofs

-----------------------------------------------------------------------------
(* The levels of a tree. *)

\* A function on 1..n is a list of length n.
LEMMA ListOfFunction ==
  ASSUME NEW f, NEW n \in Nat, f = [k \in 1..n |-> f[k]]
  PROVE  IsList(f) /\ Len(f) = n /\ DOMAIN f = 1..n
<1> DEFINE S == {f[k] : k \in 1..n}
<1>1. DOMAIN f = 1..n
  OBVIOUS
<1>2. f \in [1..n -> S]
  OBVIOUS
<1>3. f \in Seq(S)
  BY <1>2
<1>4. Len(f) = n
  BY <1>1, <1>3, LenProperties
<1>5. IsList(f)
  BY <1>3, SeqIsList
<1>6. QED
  BY <1>1, <1>4, <1>5

\* The parents of a level: half as many, and which two nodes each is made of.
LEMMA ParentsShape ==
  ASSUME NEW level, IsList(level), Len(level) > 1
  PROVE  /\ IsList(Parents(level))
         /\ Len(Parents(level)) = (Len(level) + 1) \div 2
         /\ \A k \in 1..Len(Parents(level)) :
              Parents(level)[k] =
                Pair(level[2 * k - 1], level[IF 2 * k <= Len(level) THEN 2 * k ELSE 2 * k - 1])
<1> DEFINE f == Parents(level)
           n == (Len(level) + 1) \div 2
<1>1. Len(level) \in Nat
  BY DEF IsList
<1>2. n \in Nat
  BY <1>1
<1> HIDE DEF n
<1>3. f = [k \in 1..n |-> Pair(level[2 * k - 1],
                               level[IF 2 * k <= Len(level) THEN 2 * k ELSE 2 * k - 1])]
  BY DEF Parents, n
<1> HIDE DEF f
<1>4. f = [k \in 1..n |-> f[k]]
  BY <1>3
<1>5. IsList(f) /\ Len(f) = n
  BY <1>2, <1>4, ListOfFunction
<1>6. QED
  BY <1>3, <1>5 DEF f, n

\* g is the tree of the leaves up to level n.
LevelsOf(g, leaves, n) ==
  g = [k \in 0..n |-> IF k = 0 THEN [i \in DOMAIN leaves |-> Leaf(leaves[i])]
                      ELSE Above(g[k - 1])]

\* The recursive definition of the levels defines a function.
LEMMA LevelsExist ==
  ASSUME NEW leaves, NEW n \in Nat
  PROVE  \E g : LevelsOf(g, leaves, n)
<1> DEFINE base == [i \in DOMAIN leaves |-> Leaf(leaves[i])]
           T == {k \in Nat : \E g : LevelsOf(g, leaves, k)}
<1>1. 0 \in T
  <2> DEFINE g == [k \in 0..0 |-> base]
  <2>1. LevelsOf(g, leaves, 0)
    BY DEF LevelsOf
  <2>2. QED
    BY <2>1
<1>2. ASSUME NEW k \in T PROVE k + 1 \in T
  <2>1. PICK h : LevelsOf(h, leaves, k)
    BY <1>2
  <2> DEFINE g == [j \in 0..(k + 1) |-> IF j = k + 1 THEN Above(h[k]) ELSE h[j]]
  <2>2. ASSUME NEW j \in 0..(k + 1) PROVE g[j] = IF j = 0 THEN base ELSE Above(g[j - 1])
    <3>1. CASE j = k + 1
      <4>1. k + 1 # 0 /\ k + 1 - 1 = k /\ k \in 0..(k + 1) /\ k # k + 1
        BY <1>2
      <4>2. g[k] = h[k]
        BY <4>1
      <4>3. g[k + 1] = Above(h[k])
        BY <1>2
      <4>4. QED
        BY <3>1, <4>1, <4>2, <4>3
    <3>2. CASE j # k + 1
      <4>1. j \in 0..k /\ g[j] = h[j]
        BY <1>2, <3>2
      <4>2. h[j] = IF j = 0 THEN base ELSE Above(h[j - 1])
        BY <2>1, <4>1 DEF LevelsOf
      <4>3. j # 0 => g[j - 1] = h[j - 1]
        BY <1>2, <4>1
      <4>4. QED
        BY <4>1, <4>2, <4>3
    <3>3. QED
      BY <3>1, <3>2
  <2>3. g = [j \in 0..(k + 1) |-> g[j]]
    OBVIOUS
  <2> HIDE DEF g
  <2>4. LevelsOf(g, leaves, k + 1)
    BY <2>2, <2>3 DEF LevelsOf
  <2>5. QED
    BY <1>2, <2>4
<1>3. T = Nat
  <2>1. T \in SUBSET Nat
    OBVIOUS
  <2> HIDE DEF T
  <2>2. QED
    BY <1>1, <1>2, <2>1, SetInduction
<1>4. QED
  BY <1>3

\* The levels, from the leaves up.
LEMMA LevelsRise ==
  ASSUME NEW leaves, IsList(leaves)
  PROVE  /\ Levels(leaves)[0] = [i \in 1..Len(leaves) |-> Leaf(leaves[i])]
         /\ \A n \in 1..Len(leaves) : Levels(leaves)[n] = Above(Levels(leaves)[n - 1])
<1> DEFINE N == Len(leaves)
           g == CHOOSE h : LevelsOf(h, leaves, N)
<1>1. N \in Nat /\ DOMAIN leaves = 1..N
  BY DEF IsList
<1>2. Levels(leaves) = g
  BY DEF Levels, LevelsOf
<1> HIDE DEF N, g
<1>3. LevelsOf(g, leaves, N)
  BY <1>1, LevelsExist DEF g
<1>4. g[0] = [i \in 1..N |-> Leaf(leaves[i])]
  <2>1. 0 \in 0..N
    BY <1>1
  <2>2. QED
    BY <1>1, <1>3, <2>1 DEF LevelsOf
<1>5. ASSUME NEW n \in 1..N PROVE g[n] = Above(g[n - 1])
  <2>1. n \in 0..N /\ n # 0
    BY <1>1
  <2>2. QED
    BY <1>3, <2>1 DEF LevelsOf
<1>6. Levels(leaves)[0] = [i \in 1..N |-> Leaf(leaves[i])]
  BY <1>2, <1>4
<1>7. \A n \in 1..N : Levels(leaves)[n] = Above(Levels(leaves)[n - 1])
  BY <1>2, <1>5
<1>8. QED
  BY <1>6, <1>7 DEF N

\* A level is a list; as long as it has more than one node the next is shorter.
LEMMA LevelShapes ==
  ASSUME NEW leaves, IsList(leaves), leaves # <<>>
  PROVE  \A n \in 0..Len(leaves) :
           /\ IsList(Levels(leaves)[n]) /\ Len(Levels(leaves)[n]) >= 1
           /\ Len(Levels(leaves)[n]) = 1 \/ Len(Levels(leaves)[n]) + n <= Len(leaves)
<1> DEFINE N == Len(leaves)
           L == Levels(leaves)
           Q(n) == /\ IsList(L[n]) /\ Len(L[n]) >= 1
                   /\ Len(L[n]) = 1 \/ Len(L[n]) + n <= N
           T == {n \in Nat : n <= N => Q(n)}
<1>1. N \in Nat /\ N # 0
  BY DEF IsList
<1>2. L[0] = [i \in 1..N |-> Leaf(leaves[i])] /\ \A n \in 1..N : L[n] = Above(L[n - 1])
  BY LevelsRise
<1> HIDE DEF L, N
<1>3. 0 \in T
  <2>1. L[0] = [i \in 1..N |-> L[0][i]]
    BY <1>2
  <2>2. IsList(L[0]) /\ Len(L[0]) = N
    BY <1>1, <2>1, ListOfFunction
  <2>3. QED
    BY <1>1, <2>2
<1> HIDE DEF T
<1>4. ASSUME NEW n \in Nat, Q(n), n + 1 <= N PROVE Q(n + 1)
  <2> DEFINE l == L[n]
  <2>1. n \in Nat /\ n <= N /\ n + 1 \in 1..N /\ n + 1 - 1 = n
    BY <1>1, <1>4
  <2>2. L[n + 1] = Above(l)
    BY <1>2, <2>1
  <2>3. IsList(l) /\ Len(l) \in Nat /\ Len(l) >= 1 /\ (Len(l) = 1 \/ Len(l) + n <= N)
    BY <1>4 DEF IsList
  <2> HIDE DEF l
  <2>4. CASE Len(l) = 1
    BY <2>2, <2>3, <2>4 DEF Above
  <2>5. CASE Len(l) # 1
    <3>0. Len(l) > 1
      BY <2>3, <2>5
    <3>1. L[n + 1] = Parents(l) /\ Len(l) > 1
      BY <2>2, <2>5, <3>0 DEF Above
    <3>2. IsList(L[n + 1]) /\ Len(L[n + 1]) = (Len(l) + 1) \div 2
      BY <2>3, <3>1, ParentsShape
    <3>3. Len(L[n + 1]) >= 1 /\ Len(L[n + 1]) + (n + 1) <= N
      <4> DEFINE h == Len(l)
      <4>1. h \in Nat /\ h > 1 /\ h + n <= N /\ n \in Nat /\ N \in Nat
        BY <1>1, <2>1, <2>3, <2>5, <3>0
      <4> HIDE DEF h
      <4>2. (h + 1) \div 2 >= 1 /\ (h + 1) \div 2 + (n + 1) <= N
        BY <4>1
      <4>3. QED
        BY <3>2, <4>2 DEF h
    <3>4. QED
      BY <3>2, <3>3
  <2>6. QED
    BY <2>4, <2>5
<1> HIDE DEF Q
<1>5. T = Nat
  <2>1. T \in SUBSET Nat
    BY DEF T
  <2>2. ASSUME NEW n \in T PROVE n + 1 \in T
    <3>1. n \in Nat /\ (n <= N => Q(n))
      BY DEF T
    <3>2. n + 1 <= N => n <= N
      BY <1>1, <3>1
    <3>3. QED
      BY <1>4, <3>1, <3>2 DEF T
  <2>3. QED
    BY <1>3, <2>1, <2>2, SetInduction
<1>6. ASSUME NEW n \in 0..N PROVE Q(n)
  <2>1. n \in Nat /\ n <= N
    BY <1>1
  <2>2. QED
    BY <1>5, <2>1 DEF T
<1>7. QED
  BY <1>6 DEF N, L, Q

\* The tree has a root: the first level of one node.
LEMMA DepthShape ==
  ASSUME NEW leaves, IsList(leaves), leaves # <<>>
  PROVE  /\ Depth(leaves) \in 0..Len(leaves)
         /\ Len(Levels(leaves)[Depth(leaves)]) = 1
         /\ \A n \in 1..Depth(leaves) :
              /\ Len(Levels(leaves)[n - 1]) > 1
              /\ Levels(leaves)[n] = Parents(Levels(leaves)[n - 1])
<1> DEFINE N == Len(leaves)
           L == Levels(leaves)
           d == Depth(leaves)
           U == {n \in 0..N : Len(L[n]) = 1}
<1>1. N \in Nat /\ N # 0
  BY DEF IsList
<1>2. \A n \in 0..N : /\ IsList(L[n]) /\ Len(L[n]) >= 1
                      /\ Len(L[n]) = 1 \/ Len(L[n]) + n <= N
  BY LevelShapes
<1>3. \A n \in 0..N : Len(L[n]) \in Nat
  BY <1>2 DEF IsList
<1> HIDE DEF L, N
<1>4. U # {}
  <2>1. N \in 0..N
    BY <1>1
  <2>2. Len(L[N]) = 1
    BY <1>1, <1>2, <1>3, <2>1
  <2>3. QED
    BY <2>1, <2>2
<1>5. PICK m \in U : \A k \in U : m <= k
  <2>1. U \in SUBSET Nat
    BY <1>1
  <2> HIDE DEF U
  <2>2. QED
    BY <1>4, <2>1, LeastElement
<1> HIDE DEF U
<1>6. m \in 0..N /\ Len(L[m]) = 1 /\ \A e \in 0..(m - 1) : Len(L[e]) > 1
  <2>1. m \in 0..N /\ Len(L[m]) = 1
    BY <1>5 DEF U
  <2>2. ASSUME NEW e \in 0..(m - 1) PROVE Len(L[e]) > 1
    <3>1. e \in 0..N /\ ~(m <= e)
      BY <1>1, <2>1
    <3>2. Len(L[e]) # 1
      BY <1>5, <3>1 DEF U
    <3> DEFINE h == Len(L[e])
    <3>3. h \in Nat /\ h >= 1 /\ h # 1
      BY <1>2, <1>3, <3>1, <3>2
    <3> HIDE DEF h
    <3>4. h > 1
      BY <3>3
    <3>5. QED
      BY <3>4 DEF h
  <2>3. QED
    BY <2>1, <2>2
<1>7. d \in 0..N /\ Len(L[d]) = 1 /\ \A e \in 0..(d - 1) : Len(L[e]) > 1
  BY <1>6 DEF Depth, L, N
<1> HIDE DEF d
<1>8. ASSUME NEW n \in 1..d PROVE Len(L[n - 1]) > 1 /\ L[n] = Parents(L[n - 1])
  <2>1. n - 1 \in 0..(d - 1) /\ n \in 1..N
    BY <1>1, <1>7
  <2>2. Len(L[n - 1]) > 1
    BY <1>7, <2>1
  <2>3. L[n] = Above(L[n - 1])
    BY <2>1, LevelsRise DEF L, N
  <2>4. Len(L[n - 1]) # 1
    <3> DEFINE h == Len(L[n - 1])
    <3>1. h > 1
      BY <2>2
    <3> HIDE DEF h
    <3>2. h # 1
      BY <3>1
    <3>3. QED
      BY <3>2 DEF h
  <2>5. QED
    BY <2>2, <2>3, <2>4 DEF Above
<1>9. QED
  BY <1>7, <1>8 DEF d, L, N

-----------------------------------------------------------------------------
(* Climbing a proof. *)

\* One step of it: the sibling goes to the side it is said to be on.
Joined(node, p) == IF p.isLeft THEN Pair(p.hash, node) ELSE Pair(node, p.hash)

\* g is the climb along the proof's nodes of each set of indices.
ClimbIter(g, x, proof, D) ==
  g = [s \in SUBSET D |-> IF s = {} THEN Leaf(x)
                          ELSE Joined(g[s \ {Max(s)}], proof[Max(s)])]

\* The fold over a proof is defined on every set of its indices.
LEMMA ClimbExists ==
  ASSUME NEW x, NEW proof, NEW n \in Nat
  PROVE  \E g : ClimbIter(g, x, proof, 1..n)
<1> DEFINE T == {k \in Nat : \E g : ClimbIter(g, x, proof, 1..k)}
<1>1. 0 \in T
  <2> DEFINE g == [s \in SUBSET (1..0) |-> Leaf(x)]
  <2>1. 1..0 = {} /\ SUBSET (1..0) = {{}}
    OBVIOUS
  <2>2. ClimbIter(g, x, proof, 1..0)
    BY <2>1 DEF ClimbIter
  <2>3. QED
    BY <2>2
<1>2. ASSUME NEW k \in T PROVE k + 1 \in T
  <2>1. PICK h : ClimbIter(h, x, proof, 1..k)
    BY <1>2
  <2> DEFINE D == 1..(k + 1)
             g == [s \in SUBSET D |-> IF k + 1 \in s THEN Joined(h[s \ {k + 1}], proof[k + 1])
                                      ELSE h[s]]
  <2>2. ASSUME NEW s \in SUBSET D
        PROVE  g[s] = IF s = {} THEN Leaf(x) ELSE Joined(g[s \ {Max(s)}], proof[Max(s)])
    <3>1. CASE k + 1 \in s
      <4>1. Max(s) = k + 1
        BY <1>2, <3>1, MaxOfSet
      <4>2. s \ {k + 1} \in SUBSET D /\ k + 1 \notin s \ {k + 1}
        OBVIOUS
      <4>3. g[s \ {k + 1}] = h[s \ {k + 1}]
        BY <4>2
      <4>4. g[s] = Joined(h[s \ {k + 1}], proof[k + 1])
        BY <3>1
      <4>5. QED
        BY <3>1, <4>1, <4>3, <4>4
    <3>2. CASE k + 1 \notin s
      <4>1. s \in SUBSET (1..k) /\ g[s] = h[s]
        BY <1>2, <3>2
      <4>2. h[s] = IF s = {} THEN Leaf(x) ELSE Joined(h[s \ {Max(s)}], proof[Max(s)])
        BY <2>1, <4>1 DEF ClimbIter
      <4>3. s \ {Max(s)} \in SUBSET D /\ k + 1 \notin s \ {Max(s)}
        BY <3>2
      <4>4. g[s \ {Max(s)}] = h[s \ {Max(s)}]
        BY <4>3
      <4>5. QED
        BY <4>1, <4>2, <4>4
    <3>3. QED
      BY <3>1, <3>2
  <2>3. g = [s \in SUBSET D |-> g[s]]
    OBVIOUS
  <2> HIDE DEF g
  <2>4. ClimbIter(g, x, proof, D)
    BY <2>2, <2>3 DEF ClimbIter
  <2>5. QED
    BY <1>2, <2>4
<1>3. T = Nat
  <2>1. T \in SUBSET Nat
    OBVIOUS
  <2> HIDE DEF T
  <2>2. QED
    BY <1>1, <1>2, <2>1, SetInduction
<1>4. QED
  BY <1>3

\* The hashes on the way from a leaf to where a proof of length m leads.
Way(node, x, proof, m) ==
  /\ node[0] = Leaf(x) /\ Climb(x, proof) = node[m]
  /\ \A k \in 1..m : node[k] = Joined(node[k - 1], proof[k])

\* Every proof has such a way.
LEMMA ClimbSteps ==
  ASSUME NEW x, NEW proof, NEW m \in Nat, DOMAIN proof = 1..m
  PROVE  \E node : Way(node, x, proof, m)
<1> DEFINE g == CHOOSE h : ClimbIter(h, x, proof, 1..m)
           node == [k \in 0..m |-> g[1..k]]
<1>1. ClimbIter(g, x, proof, 1..m)
  BY ClimbExists
<1>2. Climb(x, proof) = g[1..m]
  BY DEF Climb, FoldLeft, MapThenFoldSet, ClimbIter, Joined
<1> HIDE DEF g
<1>3. node[0] = Leaf(x)
  <2>1. 1..0 = {} /\ {} \in SUBSET (1..m)
    OBVIOUS
  <2>2. g[{}] = Leaf(x)
    BY <1>1, <2>1 DEF ClimbIter
  <2>3. QED
    BY <2>1, <2>2
<1>4. ASSUME NEW k \in 1..m PROVE node[k] = Joined(node[k - 1], proof[k])
  <2>1. Max(1..k) = k /\ 1..k \in SUBSET (1..m) /\ 1..k # {}
    <3> DEFINE s == 1..k
    <3>1. k \in Nat /\ s \in SUBSET (1..k) /\ k \in s
      OBVIOUS
    <3>2. 1..k \in SUBSET (1..m)
      OBVIOUS
    <3> HIDE DEF s
    <3>3. Max(s) = k
      BY <3>1, MaxOfSet
    <3>4. s # {}
      BY <3>1
    <3>5. QED
      BY <3>2, <3>3, <3>4 DEF s
  <2>2. (1..k) \ {k} = 1..(k - 1)
    OBVIOUS
  <2>3. g[1..k] = Joined(g[(1..k) \ {k}], proof[k])
    BY <1>1, <2>1 DEF ClimbIter
  <2>4. k - 1 \in 0..m /\ k \in 0..m
    OBVIOUS
  <2>5. QED
    BY <2>2, <2>3, <2>4
<1>5. Climb(x, proof) = node[m]
  BY <1>2
<1> HIDE DEF node
<1>6. QED
  BY <1>3, <1>4, <1>5 DEF Way

-----------------------------------------------------------------------------
(* The proof that a node makes of one of its leaves. *)

\* g halves the index i n times.
HalvesOf(g, i, n) ==
  g = [k \in 0..n |-> IF k = 0 THEN i ELSE g[k - 1] \div 2]

\* The recursive definition of the ancestors defines a function.
LEMMA HalvesExist ==
  ASSUME NEW i, NEW n \in Nat
  PROVE  \E g : HalvesOf(g, i, n)
<1> DEFINE T == {k \in Nat : \E g : HalvesOf(g, i, k)}
<1>1. 0 \in T
  <2> DEFINE g == [k \in 0..0 |-> i]
  <2>1. HalvesOf(g, i, 0)
    BY DEF HalvesOf
  <2>2. QED
    BY <2>1
<1>2. ASSUME NEW k \in T PROVE k + 1 \in T
  <2>1. PICK h : HalvesOf(h, i, k)
    BY <1>2
  <2> DEFINE g == [j \in 0..(k + 1) |-> IF j = k + 1 THEN h[k] \div 2 ELSE h[j]]
  <2>2. ASSUME NEW j \in 0..(k + 1) PROVE g[j] = IF j = 0 THEN i ELSE g[j - 1] \div 2
    <3>1. CASE j = k + 1
      <4>1. k + 1 # 0 /\ k + 1 - 1 = k /\ k \in 0..(k + 1) /\ k # k + 1
        BY <1>2
      <4>2. g[k] = h[k]
        BY <4>1
      <4>3. g[k + 1] = h[k] \div 2
        BY <1>2
      <4>4. QED
        BY <3>1, <4>1, <4>2, <4>3
    <3>2. CASE j # k + 1
      <4>1. j \in 0..k /\ g[j] = h[j]
        BY <1>2, <3>2
      <4>2. h[j] = IF j = 0 THEN i ELSE h[j - 1] \div 2
        BY <2>1, <4>1 DEF HalvesOf
      <4>3. j # 0 => g[j - 1] = h[j - 1]
        BY <1>2, <4>1
      <4>4. QED
        BY <4>1, <4>2, <4>3
    <3>3. QED
      BY <3>1, <3>2
  <2>3. g = [j \in 0..(k + 1) |-> g[j]]
    OBVIOUS
  <2> HIDE DEF g
  <2>4. HalvesOf(g, i, k + 1)
    BY <2>2, <2>3 DEF HalvesOf
  <2>5. QED
    BY <1>2, <2>4
<1>3. T = Nat
  <2>1. T \in SUBSET Nat
    OBVIOUS
  <2> HIDE DEF T
  <2>2. QED
    BY <1>1, <1>2, <2>1, SetInduction
<1>4. QED
  BY <1>3

\* The ancestors, from the leaf up.
LEMMA AncestorsShape ==
  ASSUME NEW i, NEW n \in Nat
  PROVE  /\ Ancestors(i, n)[0] = i
         /\ \A k \in 1..n : Ancestors(i, n)[k] = Ancestors(i, n)[k - 1] \div 2
<1> DEFINE g == CHOOSE h : HalvesOf(h, i, n)
<1>1. Ancestors(i, n) = g
  BY DEF Ancestors, HalvesOf
<1>2. HalvesOf(g, i, n)
  BY HalvesExist
<1> HIDE DEF g
<1>3. g[0] = i
  <2>1. 0 \in 0..n
    OBVIOUS
  <2>2. QED
    BY <1>2, <2>1 DEF HalvesOf
<1>4. ASSUME NEW k \in 1..n PROVE g[k] = g[k - 1] \div 2
  <2>1. k \in 0..n /\ k # 0
    OBVIOUS
  <2>2. QED
    BY <1>2, <2>1 DEF HalvesOf
<1>5. QED
  BY <1>1, <1>3, <1>4

\* A leaf that is in the list has a first index.
LEMMA FirstLeafShape ==
  ASSUME NEW leaves, IsList(leaves), NEW x \in Range(leaves)
  PROVE  FirstLeaf(leaves, x) \in 1..Len(leaves) /\ leaves[FirstLeaf(leaves, x)] = x
<1> DEFINE N == Len(leaves)
           U == {i \in 1..N : leaves[i] = x}
<1>1. N \in Nat /\ DOMAIN leaves = 1..N
  BY DEF IsList
<1>2. U # {} /\ U \in SUBSET Nat
  BY <1>1 DEF Range
<1>3. PICK m \in U : \A k \in U : m <= k
  <2> HIDE DEF U
  <2>1. QED
    BY <1>2, LeastElement
<1>4. m \in 1..N /\ leaves[m] = x
  BY <1>3
<1>5. ASSUME NEW j \in 1..(m - 1) PROVE leaves[j] # x
  <2>1. j \in 1..N /\ ~(m <= j)
    BY <1>1, <1>4
  <2>2. QED
    BY <1>3, <2>1
<1> HIDE DEF U, N
<1>6. QED
  BY <1>1, <1>4, <1>5 DEF FirstLeaf, N

\* A node joined with its sibling is its parent.
LEMMA ParentOfNode ==
  ASSUME NEW level, IsList(level), Len(level) > 1, NEW i \in 0..(Len(level) - 1)
  PROVE  /\ i \div 2 \in 0..(Len(Parents(level)) - 1)
         /\ Parents(level)[i \div 2 + 1] = Joined(level[i + 1], Sibling(level, i))
<1> DEFINE n == Len(level)
           q == i \div 2
           up == Parents(level)
<1>1. n \in Nat /\ n > 1 /\ i \in 0..(n - 1)
  BY DEF IsList
<1>2. /\ Len(up) = (n + 1) \div 2
      /\ \A k \in 1..Len(up) :
           up[k] = Pair(level[2 * k - 1], level[IF 2 * k <= n THEN 2 * k ELSE 2 * k - 1])
  BY ParentsShape
<1> HIDE DEF n, q, up
<1>3. i \in Nat /\ q \in Nat /\ (i = 2 * q \/ i = 2 * q + 1)
  BY <1>1 DEF q
<1>4. q \in 0..(Len(up) - 1) /\ q + 1 \in 1..Len(up)
  BY <1>1, <1>2, <1>3
<1>5. up[q + 1] = Pair(level[2 * q + 1], level[IF 2 * q + 2 <= n THEN 2 * q + 2 ELSE 2 * q + 1])
  <2>1. 2 * (q + 1) - 1 = 2 * q + 1 /\ 2 * (q + 1) = 2 * q + 2
    BY <1>3
  <2>2. QED
    BY <1>2, <1>4, <2>1
<1>6. CASE i = 2 * q + 1
  <2>1. i % 2 = 1 /\ 2 * q + 2 <= n /\ i + 1 = 2 * q + 2
    BY <1>1, <1>3, <1>6
  <2>2. Sibling(level, i) = [hash |-> level[i], isLeft |-> TRUE]
    BY <2>1 DEF Sibling
  <2>3. QED
    BY <1>4, <1>5, <1>6, <2>1, <2>2 DEF Joined, q, up
<1>7. CASE i = 2 * q
  <2>1. i % 2 # 1 /\ i + 1 = 2 * q + 1 /\ i + 2 = 2 * q + 2
        /\ (i + 1 < n <=> 2 * q + 2 <= n)
    BY <1>1, <1>3, <1>7
  <2>2. Sibling(level, i) =
          [hash |-> level[IF i + 1 < n THEN i + 2 ELSE i + 1], isLeft |-> FALSE]
    BY <2>1 DEF Sibling, n
  <2>3. QED
    BY <1>4, <1>5, <1>7, <2>1, <2>2 DEF Joined, q, up
<1>8. QED
  BY <1>3, <1>6, <1>7

\* The ancestors of a leaf are on the tree.
LEMMA AncestorsOnTree ==
  ASSUME NEW leaves, IsList(leaves), leaves # <<>>, NEW i \in 0..(Len(leaves) - 1)
  PROVE  \A n \in 0..Depth(leaves) :
           Ancestors(i, Depth(leaves))[n] \in 0..(Len(Levels(leaves)[n]) - 1)
<1> DEFINE N == Len(leaves)
           L == Levels(leaves)
           d == Depth(leaves)
           idx == Ancestors(i, d)
           Q(n) == idx[n] \in 0..(Len(L[n]) - 1)
           T == {n \in Nat : n <= d => Q(n)}
<1>1. N \in Nat /\ d \in 0..N /\ d \in Nat
  BY DepthShape DEF IsList
<1>2. \A n \in 0..N : IsList(L[n])
  BY LevelShapes
<1>3. \A n \in 1..d : Len(L[n - 1]) > 1 /\ L[n] = Parents(L[n - 1])
  BY DepthShape
<1>4. Len(L[0]) = N
  <2>1. L[0] = [k \in 1..N |-> Leaf(leaves[k])]
    BY LevelsRise
  <2> HIDE DEF L, N
  <2>2. L[0] = [k \in 1..N |-> L[0][k]]
    BY <2>1
  <2>3. QED
    BY <1>1, <2>2, ListOfFunction
<1>5. idx[0] = i /\ \A n \in 1..d : idx[n] = idx[n - 1] \div 2
  BY <1>1, AncestorsShape
<1>6. i \in 0..(N - 1)
  OBVIOUS
<1> HIDE DEF N, L, d, idx, T
<1>7. 0 \in T
  BY <1>4, <1>5, <1>6 DEF T
<1>8. ASSUME NEW n \in Nat, Q(n), n + 1 <= d PROVE Q(n + 1)
  <2> DEFINE l == L[n]
             j == idx[n]
  <2>1. n + 1 \in 1..d /\ n + 1 - 1 = n /\ n \in 0..N
    BY <1>1, <1>8
  <2>2. IsList(l) /\ Len(l) > 1 /\ L[n + 1] = Parents(l)
    BY <1>2, <1>3, <2>1
  <2>3. j \in 0..(Len(l) - 1) /\ idx[n + 1] = j \div 2
    BY <1>5, <1>8, <2>1
  <2> HIDE DEF l, j
  <2>4. j \div 2 \in 0..(Len(Parents(l)) - 1)
    BY <2>2, <2>3, ParentOfNode
  <2>5. QED
    BY <2>2, <2>3, <2>4
<1> HIDE DEF Q
<1>9. T = Nat
  <2>1. T \in SUBSET Nat
    BY DEF T
  <2>2. ASSUME NEW n \in T PROVE n + 1 \in T
    <3>1. n \in Nat /\ (n <= d => Q(n))
      BY DEF T
    <3>2. n + 1 <= d => n <= d
      BY <1>1, <3>1
    <3>3. QED
      BY <1>8, <3>1, <3>2 DEF T
  <2>3. QED
    BY <1>7, <2>1, <2>2, SetInduction
<1>10. ASSUME NEW n \in 0..d PROVE Q(n)
  <2>1. n \in Nat /\ n <= d
    BY <1>1
  <2>2. QED
    BY <1>9, <2>1 DEF T
<1>11. QED
  BY <1>10 DEF Q, N, L, d, idx

\* The proof made of a leaf leads to the root, and is as long as the tree is
\* high.
LEMMA ProofVerifies ==
  ASSUME NEW leaves, IsList(leaves), NEW x \in Range(leaves)
  PROVE  /\ VerifyProof(MerkleRoot(leaves), x, GetProof(leaves, x))
         /\ IsList(GetProof(leaves, x)) /\ Len(GetProof(leaves, x)) = Depth(leaves)
<1> DEFINE N == Len(leaves)
           L == Levels(leaves)
           d == Depth(leaves)
           i == FirstLeaf(leaves, x) - 1
           idx == Ancestors(i, d)
           proof == GetProof(leaves, x)
<1>1. N \in Nat /\ leaves # <<>>
  BY DEF IsList, Range
<1>2. d \in 0..N /\ d \in Nat /\ Len(L[d]) = 1
      /\ \A n \in 1..d : Len(L[n - 1]) > 1 /\ L[n] = Parents(L[n - 1])
  BY <1>1, DepthShape
<1>3. i \in 0..(N - 1) /\ leaves[i + 1] = x
  BY <1>1, FirstLeafShape
<1>4. \A n \in 0..d : idx[n] \in 0..(Len(L[n]) - 1)
  <2> HIDE DEF i
  <2>1. QED
    BY <1>1, <1>3, AncestorsOnTree
<1>5. idx[0] = i /\ \A n \in 1..d : idx[n] = idx[n - 1] \div 2
  <2> HIDE DEF i, d
  <2>1. QED
    BY <1>2, AncestorsShape
<1>6. proof = [n \in 1..d |-> Sibling(L[n - 1], idx[n - 1])]
  BY DEF GetProof
<1>7. \A n \in 0..N : IsList(L[n])
  BY <1>1, LevelShapes
<1>8. L[0] = [k \in 1..N |-> Leaf(leaves[k])]
  BY LevelsRise
<1>9. MerkleRoot(leaves) = L[d][1]
  BY <1>1 DEF MerkleRoot
<1> HIDE DEF N, L, d, i, idx, proof
<1>10. proof = [n \in 1..d |-> proof[n]]
  BY <1>6
<1>11. IsList(proof) /\ Len(proof) = d /\ DOMAIN proof = 1..d
  BY <1>2, <1>10, ListOfFunction
<1>12. PICK node : Way(node, x, proof, d)
  BY <1>2, <1>11, ClimbSteps
<1> USE DEF Way
<1> DEFINE Q(n) == node[n] = L[n][idx[n] + 1]
           T == {n \in Nat : n <= d => Q(n)}
<1>13. 0 \in T
  <2>1. i + 1 \in 1..N
    BY <1>1, <1>3
  <2>2. QED
    BY <1>3, <1>5, <1>8, <1>12, <2>1
<1> HIDE DEF T
<1>14. ASSUME NEW n \in Nat, Q(n), n + 1 <= d PROVE Q(n + 1)
  <2> DEFINE l == L[n]
             j == idx[n]
  <2>1. n + 1 \in 1..d /\ n + 1 - 1 = n /\ n \in 0..N /\ n \in 0..d
    BY <1>1, <1>2, <1>14
  <2>2. IsList(l) /\ Len(l) > 1 /\ L[n + 1] = Parents(l)
    BY <1>2, <1>7, <2>1
  <2>3. j \in 0..(Len(l) - 1) /\ idx[n + 1] = j \div 2
    BY <1>4, <1>5, <2>1
  <2>4. proof[n + 1] = Sibling(l, j)
    BY <1>6, <2>1
  <2>5. node[n] = l[j + 1]
    BY <1>14
  <2>6. node[n + 1] = Joined(node[n], proof[n + 1])
    BY <1>12, <2>1
  <2> HIDE DEF l, j
  <2>7. Parents(l)[j \div 2 + 1] = Joined(l[j + 1], Sibling(l, j))
    BY <2>2, <2>3, ParentOfNode
  <2>8. QED
    BY <2>2, <2>3, <2>4, <2>5, <2>6, <2>7
<1> HIDE DEF Q
<1>15. T = Nat
  <2>1. T \in SUBSET Nat
    BY DEF T
  <2>2. ASSUME NEW n \in T PROVE n + 1 \in T
    <3>1. n \in Nat /\ (n <= d => Q(n))
      BY DEF T
    <3>2. n + 1 <= d => n <= d
      BY <1>2, <3>1
    <3>3. QED
      BY <1>14, <3>1, <3>2 DEF T
  <2>3. QED
    BY <1>13, <2>1, <2>2, SetInduction
<1>16. node[d] = L[d][idx[d] + 1]
  <2>1. d \in T
    BY <1>2, <1>15
  <2>2. QED
    BY <1>2, <2>1 DEF T, Q
<1>17. idx[d] = 0
  <2>1. d \in 0..d
    BY <1>2
  <2> DEFINE z == idx[d]
             h == Len(L[d])
  <2>2. z \in 0..(h - 1)
    BY <1>4, <2>1
  <2>3. h = 1
    BY <1>2
  <2> HIDE DEF z, h
  <2>4. z = 0
    BY <2>2, <2>3
  <2>5. QED
    BY <2>4 DEF z
<1>18. Climb(x, proof) = MerkleRoot(leaves)
  BY <1>9, <1>12, <1>16, <1>17
<1>19. QED
  BY <1>11, <1>18 DEF VerifyProof, proof, d

-----------------------------------------------------------------------------
(* What a proof that verifies shows. *)

\* A leaf, an inner node and the empty hash differ, and a pair has one left
\* and one right child.
LEMMA HashesDiffer ==
  ASSUME NEW x, NEW y, NEW a, NEW b, NEW e, NEW f
  PROVE  /\ Leaf(x) # Pair(a, b) /\ Leaf(x) # <<>> /\ Pair(a, b) # <<>>
         /\ Leaf(x) = Leaf(y) => x = y
         /\ Pair(a, b) = Pair(e, f) => a = e /\ b = f
<1>1. Leaf(x) # Pair(a, b) /\ Leaf(x) # <<>> /\ Pair(a, b) # <<>>
  <2>1. Len(<<x>>) = 1 /\ Len(<<a, b>>) = 2 /\ Len(<<>>) = 0
    OBVIOUS
  <2>2. QED
    BY <2>1 DEF Leaf, Pair
<1>2. Leaf(x) = Leaf(y) => x = y
  BY DEF Leaf
<1>3. Pair(a, b) = Pair(e, f) => a = e /\ b = f
  BY DEF Pair
<1>4. QED
  BY <1>1, <1>2, <1>3

\* An inner node is the pair of two nodes of the level below.
LEMMA ParentsArePairs ==
  ASSUME NEW level, IsList(level), Len(level) > 1, NEW y \in Range(Parents(level))
  PROVE  \E a, b \in Range(level) : y = Pair(a, b)
<1> DEFINE n == Len(level)
           up == Parents(level)
<1>1. n \in Nat /\ n > 1 /\ DOMAIN level = 1..n
  BY DEF IsList
<1>2. /\ IsList(up) /\ Len(up) = (n + 1) \div 2
      /\ \A k \in 1..Len(up) :
           up[k] = Pair(level[2 * k - 1], level[IF 2 * k <= n THEN 2 * k ELSE 2 * k - 1])
  BY ParentsShape
<1> HIDE DEF n, up
<1>3. PICK k \in 1..Len(up) : y = up[k]
  BY <1>2 DEF Range, IsList, up
<1> DEFINE i == 2 * k - 1
           j == IF 2 * k <= n THEN 2 * k ELSE 2 * k - 1
<1>4. i \in 1..n /\ j \in 1..n
  BY <1>1, <1>2
<1>5. y = Pair(level[i], level[j])
  BY <1>2, <1>3
<1> HIDE DEF i, j
<1>6. level[i] \in Range(level) /\ level[j] \in Range(level)
  BY <1>1, <1>4 DEF Range
<1>7. QED
  BY <1>5, <1>6

\* A node that its sibling joins to a pair is one of the two.
LEMMA JoinedIsPair ==
  ASSUME NEW y, NEW p
  PROVE  /\ \E a, b : Joined(y, p) = Pair(a, b)
         /\ \A a, b : Joined(y, p) = Pair(a, b) => y \in {a, b}
BY HashesDiffer DEF Joined

\* Only a transaction of the list can be shown to be under its root.
LEMMA VerifiedMember ==
  ASSUME NEW leaves, IsList(leaves), NEW x, NEW proof, IsList(proof),
         VerifyProof(MerkleRoot(leaves), x, proof)
  PROVE  x \in Range(leaves)
<1> DEFINE N == Len(leaves)
           L == Levels(leaves)
           d == Depth(leaves)
           m == Len(proof)
<1>1. m \in Nat /\ DOMAIN proof = 1..m
  BY DEF IsList
<1>2. PICK node : Way(node, x, proof, m)
  <2> HIDE DEF m, N, L, d
  <2>1. QED
    BY <1>1, ClimbSteps
<1> USE DEF Way
<1>3. \A k \in 1..m : \E a, b : node[k] = Pair(a, b)
  BY <1>2, JoinedIsPair
<1>4. node[m] = MerkleRoot(leaves)
  BY <1>2 DEF VerifyProof
<1>5. leaves # <<>>
  <2>1. ASSUME leaves = <<>> PROVE FALSE
    <3>1. node[m] = <<>>
      BY <1>4, <2>1 DEF MerkleRoot
    <3>2. m \in 1..m \/ m = 0
      BY <1>1
    <3>3. QED
      BY <1>2, <1>3, <3>1, <3>2, HashesDiffer
  <2>2. QED
    BY <2>1
<1>6. N \in Nat /\ d \in 0..N /\ d \in Nat /\ Len(L[d]) = 1
      /\ \A n \in 1..d : Len(L[n - 1]) > 1 /\ L[n] = Parents(L[n - 1])
  BY <1>5, DepthShape DEF IsList
<1>7. \A n \in 0..N : IsList(L[n])
  BY <1>5, LevelShapes
<1>8. L[0] = [k \in 1..N |-> Leaf(leaves[k])]
  BY LevelsRise
<1>9. DOMAIN leaves = 1..N
  BY DEF IsList
<1>10. MerkleRoot(leaves) = L[d][1]
  BY <1>5 DEF MerkleRoot
<1> HIDE DEF N, L, d, m
<1> DEFINE Q(n) == node[m - n] \in Range(L[d - n])
           T == {n \in Nat : n <= d /\ n <= m => Q(n)}
<1>11. 0 \in T
  <2>1. m - 0 = m /\ d - 0 = d
    BY <1>1, <1>6
  <2>2. IsList(L[d])
    BY <1>6, <1>7
  <2>3. DOMAIN L[d] = 1..1 /\ 1 \in 1..1
    BY <1>6, <2>2 DEF IsList
  <2>4. node[m] \in Range(L[d])
    BY <1>4, <1>10, <2>3 DEF Range
  <2>5. QED
    BY <2>1, <2>4
<1> HIDE DEF T
<1>12. ASSUME NEW n \in Nat, Q(n), n + 1 <= d, n + 1 <= m PROVE Q(n + 1)
  <2> DEFINE k == m - n
             e == d - n
             l == L[e - 1]
  <2>1. /\ k \in 1..m /\ k - 1 = m - (n + 1)
        /\ e \in 1..d /\ e - 1 = d - (n + 1) /\ e - 1 \in 0..N
    BY <1>1, <1>6, <1>12
  <2>2. node[k] = Joined(node[k - 1], proof[k])
    BY <1>2, <2>1
  <2>3. IsList(l) /\ Len(l) > 1 /\ L[e] = Parents(l)
    BY <1>6, <1>7, <2>1
  <2>4. node[k] \in Range(L[e])
    BY <1>12
  <2> HIDE DEF k, e, l
  <2>5. PICK a \in Range(l), b \in Range(l) : node[k] = Pair(a, b)
    BY <2>3, <2>4, ParentsArePairs
  <2>6. node[k - 1] \in Range(l)
    <3> DEFINE y == node[k - 1]
    <3>1. Joined(y, proof[k]) = Pair(a, b)
      BY <2>2, <2>5
    <3> HIDE DEF y
    <3>2. y \in {a, b}
      BY <3>1, JoinedIsPair
    <3>3. QED
      BY <3>2 DEF y
  <2>7. QED
    BY <2>1, <2>6 DEF l
<1> HIDE DEF Q
<1>13. T = Nat
  <2>1. T \in SUBSET Nat
    BY DEF T
  <2>2. ASSUME NEW n \in T PROVE n + 1 \in T
    <3>1. n \in Nat /\ (n <= d /\ n <= m => Q(n))
      BY DEF T
    <3>2. n + 1 <= d /\ n + 1 <= m => n <= d /\ n <= m
      BY <1>1, <1>6, <3>1
    <3>3. QED
      BY <1>12, <3>1, <3>2 DEF T
  <2>3. QED
    BY <1>11, <2>1, <2>2, SetInduction
<1>14. CASE m <= d
  <2>1. m \in T
    BY <1>1, <1>13
  <2>2. node[0] \in Range(L[d - m])
    BY <1>1, <1>14, <2>1 DEF T, Q
  <2>3. CASE m = d
    <3>1. d - m = 0
      BY <1>6, <2>3
    <3>2. Leaf(x) \in Range(L[0])
      BY <1>2, <2>2, <3>1
    <3>3. PICK i \in 1..N : Leaf(x) = Leaf(leaves[i])
      BY <1>8, <3>2 DEF Range
    <3>4. x = leaves[i]
      BY <3>3, HashesDiffer
    <3>5. QED
      BY <1>9, <3>4 DEF Range
  <2>4. CASE m # d
    <3> DEFINE e == d - m
    <3>1. e \in 1..d /\ e - 1 \in 0..N
      BY <1>1, <1>6, <1>14, <2>4
    <3>2. Leaf(x) \in Range(L[e])
      BY <1>2, <2>2
    <3> HIDE DEF e
    <3>3. IsList(L[e - 1]) /\ Len(L[e - 1]) > 1 /\ L[e] = Parents(L[e - 1])
      BY <1>6, <1>7, <3>1
    <3>4. \E a, b \in Range(L[e - 1]) : Leaf(x) = Pair(a, b)
      BY <3>2, <3>3, ParentsArePairs
    <3>5. QED
      BY <3>4, HashesDiffer
  <2>5. QED
    BY <2>3, <2>4
<1>15. CASE ~(m <= d)
  <2>1. d \in T
    BY <1>6, <1>13
  <2>2. d <= d /\ d <= m /\ d - d = 0 /\ m - d \in 1..m
    BY <1>1, <1>6, <1>15
  <2>3. node[m - d] \in Range(L[0])
    BY <2>1, <2>2 DEF T, Q
  <2>4. PICK i \in 1..N : node[m - d] = Leaf(leaves[i])
    BY <1>8, <2>3 DEF Range
  <2>5. QED
    BY <1>3, <2>2, <2>4, HashesDiffer
<1>16. QED
  BY <1>14, <1>15

-----------------------------------------------------------------------------
(* What a root says of the list. *)

\* Two lists agree as far as both go.
Agreeing(s, t) == \A i \in 1..Len(s) : i <= Len(t) => s[i] = t[i]

\* Levels agree if their parents do.
LEMMA AgreementDescends ==
  ASSUME NEW s, NEW t, IsList(s), IsList(t), Len(s) > 1, Len(t) > 1,
         Agreeing(Parents(s), Parents(t))
  PROVE  Agreeing(s, t)
<1> DEFINE m == Len(s)
           n == Len(t)
           up == Parents(s)
           vp == Parents(t)
<1>1. m \in Nat /\ n \in Nat
  BY DEF IsList
<1>2. /\ Len(up) = (m + 1) \div 2
      /\ \A k \in 1..Len(up) :
           up[k] = Pair(s[2 * k - 1], s[IF 2 * k <= m THEN 2 * k ELSE 2 * k - 1])
  BY ParentsShape
<1>3. /\ Len(vp) = (n + 1) \div 2
      /\ \A k \in 1..Len(vp) :
           vp[k] = Pair(t[2 * k - 1], t[IF 2 * k <= n THEN 2 * k ELSE 2 * k - 1])
  BY ParentsShape
<1>4. \A k \in 1..Len(up) : k <= Len(vp) => up[k] = vp[k]
  BY DEF Agreeing
<1> HIDE DEF m, n, up, vp
<1>5. ASSUME NEW i \in 1..m, i <= n PROVE s[i] = t[i]
  <2> DEFINE k == (i + 1) \div 2
  <2>1. k \in Nat /\ k >= 1 /\ k <= (m + 1) \div 2 /\ k <= (n + 1) \div 2
        /\ (i = 2 * k - 1 \/ i = 2 * k)
    BY <1>1, <1>5
  <2> HIDE DEF k
  <2>2. k \in 1..Len(up) /\ k \in 1..Len(vp) /\ k <= Len(vp)
    BY <1>1, <1>2, <1>3, <2>1
  <2>3. /\ up[k] = Pair(s[2 * k - 1], s[IF 2 * k <= m THEN 2 * k ELSE 2 * k - 1])
        /\ vp[k] = Pair(t[2 * k - 1], t[IF 2 * k <= n THEN 2 * k ELSE 2 * k - 1])
        /\ up[k] = vp[k]
    BY <1>2, <1>3, <1>4, <2>2
  <2>4. /\ s[2 * k - 1] = t[2 * k - 1]
        /\ s[IF 2 * k <= m THEN 2 * k ELSE 2 * k - 1]
             = t[IF 2 * k <= n THEN 2 * k ELSE 2 * k - 1]
    <3> DEFINE p == s[2 * k - 1]
               q == s[IF 2 * k <= m THEN 2 * k ELSE 2 * k - 1]
               v == t[2 * k - 1]
               w == t[IF 2 * k <= n THEN 2 * k ELSE 2 * k - 1]
    <3>1. Pair(p, q) = Pair(v, w)
      BY <2>3
    <3> HIDE DEF p, q, v, w
    <3>2. p = v /\ q = w
      BY <3>1, HashesDiffer
    <3>3. QED
      BY <3>2 DEF p, q, v, w
  <2>5. CASE i = 2 * k - 1
    BY <2>4, <2>5
  <2>6. CASE i = 2 * k
    <3>1. 2 * k <= m /\ 2 * k <= n
      BY <1>1, <1>5, <2>6
    <3>2. s[2 * k] = t[2 * k]
      BY <2>4, <3>1
    <3>3. QED
      BY <2>6, <3>2
  <2>7. QED
    BY <2>1, <2>5, <2>6
<1>6. QED
  BY <1>5 DEF Agreeing, m, n

\* Of two lists with one root, the levels agree, counted from the root.
LEMMA LevelsAgree ==
  ASSUME NEW a, NEW b, IsList(a), IsList(b), a # <<>>, b # <<>>,
         MerkleRoot(a) = MerkleRoot(b)
  PROVE  \A n \in Nat : n <= Depth(a) /\ n <= Depth(b) =>
           Agreeing(Levels(a)[Depth(a) - n], Levels(b)[Depth(b) - n])
<1> DEFINE A == Levels(a)
           B == Levels(b)
           d == Depth(a)
           e == Depth(b)
           Q(n) == Agreeing(A[d - n], B[e - n])
           T == {n \in Nat : n <= d /\ n <= e => Q(n)}
<1>1. /\ Len(a) \in Nat /\ d \in 0..Len(a) /\ d \in Nat /\ Len(A[d]) = 1
      /\ \A n \in 1..d : Len(A[n - 1]) > 1 /\ A[n] = Parents(A[n - 1])
  BY DepthShape DEF IsList
<1>2. /\ Len(b) \in Nat /\ e \in 0..Len(b) /\ e \in Nat /\ Len(B[e]) = 1
      /\ \A n \in 1..e : Len(B[n - 1]) > 1 /\ B[n] = Parents(B[n - 1])
  BY DepthShape DEF IsList
<1>3. \A n \in 0..Len(a) : IsList(A[n])
  BY LevelShapes
<1>4. \A n \in 0..Len(b) : IsList(B[n])
  BY LevelShapes
<1>5. A[d][1] = B[e][1]
  BY DEF MerkleRoot
<1> HIDE DEF A, B, d, e, T
<1>6. 0 \in T
  <2>1. d - 0 = d /\ e - 0 = e
    BY <1>1, <1>2
  <2>2. Agreeing(A[d], B[e])
    BY <1>1, <1>2, <1>5 DEF Agreeing
  <2>3. QED
    BY <2>1, <2>2 DEF T
<1>7. ASSUME NEW n \in Nat, Q(n), n + 1 <= d, n + 1 <= e PROVE Q(n + 1)
  <2> DEFINE i == d - n
             j == e - n
             s == A[i - 1]
             t == B[j - 1]
  <2>1. /\ i \in 1..d /\ i - 1 \in 0..Len(a) /\ i - 1 = d - (n + 1)
        /\ j \in 1..e /\ j - 1 \in 0..Len(b) /\ j - 1 = e - (n + 1)
    BY <1>1, <1>2, <1>7
  <2>2. Agreeing(A[i], B[j])
    BY <1>7
  <2>3. IsList(s) /\ Len(s) > 1 /\ A[i] = Parents(s)
    BY <1>1, <1>3, <2>1
  <2>4. IsList(t) /\ Len(t) > 1 /\ B[j] = Parents(t)
    BY <1>2, <1>4, <2>1
  <2> HIDE DEF i, j, s, t
  <2>5. Agreeing(s, t)
    BY <2>2, <2>3, <2>4, AgreementDescends
  <2>6. QED
    BY <2>1, <2>5 DEF s, t
<1> HIDE DEF Q
<1>8. T = Nat
  <2>1. T \in SUBSET Nat
    BY DEF T
  <2>2. ASSUME NEW n \in T PROVE n + 1 \in T
    <3>1. n \in Nat /\ (n <= d /\ n <= e => Q(n))
      BY DEF T
    <3>2. n + 1 <= d /\ n + 1 <= e => n <= d /\ n <= e
      BY <1>1, <1>2, <3>1
    <3>3. QED
      BY <1>7, <3>1, <3>2 DEF T
  <2>3. QED
    BY <1>6, <2>1, <2>2, SetInduction
<1>9. QED
  BY <1>8 DEF T, Q, A, B, d, e

\* The first node of a level above the leaves is a pair, that of the leaves
\* is not.
LEMMA FirstNodes ==
  ASSUME NEW a, IsList(a), a # <<>>
  PROVE  /\ Len(Levels(a)[0]) = Len(a) /\ Len(a) \in Nat /\ Len(a) >= 1
         /\ \A i \in 1..Len(a) : Levels(a)[0][i] = Leaf(a[i])
         /\ \A n \in 1..Depth(a) :
              /\ Len(Levels(a)[n]) >= 1
              /\ \E x, y : Levels(a)[n][1] = Pair(x, y)
<1> DEFINE N == Len(a)
           L == Levels(a)
           d == Depth(a)
<1>1. N \in Nat /\ N >= 1
  BY DEF IsList
<1>2. d \in 0..N /\ \A n \in 1..d : Len(L[n - 1]) > 1 /\ L[n] = Parents(L[n - 1])
  BY DepthShape
<1>3. \A n \in 0..N : IsList(L[n]) /\ Len(L[n]) >= 1
  BY LevelShapes
<1>4. L[0] = [i \in 1..N |-> Leaf(a[i])]
  BY LevelsRise
<1> HIDE DEF N, L, d
<1>5. Len(L[0]) = N
  <2>1. L[0] = [i \in 1..N |-> L[0][i]]
    BY <1>4
  <2>2. QED
    BY <1>1, <2>1, ListOfFunction
<1>6. \A i \in 1..N : L[0][i] = Leaf(a[i])
  BY <1>4
<1>7. ASSUME NEW n \in 1..d PROVE Len(L[n]) >= 1 /\ \E x, y : L[n][1] = Pair(x, y)
  <2> DEFINE l == L[n - 1]
             up == L[n]
  <2>1. n \in 0..N /\ n - 1 \in 0..N
    BY <1>1, <1>2
  <2>2. IsList(l) /\ Len(l) > 1 /\ up = Parents(l) /\ IsList(up) /\ Len(up) >= 1
    BY <1>2, <1>3, <2>1
  <2> HIDE DEF l, up
  <2>3. up[1] \in Range(up)
    BY <2>2 DEF Range, IsList
  <2>4. \E x, y : up[1] = Pair(x, y)
    BY <2>2, <2>3, ParentsArePairs
  <2>5. QED
    BY <2>2, <2>4 DEF up
<1>8. QED
  BY <1>1, <1>5, <1>6, <1>7 DEF N, L, d

\* Two lists with one root: the shorter begins the longer.
LEMMA RootBindsOrder ==
  ASSUME NEW a, NEW b, IsList(a), IsList(b), a # <<>>, b # <<>>,
         MerkleRoot(a) = MerkleRoot(b)
  PROVE  Agreeing(a, b)
<1> DEFINE A == Levels(a)
           B == Levels(b)
           d == Depth(a)
           e == Depth(b)
<1>1. d \in Nat /\ e \in Nat
  BY DepthShape DEF IsList
<1>2. \A n \in Nat : n <= d /\ n <= e => Agreeing(A[d - n], B[e - n])
  BY LevelsAgree
<1>3. /\ Len(A[0]) = Len(a) /\ Len(a) \in Nat /\ Len(a) >= 1
      /\ \A i \in 1..Len(a) : A[0][i] = Leaf(a[i])
      /\ \A n \in 1..d : Len(A[n]) >= 1 /\ \E x, y : A[n][1] = Pair(x, y)
  BY FirstNodes
<1>4. /\ Len(B[0]) = Len(b) /\ Len(b) \in Nat /\ Len(b) >= 1
      /\ \A i \in 1..Len(b) : B[0][i] = Leaf(b[i])
      /\ \A n \in 1..e : Len(B[n]) >= 1 /\ \E x, y : B[n][1] = Pair(x, y)
  BY FirstNodes
<1>5. ASSUME NEW n \in 0..d, NEW m \in 0..e, Agreeing(A[n], B[m]) PROVE A[n][1] = B[m][1]
  <2>1. n \in 1..d \/ n = 0
    BY <1>1
  <2>2. m \in 1..e \/ m = 0
    BY <1>1
  <2>3. Len(A[n]) >= 1
    BY <1>3, <2>1
  <2>4. Len(B[m]) >= 1
    BY <1>4, <2>2
  <2>5. 1 \in 1..Len(A[n])
    <3>1. Len(A[n]) \in Nat
      <4>1. n \in 0..Len(a)
        BY DepthShape DEF IsList, d
      <4>2. QED
        BY <4>1, LevelShapes DEF IsList, A
    <3>2. QED
      BY <2>3, <3>1
  <2>6. QED
    BY <1>5, <2>4, <2>5 DEF Agreeing
<1> HIDE DEF A, B, d, e
<1>6. d = e
  <2>1. ASSUME d < e PROVE FALSE
    <3>1. e - d \in 1..e /\ e - d \in 0..e /\ d - d = 0 /\ 0 \in 0..d /\ d <= e /\ d <= d
      BY <1>1, <2>1
    <3>2. Agreeing(A[0], B[e - d])
      BY <1>1, <1>2, <3>1
    <3>3. A[0][1] = B[e - d][1]
      BY <1>5, <3>1, <3>2
    <3>4. A[0][1] = Leaf(a[1])
      BY <1>3
    <3> DEFINE node == B[e - d][1]
               leaf == a[1]
    <3>5. PICK x, y : node = Pair(x, y)
      BY <1>4, <3>1
    <3>6. Leaf(leaf) = node
      BY <3>3, <3>4
    <3> HIDE DEF node, leaf
    <3>7. QED
      BY <3>5, <3>6, HashesDiffer
  <2>2. ASSUME e < d PROVE FALSE
    <3>1. d - e \in 1..d /\ d - e \in 0..d /\ e - e = 0 /\ 0 \in 0..e /\ e <= d /\ e <= e
      BY <1>1, <2>2
    <3>2. Agreeing(A[d - e], B[0])
      BY <1>1, <1>2, <3>1
    <3>3. A[d - e][1] = B[0][1]
      BY <1>5, <3>1, <3>2
    <3>4. B[0][1] = Leaf(b[1])
      BY <1>4
    <3> DEFINE node == A[d - e][1]
               leaf == b[1]
    <3>5. PICK x, y : node = Pair(x, y)
      BY <1>3, <3>1
    <3>6. Leaf(leaf) = node
      BY <3>3, <3>4
    <3> HIDE DEF node, leaf
    <3>7. QED
      BY <3>5, <3>6, HashesDiffer
  <2>3. QED
    BY <1>1, <2>1, <2>2
<1>7. Agreeing(A[0], B[0])
  <2>1. d <= d /\ d <= e /\ d - d = 0 /\ e - d = 0
    BY <1>1, <1>6
  <2>2. QED
    BY <1>1, <1>2, <2>1
<1>8. ASSUME NEW i \in 1..Len(a), i <= Len(b) PROVE a[i] = b[i]
  <2>1. i \in 1..Len(b)
    BY <1>3, <1>4, <1>8
  <2>2. A[0][i] = B[0][i]
    BY <1>3, <1>4, <1>7, <1>8 DEF Agreeing
  <2>3. Leaf(a[i]) = Leaf(b[i])
    BY <1>3, <1>4, <2>1, <2>2
  <2>4. QED
    BY <2>3, HashesDiffer
<1>9. QED
  BY <1>8 DEF Agreeing

\* Only the empty list has the empty hash for a root.
LEMMA RootOfNothing ==
  ASSUME NEW a, IsList(a), a # <<>>
  PROVE  MerkleRoot(a) # <<>>
<1> DEFINE L == Levels(a)
           d == Depth(a)
<1>1. d \in Nat
  BY DepthShape DEF IsList
<1>2. /\ Len(a) \in Nat /\ Len(a) >= 1
      /\ \A i \in 1..Len(a) : L[0][i] = Leaf(a[i])
      /\ \A n \in 1..d : \E x, y : L[n][1] = Pair(x, y)
  BY FirstNodes
<1>3. MerkleRoot(a) = L[d][1]
  BY DEF MerkleRoot
<1> HIDE DEF L, d
<1> DEFINE root == L[d][1]
<1>4. CASE d = 0
  <2>1. root = Leaf(a[1])
    BY <1>2, <1>4
  <2> HIDE DEF root
  <2>2. root # <<>>
    BY <2>1, HashesDiffer
  <2>3. QED
    BY <1>3, <2>2 DEF root
<1>5. CASE d # 0
  <2>1. d \in 1..d
    BY <1>1, <1>5
  <2>2. PICK x, y : root = Pair(x, y)
    BY <1>2, <2>1
  <2> HIDE DEF root
  <2>3. root # <<>>
    BY <2>2, HashesDiffer
  <2>4. QED
    BY <1>3, <2>3 DEF root
<1>6. QED
  BY <1>4, <1>5

\* A root has the transactions of one set under it.
LEMMA RootBindsMembersHalf ==
  ASSUME NEW a, NEW b, IsList(a), IsList(b), MerkleRoot(a) = MerkleRoot(b)
  PROVE  Range(a) \subseteq Range(b)
<1>1. ASSUME NEW x \in Range(a) PROVE x \in Range(b)
  <2> DEFINE proof == GetProof(a, x)
  <2>1. VerifyProof(MerkleRoot(b), x, proof) /\ IsList(proof)
    BY ProofVerifies
  <2> HIDE DEF proof
  <2>2. QED
    BY <2>1, VerifiedMember
<1>2. QED
  BY <1>1

\* Lists that agree as far as both go: the shorter is a prefix of the other.
LEMMA AgreeingIsPrefix ==
  ASSUME NEW S, NEW a \in Seq(S), NEW b \in Seq(S), Agreeing(a, b)
  PROVE  IsPrefix(a, b) \/ IsPrefix(b, a)
<1>1. Len(a) \in Nat /\ Len(b) \in Nat
  OBVIOUS
<1>2. CASE Len(a) <= Len(b)
  <2>1. \A i \in 1..Len(a) : a[i] = b[i]
    BY <1>1, <1>2 DEF Agreeing
  <2>2. SubSeq(a, 1, Len(a)) = SubSeq(b, 1, Len(a))
    BY <1>1, <1>2, <2>1, SameCut
  <2>3. QED
    BY <1>2, <2>2 DEF IsPrefix
<1>3. CASE ~(Len(a) <= Len(b))
  <2>1. Len(b) <= Len(a) /\ \A i \in 1..Len(b) : b[i] = a[i]
    BY <1>1, <1>3 DEF Agreeing
  <2>2. SubSeq(b, 1, Len(b)) = SubSeq(a, 1, Len(b))
    BY <1>1, <2>1, SameCut
  <2>3. QED
    BY <2>1, <2>2 DEF IsPrefix
<1>4. QED
  BY <1>2, <1>3

-----------------------------------------------------------------------------
(* The bodies of the run, however long and of whatever transactions. *)

\* A body is a list of transactions.
LEMMA BodyIsList == BodySpec => [](body \in Seq(Leaves))
<1>1. Empty => body \in Seq(Leaves)
  BY DEF Empty
<1>2. body \in Seq(Leaves) /\ [Grow]_body => (body \in Seq(Leaves))'
  BY DEF Grow
<1>3. QED
  BY <1>1, <1>2, PTL DEF BodySpec

\* getProof answers every transaction of a body with a proof that verifyProof
\* accepts, as long as the tree is high.
THEOREM ServedProofsVerify == BodySpec => []ProofsVerify
<1>1. ASSUME body \in Seq(Leaves) PROVE ProofsVerify
  <2>1. IsList(body)
    BY <1>1, SeqIsList
  <2>2. QED
    BY <2>1, ProofVerifies DEF ProofsVerify
<1>2. QED
  BY <1>1, BodyIsList, PTL

\* No proof put together from a tree's hashes, of whatever length and order,
\* is accepted for a transaction that is not in the body.
THEOREM OnlyMembersVerify == BodySpec => []VerifiedIsMember
<1>1. ASSUME body \in Seq(Leaves) PROVE VerifiedIsMember
  <2>1. IsList(body)
    BY <1>1, SeqIsList
  <2>2. ASSUME NEW proof \in Proofs PROVE IsList(proof)
    <3> DEFINE S == [hash : Nodes, isLeft : BOOLEAN]
    <3>1. PICK n \in 0..MaxProof : proof \in [1..n -> S]
      BY DEF Proofs
    <3> HIDE DEF S
    <3>2. n \in Nat /\ proof = [k \in 1..n |-> proof[k]]
      BY <3>1, BodyAssumption
    <3>3. QED
      BY <3>2, ListOfFunction
  <2>3. ASSUME NEW x, NEW proof \in Proofs, VerifyProof(MerkleRoot(body), x, proof)
        PROVE  x \in Range(body)
    BY <2>1, <2>2, <2>3, VerifiedMember
  <2> HIDE DEF Proofs
  <2>4. QED
    BY <2>3 DEF VerifiedIsMember
<1>2. QED
  BY <1>1, BodyIsList, PTL

\* Bodies with the same root have the same transactions, in the same order
\* but for repetitions at the end of the longer.
THEOREM RootBinds == BodySpec => []RootBindsMembers
<1>1. ASSUME body \in Seq(Leaves) PROVE RootBindsMembers
  <2>1. ASSUME NEW n \in 0..MaxLeaves, NEW other \in [1..n -> Leaves],
               MerkleRoot(other) = MerkleRoot(body)
        PROVE  /\ Range(other) = Range(body)
               /\ IsPrefix(other, body) \/ IsPrefix(body, other)
    <3>1. n \in Nat
      BY BodyAssumption
    <3>2. other \in Seq(Leaves)
      BY <3>1
    <3>3. IsList(body) /\ IsList(other)
      BY <1>1, <3>2, SeqIsList
    <3>4. Range(other) = Range(body)
      <4>1. Range(other) \subseteq Range(body)
        BY <2>1, <3>3, RootBindsMembersHalf
      <4>2. Range(body) \subseteq Range(other)
        BY <2>1, <3>3, RootBindsMembersHalf
      <4>3. QED
        BY <4>1, <4>2
    <3>5. body = <<>> <=> other = <<>>
      BY <2>1, <3>3, RootOfNothing DEF MerkleRoot
    <3>6. Agreeing(other, body)
      <4>1. CASE other = <<>>
        BY <4>1 DEF Agreeing
      <4>2. CASE other # <<>>
        BY <2>1, <3>3, <3>5, <4>2, RootBindsOrder
      <4>3. QED
        BY <4>1, <4>2
    <3>7. IsPrefix(other, body) \/ IsPrefix(body, other)
      BY <1>1, <3>2, <3>6, AgreeingIsPrefix
    <3>8. QED
      BY <3>4, <3>7
  <2>2. QED
    BY <2>1 DEF RootBindsMembers
<1>2. QED
  BY <1>1, BodyIsList, PTL

-----------------------------------------------------------------------------
(* The chain of the node that the client asks. *)

\* The chain's invariant does not depend on the client.
LEMMA ChainInvStays ==
  ASSUME ChainInv, [Next]_vars
  PROVE  ChainInv'
<1>1. CASE chain' = chain
  <2>1. ChainTypeOK' /\ ChainLinked'
    BY <1>1 DEF ChainInv, ChainTypeOK, ChainLinked, IsBlock, IsList, Genesis, Hash
  <2>2. Hashed(chain') /\ Rooted(chain')
    BY <1>1 DEF ChainInv
  <2>3. Hashed(chain)' /\ Rooted(chain)'
    BY <2>2 DEF Hashed, Rooted, Header, Genesis, Hash, IsList, MerkleRoot, Levels, Depth
  <2>4. QED
    BY <2>1, <2>3 DEF ChainInv
<1>2. CASE ChainNext
  BY <1>2, ChainInvStep
<1>3. QED
  BY <1>1, <1>2 DEF Next, ClientStep, FetchHeaders, FetchProof, FailRequest, Check, vars

\* It holds in every run.
LEMMA ChainInvAlways == Spec => []ChainInv
<1>1. Init => ChainInv
  BY ChainInvInit DEF Init
<1>2. ChainInv /\ [Next]_vars => ChainInv'
  BY ChainInvStays
<1>3. QED
  BY <1>1, <1>2, PTL DEF Spec

\* The latest hash seals every header of the chain and the roots of all its
\* bodies, whatever was mined, received or adopted.
THEOREM TipAlwaysSeals == Spec => []TipSealsChain
<1>1. ChainInv => TipSealsChain
  BY TipSeals DEF ChainInv
<1>2. QED
  BY <1>1, ChainInvAlways, PTL

\* A chain is never rewritten at its own length: every step appends one block
\* or replaces the chain by a longer one that derives.
THEOREM ChainOnlyGrows == Spec => OnlyGrows
<1> DEFINE Grows == \/ Len(chain') = Len(chain) + 1 /\ SubSeq(chain', 1, Len(chain)) = chain
                    \/ Len(chain') > Len(chain) /\ Derivable(chain')
<1>1. ChainInv /\ [Next]_vars => [Grows]_chain
  <2> SUFFICES ASSUME ChainInv, [Next]_vars, chain' # chain PROVE Grows
    OBVIOUS
  <2>1. ChainNext
    BY DEF Next, ClientStep, FetchHeaders, FetchProof, FailRequest, Check, vars
  <2>2. QED
    BY <2>1, StepGrows
<1> HIDE DEF Grows
<1>2. Spec => [][Grows]_chain
  BY <1>1, ChainInvAlways, PTL DEF Spec
<1>3. QED
  BY <1>2 DEF OnlyGrows, Grows

-----------------------------------------------------------------------------
(* The client. *)

\* A chain that can answer: what the chain's invariant says of it.
Snapshot(c) ==
  /\ IsList(c) /\ c # <<>> /\ \A i \in DOMAIN c : IsBlock(c[i])
  /\ Hashed(c) /\ Rooted(c)

\* The headers are those of a chain the node had.
HeadersSeen == Snapshot(seen) /\ headers = [i \in DOMAIN seen |-> HeaderOf(seen[i])]

\* The answer to /proof about the transaction x: what crow leaves of it, a
\* proof of x itself under the root it names, and the hash of a block past
\* the genesis block that ends in a header with this root.
Answer(p, x, id) ==
  /\ p.txn = Wire(x) /\ p.txn.id = id
  /\ IsList(p.proof) /\ VerifyProof(p.root, x, p.proof)
  /\ IsList(p.block) /\ Len(p.block) >= 2 /\ p.block[Len(p.block)].root = p.root

\* The first of the elements of a list that pass a test, by its index.
LEMMA FirstOfSet ==
  ASSUME NEW U \in SUBSET Nat, U # {}
  PROVE  Min(U) \in U /\ \A k \in U : Min(U) <= k
BY LeastElement DEF Min

\* A transaction keeps its id on the way.
LEMMA WireKeepsId ==
  ASSUME NEW t \in Txn
  PROVE  Wire(t).id = t.id
<1>1. t \in TxnRecord
  BY TxnAssumption
<1> DEFINE n == SixDecimals(t.amount)
<1> HIDE DEF n
<1>2. [t EXCEPT !.amount = n, !.signer = NoAddr].id = t.id
  BY <1>1 DEF TxnRecord
<1>3. Wire(t) = t \/ Wire(t) = [t EXCEPT !.amount = n, !.signer = NoAddr]
  BY <1>1 DEF Wire, n
<1>4. QED
  BY <1>2, <1>3

\* What the node answers while its chain is what it should be.
LEMMA NodeAnswers ==
  ASSUME Snapshot(chain), NEW id, Holding(id) # {}
  PROVE  Answer(ProofAnswer(id), FoundTxn(id), id)
<1> DEFINE n == Len(chain)
           k == CHOOSE i \in Holding(id) : \A j \in Holding(id) : i <= j
           blk == chain[k]
           txs == blk.txns
           I == {j \in 1..Len(txs) : txs[j].id = id}
           x == FoundTxn(id)
<1>1. n \in Nat /\ DOMAIN chain = 1..n
  BY DEF Snapshot, IsList
<1>2. k \in Holding(id)
  <2>1. Holding(id) \in SUBSET Nat
    BY <1>1 DEF Holding
  <2>2. QED
    BY <2>1, LeastElement
<1>3. k \in 1..n /\ \E t \in Range(txs) : t.id = id
  BY <1>1, <1>2 DEF Holding
<1>4. blk = FoundIn(id)
  BY DEF FoundIn
<1> HIDE DEF k
<1>5. IsBlock(blk)
  BY <1>1, <1>3 DEF Snapshot
<1>6. IsList(txs) /\ Len(txs) \in Nat /\ DOMAIN txs = 1..Len(txs) /\ Range(txs) \subseteq Txn
  <2>1. txs \in Seq(Txn)
    BY <1>5 DEF IsBlock
  <2>2. IsList(txs)
    BY <2>1, SeqIsList
  <2> HIDE DEF txs
  <2>3. Range(txs) \subseteq Txn
    BY <2>1 DEF Range
  <2>4. QED
    BY <2>1, <2>2, <2>3
<1>7. k # 1
  <2>1. ASSUME k = 1 PROVE FALSE
    <3>1. txs = <<>>
      BY <2>1 DEF Snapshot, Hashed, Genesis
    <3>2. Range(txs) = {}
      BY <3>1 DEF Range
    <3>3. QED
      BY <1>3, <3>2
  <2>2. QED
    BY <2>1
<1>8. x = txs[IF I # {} THEN Min(I) ELSE 0]
  BY <1>4 DEF FoundTxn, SelectInSeq
<1>9. blk.root = MerkleRoot(txs)
  BY <1>1, <1>3, <1>7 DEF Snapshot, Rooted
<1>10. IsList(blk.hash) /\ Len(blk.hash) = k /\ blk.hash[k] = Header(blk)
  <2>1. Sealed(chain)
    BY <1>1, HashedIsSealed DEF Snapshot
  <2>2. k \in 1..k
    BY <1>1, <1>3
  <2>3. QED
    BY <1>3, <2>1, <2>2 DEF Sealed
<1>11. ProofAnswer(id) = [txn |-> Wire(x), root |-> blk.root, block |-> blk.hash,
                          proof |-> GetProof(txs, x)]
  BY <1>4 DEF ProofAnswer
<1> HIDE DEF blk, txs, x, I, n
<1>12. I # {} /\ I \in SUBSET Nat
  BY <1>3, <1>6 DEF I, Range
<1>13. x \in Range(txs) /\ x.id = id
  <2>1. Min(I) \in I /\ x = txs[Min(I)]
    BY <1>8, <1>12, FirstOfSet
  <2>2. QED
    BY <1>6, <2>1 DEF I, Range
<1>14. VerifyProof(blk.root, x, GetProof(txs, x)) /\ IsList(GetProof(txs, x))
  BY <1>6, <1>9, <1>13, ProofVerifies
<1>15. Len(blk.hash) >= 2 /\ blk.hash[Len(blk.hash)].root = blk.root
  BY <1>1, <1>3, <1>7, <1>10 DEF Header
<1>16. Wire(x).id = id
  BY <1>6, <1>13, WireKeepsId
<1>17. Answer(ProofAnswer(id), x, id)
  BY <1>10, <1>11, <1>14, <1>15, <1>16 DEF Answer
<1>18. QED
  BY <1>17 DEF x

\* A header that matches the answer is that of a block with the transaction
\* in its txs.
LEMMA MatchIncludes ==
  ASSUME NEW c, Snapshot(c), NEW p, NEW x, NEW id, Answer(p, x, id), NEW i \in DOMAIN c,
         VerifyProof(p.root, p.txn, p.proof),
         c[i].hash = p.block, c[i].root = p.root
  PROVE  p.txn \in Range(c[i].txns)
<1> DEFINE n == Len(c)
<1>1. n \in Nat /\ i \in 1..n
  BY DEF Snapshot, IsList
<1>2. Sealed(c)
  BY <1>1, HashedIsSealed DEF Snapshot
<1>3. i # 1
  <2>1. Len(c[i].hash) = i
    BY <1>1, <1>2 DEF Sealed
  <2>2. QED
    BY <2>1 DEF Answer
<1>4. p.root = MerkleRoot(c[i].txns)
  BY <1>1, <1>3 DEF Snapshot, Rooted
<1>5. IsList(c[i].txns)
  BY SeqIsList DEF Snapshot, IsBlock
<1>6. QED
  BY <1>4, <1>5, VerifiedMember DEF Answer

\* An answer whose block is an ancestor of the newest header seen has its
\* header among those seen.
LEMMA AncestorMatches ==
  ASSUME NEW c, Snapshot(c), NEW p, NEW x, NEW id, Answer(p, x, id),
         IsPrefix(p.block, c[Len(c)].hash)
  PROVE  \E i \in DOMAIN c : c[i].hash = p.block /\ c[i].root = p.root
<1> DEFINE n == Len(c)
           k == Len(p.block)
           s == p.block
           t == c[n].hash
           r == c[k].hash
           S == Range(s) \cup Range(t) \cup Range(r)
<1>1. n \in Nat \ {0} /\ DOMAIN c = 1..n
  <2>1. c \in Seq(Range(c)) /\ c # <<>>
    BY DEF Snapshot, IsList
  <2>2. QED
    BY <2>1, EmptySeq
<1>2. Sealed(c)
  BY <1>1, HashedIsSealed DEF Snapshot
<1>3. IsList(t) /\ Len(t) = n /\ \A j \in 1..n : t[j] = Header(c[j])
  BY <1>1, <1>2 DEF Sealed
<1>4. IsList(s) /\ k \in Nat /\ k >= 2 /\ s[k].root = p.root
  BY DEF Answer, IsList
<1>5. k <= n /\ SubSeq(s, 1, k) = SubSeq(t, 1, k)
  BY <1>3 DEF IsPrefix
<1>6. k \in 1..n
  BY <1>1, <1>4, <1>5
<1>7. IsList(r) /\ Len(r) = k /\ \A j \in 1..k : r[j] = Header(c[j])
  BY <1>2, <1>6 DEF Sealed
<1> HIDE DEF n, k, s, t, r
<1>8. s \in Seq(S) /\ t \in Seq(S) /\ r \in Seq(S)
  BY <1>3, <1>4, <1>7 DEF IsList
<1> HIDE DEF S
<1>9. \A j \in 1..k : s[j] = t[j]
  BY <1>3, <1>4, <1>5, <1>8, SameCut DEF k, s
<1>10. \A j \in 1..k : s[j] = r[j]
  BY <1>1, <1>3, <1>6, <1>7, <1>9
<1>11. s = r
  <2>1. Len(s) = Len(r) /\ \A j \in 1..Len(s) : s[j] = r[j]
    BY <1>7, <1>10 DEF k, s
  <2>2. QED
    BY <1>8, <2>1, SeqEqual
<1>12. c[k].root = p.root
  <2>1. k \in 1..k
    BY <1>4
  <2>2. s[k] = Header(c[k])
    BY <1>7, <1>10, <2>1
  <2>3. QED
    BY <1>4, <2>2 DEF Header
<1>13. QED
  BY <1>1, <1>6, <1>11, <1>12 DEF r, s

\* The client's invariant: at each step it holds what the node sent, and what
\* it has concluded is true.
LightInv ==
  /\ ChainInv
  /\ at \in {"headers", "proof", "check", "done"}
  /\ at # "done" => verdict = "none"
  /\ at \in {"proof", "check"} => HeadersSeen
  /\ at = "check" => Answer(payload, found, txId)
  /\ PassMeansIncluded /\ NoFalseAlarm

\* The comparison of the header, and what it shows either way.
LEMMA CheckShows ==
  ASSUME LightInv, Check
  PROVE  PassMeansIncluded' /\ NoFalseAlarm'
<1> DEFINE h == [hash |-> payload.block, root |-> payload.root]
<1> DEFINE Verifies == VerifyProof(payload.root, payload.txn, payload.proof)
<1>1. /\ HeadersSeen /\ Answer(payload, found, txId) /\ payload' = payload /\ seen' = seen
      /\ txId' = txId /\ found' = found
  BY DEF Check, LightInv
<1>2. Wire(found) # found \/ Verifies
  BY <1>1 DEF Answer
<1>3. verdict' = IF ~Verifies THEN "merkle" ELSE IF Matches(h) THEN "pass" ELSE "header"
  BY DEF Check, Finish
<1> HIDE DEF Verifies
<1>4. Matches(h) <=> \E i \in DOMAIN seen : /\ seen[i].hash = payload.block
                                          /\ seen[i].root = payload.root
  <2>1. DOMAIN headers = DOMAIN seen
        /\ \A i \in DOMAIN seen : headers[i] = [hash |-> seen[i].hash, root |-> seen[i].root]
    BY <1>1 DEF HeadersSeen, HeaderOf
  <2>2. Matches(h) <=> \E i \in DOMAIN headers : headers[i] = h
    BY DEF Matches, Range
  <2>3. \A i \in DOMAIN seen : headers[i] = h <=> /\ seen[i].hash = payload.block
                                                  /\ seen[i].root = payload.root
    BY <2>1
  <2>4. QED
    BY <2>1, <2>2, <2>3
<1>5. CASE Verifies /\ Matches(h)
  <2>1. PICK i \in DOMAIN seen : seen[i].hash = payload.block /\ seen[i].root = payload.root
    BY <1>4, <1>5
  <2>2. payload.txn \in Range(seen[i].txns)
    BY <1>1, <1>5, <2>1, MatchIncludes DEF HeadersSeen, Verifies
  <2>3. payload.txn.id = txId
    BY <1>1 DEF Answer
  <2>4. verdict' = "pass"
    BY <1>3, <1>5
  <2>5. QED
    BY <1>1, <2>1, <2>2, <2>3, <2>4 DEF PassMeansIncluded, NoFalseAlarm, Range
<1>6. CASE Verifies /\ ~Matches(h)
  <2>1. ~IsPrefix(payload.block, seen[Len(seen)].hash)
    BY <1>1, <1>4, <1>6, AncestorMatches DEF HeadersSeen
  <2>2. verdict' = "header"
    BY <1>3, <1>6
  <2>3. QED
    BY <1>1, <2>1, <2>2 DEF PassMeansIncluded, NoFalseAlarm, IsPrefix
<1>7. CASE ~Verifies
  <2>1. verdict' = "merkle" /\ Wire(found) # found
    BY <1>2, <1>3, <1>7
  <2>2. QED
    BY <1>1, <2>1 DEF PassMeansIncluded, NoFalseAlarm, Wire, SixDecimals
<1>8. QED
  BY <1>5, <1>6, <1>7

\* What has been seen and answered stays what it is.
LEMMA SeenStays ==
  ASSUME Snapshot(seen'), headers' = [i \in DOMAIN seen' |-> HeaderOf(seen'[i])]
  PROVE  HeadersSeen'
BY DEF HeadersSeen, HeaderOf, Snapshot, Hashed, Rooted, Header, Genesis, Hash, IsList, IsBlock,
       MerkleRoot, Levels, Depth

\* So does the answer.
LEMMA AnswerStays ==
  ASSUME Answer(payload', found', txId')
  PROVE  Answer(payload, found, txId)'
BY DEF Answer, Wire, SixDecimals, IsList, VerifyProof, Climb, FoldLeft, MapThenFoldSet

\* The verdict of a run that has ended stays true.
LEMMA VerdictStays ==
  ASSUME PassMeansIncluded, NoFalseAlarm, client' = client
  PROVE  PassMeansIncluded' /\ NoFalseAlarm'
BY DEF PassMeansIncluded, NoFalseAlarm, client, IsPrefix, Range, Wire, SixDecimals

\* Before the verdict there is nothing to show.
LEMMA NoVerdict ==
  ASSUME verdict' \in {"none", "error"}
  PROVE  PassMeansIncluded' /\ NoFalseAlarm'
BY DEF PassMeansIncluded, NoFalseAlarm

\* The light client's invariant is inductive.
LEMMA LightInvStep ==
  ASSUME LightInv, [Next]_vars
  PROVE  LightInv'
<1>1. ChainInv'
  BY ChainInvStays DEF LightInv
<1>2. Snapshot(chain)
  BY DEF LightInv, ChainInv, ChainTypeOK, ChainLinked, Snapshot
<1>3. CASE client' = client
  <2>1. at' = at /\ verdict' = verdict /\ seen' = seen /\ headers' = headers
        /\ payload' = payload /\ txId' = txId /\ found' = found
    BY <1>3 DEF client
  <2>2. at \in {"proof", "check"} => HeadersSeen'
    BY <2>1, SeenStays DEF LightInv, HeadersSeen
  <2>3. at = "check" => Answer(payload, found, txId)'
    BY <2>1, AnswerStays DEF LightInv
  <2>4. PassMeansIncluded' /\ NoFalseAlarm'
    BY <1>3, VerdictStays DEF LightInv
  <2>5. QED
    BY <1>1, <2>1, <2>2, <2>3, <2>4 DEF LightInv
<1>4. CASE FetchHeaders
  <2>1. /\ at' = "proof" /\ verdict' = verdict /\ verdict = "none" /\ seen' = chain
        /\ headers' = [i \in DOMAIN chain |-> HeaderOf(chain[i])]
    BY <1>4 DEF FetchHeaders, LightInv
  <2>2. HeadersSeen'
    BY <1>2, <2>1, SeenStays
  <2>3. PassMeansIncluded' /\ NoFalseAlarm'
    BY <2>1, NoVerdict
  <2>4. QED
    BY <1>1, <2>1, <2>2, <2>3 DEF LightInv
<1>5. CASE FetchProof
  <2>1. /\ at' = "check" /\ verdict' = verdict /\ verdict = "none" /\ HeadersSeen
        /\ seen' = seen /\ headers' = headers /\ txId' = txId
        /\ payload' = ProofAnswer(txId) /\ found' = FoundTxn(txId) /\ Holding(txId) # {}
    BY <1>5 DEF FetchProof, LightInv
  <2>2. HeadersSeen'
    BY <2>1, SeenStays DEF HeadersSeen
  <2>3. Answer(payload, found, txId)'
    BY <1>2, <2>1, NodeAnswers, AnswerStays
  <2>4. PassMeansIncluded' /\ NoFalseAlarm'
    BY <2>1, NoVerdict
  <2>5. QED
    BY <1>1, <2>1, <2>2, <2>3, <2>4 DEF LightInv
<1>6. CASE FailRequest
  <2>1. at' = "done" /\ verdict' = "error"
    BY <1>6 DEF FailRequest, Finish
  <2>2. PassMeansIncluded' /\ NoFalseAlarm'
    BY <2>1, NoVerdict
  <2>3. QED
    BY <1>1, <2>1, <2>2 DEF LightInv
<1>7. CASE Check
  <2>1. at' = "done"
    BY <1>7 DEF Check, Finish
  <2>2. PassMeansIncluded' /\ NoFalseAlarm'
    BY <1>7, CheckShows
  <2>3. QED
    BY <1>1, <2>1, <2>2 DEF LightInv
<1>8. QED
  BY <1>3, <1>4, <1>5, <1>6, <1>7 DEF Next, ClientStep, vars, client

\* It holds in every run.
LEMMA LightInvAlways == Spec => []LightInv
<1>1. Init => LightInv
  BY ChainInvInit DEF Init, LightInv, PassMeansIncluded, NoFalseAlarm
<1>2. LightInv /\ [Next]_vars => LightInv'
  BY LightInvStep
<1>3. QED
  BY <1>1, <1>2, PTL DEF Spec

\* A transaction that the client passes was in the body of a block on the
\* node's chain when the headers were served, whatever the chain became
\* before the proof was.
THEOREM PassIsInclusion == Spec => []PassMeansIncluded
<1>1. LightInv => PassMeansIncluded
  BY DEF LightInv
<1>2. QED
  BY <1>1, LightInvAlways, PTL

\* An answer of the node fails the Merkle comparison only if crow changes
\* the amount of the transaction, and one is turned down for its header only
\* if its block is no ancestor of the newest header the client saw.
THEOREM NoneTurnedDownWrongly == Spec => []NoFalseAlarm
<1>1. LightInv => NoFalseAlarm
  BY DEF LightInv
<1>2. QED
  BY <1>1, LightInvAlways, PTL
=============================================================================
