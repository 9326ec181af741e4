----------------------- MODULE IndexSerializationProofs -----------------------
(***************************************************************************)
(* What serializing an index and building it again makes of it: whatever   *)
(* the keys, the leaves and the order of the children in memory, the same  *)
(* trie.                                                                   *)
(***************************************************************************)
EXTENDS IndexSerialization, FiniteSetTheorems, WellFoundedInduction, TLAPS

\* A set of natural numbers that is not empty has a least element: induction for sets,
\* which needs no operator for its hypothesis.
LEMMA LeastNumber ==
  ASSUME NEW T, T \subseteq Nat, T # {}
  PROVE  \E m \in T : \A n \in T : m <= n
<1>1. PICK m \in T : \A n \in T : ~(<<n, m>> \in OpToRel(<, Nat))
  BY NatLessThanWellFounded, WFMin
<1>2. ASSUME NEW n \in T PROVE m <= n
  <2>1. m \in Nat /\ n \in Nat /\ ~(<<n, m>> \in OpToRel(<, Nat))
    BY <1>1
  <2> QED BY <2>1 DEF OpToRel
<1> QED BY <1>2

(***************************************************************************)
(* The first characters of a path.                                         *)
(***************************************************************************)
Path == Seq(STRING)

Prefix(path, n) == SubSeq(path, 1, n)

LEMMA PrefixType ==
  ASSUME NEW p \in Path, NEW n \in 0 .. Len(p)
  PROVE  /\ Prefix(p, n) \in Path /\ Len(Prefix(p, n)) = n
         /\ \A i \in 1 .. n : Prefix(p, n)[i] = p[i]
BY DEF Prefix, Path

LEMMA SamePaths ==
  ASSUME NEW p \in Path, NEW q \in Path, Len(p) = Len(q),
         \A i \in 1 .. Len(p) : p[i] = q[i]
  PROVE  p = q
BY DEF Path

LEMMA PrefixOfPrefix ==
  ASSUME NEW p \in Path, NEW n \in 0 .. Len(p), NEW m \in 0 .. n
  PROVE  Prefix(Prefix(p, n), m) = Prefix(p, m)
<1>1. Len(p) \in Nat /\ m \in 0 .. Len(p)
  BY DEF Path
<1>2. Prefix(p, n) \in Path /\ Len(Prefix(p, n)) = n /\ \A i \in 1 .. n : Prefix(p, n)[i] = p[i]
  BY PrefixType
<1>3. Prefix(p, m) \in Path /\ Len(Prefix(p, m)) = m /\ \A i \in 1 .. m : Prefix(p, m)[i] = p[i]
  BY <1>1, PrefixType
<1>4. /\ Prefix(Prefix(p, n), m) \in Path /\ Len(Prefix(Prefix(p, n), m)) = m
      /\ \A i \in 1 .. m : Prefix(Prefix(p, n), m)[i] = Prefix(p, n)[i]
  BY <1>2, PrefixType
<1>5. \A i \in 1 .. m : i \in 1 .. n
  OBVIOUS
<1> QED BY <1>2, <1>3, <1>4, <1>5, SamePaths

LEMMA WholePrefix == \A p \in Path : Prefix(p, Len(p)) = p /\ Prefix(p, 0) = <<>>
<1> SUFFICES ASSUME NEW p \in Path PROVE Prefix(p, Len(p)) = p /\ Prefix(p, 0) = <<>>
  OBVIOUS
<1>1. Len(p) \in Nat
  BY DEF Path
<1>2. Prefix(p, Len(p)) = p
  BY <1>1, PrefixType, SamePaths
<1>3. Prefix(p, 0) = <<>>
  BY <1>1 DEF Prefix, Path
<1> QED BY <1>2, <1>3

\* A path is its parent and a character more.
LEMMA ParentOfPath ==
  ASSUME NEW p \in Path, p # <<>>
  PROVE  /\ Len(p) \in Nat \ {0} /\ Parent(p) = Prefix(p, Len(p) - 1)
         /\ Parent(p) \in Path /\ Len(Parent(p)) = Len(p) - 1
         /\ p = Append(Parent(p), p[Len(p)])
<1>1. Len(p) \in Nat \ {0}
  BY DEF Path
<1>2. Parent(p) = Prefix(p, Len(p) - 1) /\ Len(p) - 1 \in 0 .. Len(p)
  BY <1>1 DEF Parent, Prefix
<1>3. /\ Parent(p) \in Path /\ Len(Parent(p)) = Len(p) - 1
      /\ \A i \in 1 .. Len(p) - 1 : Parent(p)[i] = p[i]
  BY <1>2, PrefixType
<1>4. p[Len(p)] \in STRING
  BY <1>1 DEF Path
<1>5. /\ Append(Parent(p), p[Len(p)]) \in Path /\ Len(Append(Parent(p), p[Len(p)])) = Len(p)
      /\ \A i \in 1 .. Len(p) : Append(Parent(p), p[Len(p)])[i] = p[i]
  BY <1>1, <1>3, <1>4 DEF Path
<1>6. p = Append(Parent(p), p[Len(p)])
  BY <1>5, SamePaths
<1> QED BY <1>1, <1>2, <1>3, <1>6

(***************************************************************************)
(* A trie: finitely many paths, with every one those on the way to it, and *)
(* no leaf at the root.                                                    *)
(***************************************************************************)
IsTrie(trie) ==
  /\ DOMAIN trie \subseteq Path /\ IsFiniteSet(DOMAIN trie)
  /\ trie = [p \in DOMAIN trie |-> trie[p]]
  /\ <<>> \in DOMAIN trie /\ trie[<<>>] = NonExistLeaf
  /\ \A p \in DOMAIN trie : \A n \in 0 .. Len(p) : Prefix(p, n) \in DOMAIN trie

Siblings(trie, p) ==
  {q \in DOMAIN trie \ {<<>>} : Len(q) = Len(p) /\ Parent(q) = Parent(p)}

LEMMA PlacesOfNodes ==
  ASSUME NEW trie, IsTrie(trie), NEW place \in Places(trie)
  PROVE  /\ \A p \in DOMAIN trie \ {<<>>} : place[p] \in Int
         /\ \A p, q \in DOMAIN trie \ {<<>>} :
              p # q /\ Len(p) = Len(q) /\ Parent(p) = Parent(q) => place[p] # place[q]
<1> DEFINE nodes == DOMAIN trie \ {<<>>}
           most == {Cardinality(Siblings(trie, p)) : p \in nodes}
<1>1. /\ place \in [nodes -> UNION {1 .. n : n \in most}]
      /\ \A p \in nodes : \A q \in Siblings(trie, p) \ {p} : place[p] # place[q]
  BY DEF Places, Siblings
<1>2. \A n \in most : n \in Nat
  <2>1. IsFiniteSet(DOMAIN trie)
    BY DEF IsTrie
  <2>2. \A p \in nodes : Siblings(trie, p) \in SUBSET DOMAIN trie
    BY DEF Siblings
  <2>3. \A p \in nodes : IsFiniteSet(Siblings(trie, p))
    BY <2>1, <2>2, FS_Subset
  <2> QED BY <2>3, FS_CardinalityType
<1>3. \A i \in UNION {1 .. n : n \in most} : i \in Int
  <2> HIDE DEF most
  <2> QED BY <1>2
<1>4. \A p \in nodes : place[p] \in Int
  BY <1>1, <1>3
<1>5. \A p, q \in nodes :
        p # q /\ Len(p) = Len(q) /\ Parent(p) = Parent(q) => place[p] # place[q]
  BY <1>1 DEF Siblings
<1> QED BY <1>4, <1>5

(***************************************************************************)
(* The breadth-first search visits the nodes in a strict total order that  *)
(* goes from one level to the next.                                        *)
(***************************************************************************)
Differ(place, p, q, n) ==
  /\ Prefix(p, n - 1) = Prefix(q, n - 1)
  /\ place[Prefix(p, n)] < place[Prefix(q, n)]

Before(place, p, q) ==
  \/ Len(p) < Len(q)
  \/ Len(p) = Len(q) /\ \E n \in 1 .. Len(p) : Differ(place, p, q, n)

LEMMA PrefixNodes ==
  ASSUME NEW trie, IsTrie(trie), NEW p \in DOMAIN trie, NEW n \in 1 .. Len(p)
  PROVE  /\ Prefix(p, n) \in DOMAIN trie \ {<<>>} /\ Len(Prefix(p, n)) = n
         /\ Parent(Prefix(p, n)) = Prefix(p, n - 1)
<1>1. p \in Path /\ Len(p) \in Nat /\ n \in 0 .. Len(p) /\ n - 1 \in 0 .. n /\ n \in Nat
  BY DEF IsTrie, Path
<1>2. Prefix(p, n) \in DOMAIN trie
  BY <1>1 DEF IsTrie
<1>3. Prefix(p, n) \in Path /\ Len(Prefix(p, n)) = n
  BY <1>1, PrefixType
<1>4. Prefix(p, n) # <<>>
  <2>1. Len(<<>>) = 0
    OBVIOUS
  <2> QED BY <1>3, <2>1
<1>5. Parent(Prefix(p, n)) = Prefix(Prefix(p, n), n - 1)
  BY <1>3, <1>4, ParentOfPath
<1> QED BY <1>1, <1>2, <1>3, <1>4, <1>5, PrefixOfPrefix

\* Paths that share n characters share the first m of them.
LEMMA SharedPrefix ==
  ASSUME NEW p \in Path, NEW q \in Path, NEW n \in 0 .. Len(p), Len(p) = Len(q),
         Prefix(p, n) = Prefix(q, n), NEW m \in 0 .. n
  PROVE  Prefix(p, m) = Prefix(q, m)
BY PrefixOfPrefix

LEMMA BeforeIsTotal ==
  ASSUME NEW trie, IsTrie(trie), NEW place \in Places(trie),
         NEW p \in DOMAIN trie, NEW q \in DOMAIN trie, p # q
  PROVE  Before(place, p, q) \/ Before(place, q, p)
<1>1. p \in Path /\ q \in Path /\ Len(p) \in Nat /\ Len(q) \in Nat
  BY DEF IsTrie, Path
<1>2. CASE Len(p) # Len(q)
  BY <1>1, <1>2 DEF Before
<1>3. CASE Len(p) = Len(q)
  <2> DEFINE T == {n \in 0 .. Len(p) : Prefix(p, n) # Prefix(q, n)}
  <2>1. T \subseteq Nat /\ Len(p) \in T
    BY <1>1, <1>3, WholePrefix
  <2>2. PICK n \in T : \A m \in T : n <= m
    <3> HIDE DEF T
    <3> QED BY <2>1, LeastNumber
  <2>3. n \in 1 .. Len(p) /\ Prefix(p, n) # Prefix(q, n)
    <3>1. Prefix(p, 0) = Prefix(q, 0)
      BY <1>1, WholePrefix
    <3>2. n \in 0 .. Len(p) /\ Prefix(p, n) # Prefix(q, n)
      BY <2>2
    <3> QED BY <1>1, <3>1, <3>2
  <2>4. Prefix(p, n - 1) = Prefix(q, n - 1)
    <3>1. n - 1 \in 0 .. Len(p) /\ ~(n <= n - 1)
      BY <1>1, <2>3
    <3>2. n - 1 \notin T
      <4> HIDE DEF T
      <4> QED BY <2>2, <3>1
    <3> QED BY <3>1, <3>2
  <2>5. n \in 1 .. Len(q)
    BY <1>3, <2>3
  <2>6. place[Prefix(p, n)] # place[Prefix(q, n)]
    BY <2>3, <2>4, <2>5, PrefixNodes, PlacesOfNodes
  <2>7. place[Prefix(p, n)] \in Int /\ place[Prefix(q, n)] \in Int
    BY <2>3, <2>5, PrefixNodes, PlacesOfNodes
  <2>8. Differ(place, p, q, n) \/ Differ(place, q, p, n)
    BY <2>4, <2>6, <2>7 DEF Differ
  <2> QED BY <1>3, <2>3, <2>5, <2>8 DEF Before
<1> QED BY <1>2, <1>3

LEMMA BeforeIsTransitive ==
  ASSUME NEW trie, IsTrie(trie), NEW place \in Places(trie),
         NEW p \in DOMAIN trie, NEW q \in DOMAIN trie, NEW r \in DOMAIN trie,
         Before(place, p, q), Before(place, q, r)
  PROVE  Before(place, p, r)
<1>1. /\ p \in Path /\ q \in Path /\ r \in Path
      /\ Len(p) \in Nat /\ Len(q) \in Nat /\ Len(r) \in Nat
  BY DEF IsTrie, Path
<1>2. CASE Len(p) # Len(q) \/ Len(q) # Len(r)
  BY <1>1, <1>2 DEF Before
<1>3. CASE Len(p) = Len(q) /\ Len(q) = Len(r)
  <2>1. PICK n \in 1 .. Len(p) : Differ(place, p, q, n)
    BY <1>1, <1>3 DEF Before
  <2>2. PICK m \in 1 .. Len(q) : Differ(place, q, r, m)
    BY <1>1, <1>3 DEF Before
  <2>3. n \in 1 .. Len(q) /\ n \in 1 .. Len(r) /\ m \in 1 .. Len(p) /\ m \in 1 .. Len(r)
    BY <1>3, <2>1, <2>2
  <2>4. /\ place[Prefix(p, n)] \in Int /\ place[Prefix(q, n)] \in Int /\ place[Prefix(r, n)] \in Int
        /\ place[Prefix(p, m)] \in Int /\ place[Prefix(q, m)] \in Int /\ place[Prefix(r, m)] \in Int
    BY <2>1, <2>2, <2>3, PrefixNodes, PlacesOfNodes
  <2>5. CASE n < m
    <3>1. /\ n \in 0 .. m - 1 /\ n - 1 \in 0 .. m - 1 /\ m - 1 \in 0 .. Len(q)
      BY <1>1, <2>1, <2>2, <2>5
    <3>2. Prefix(q, n) = Prefix(r, n) /\ Prefix(q, n - 1) = Prefix(r, n - 1)
      BY <1>1, <1>3, <2>2, <3>1, SharedPrefix DEF Differ
    <3>3. Differ(place, p, r, n)
      BY <2>1, <3>2 DEF Differ
    <3> QED BY <1>3, <2>1, <3>3 DEF Before
  <2>6. CASE m < n
    <3>1. /\ m \in 0 .. n - 1 /\ m - 1 \in 0 .. n - 1 /\ n - 1 \in 0 .. Len(p)
      BY <1>1, <2>1, <2>2, <2>6
    <3>2. Prefix(p, m) = Prefix(q, m) /\ Prefix(p, m - 1) = Prefix(q, m - 1)
      BY <1>1, <1>3, <2>1, <3>1, SharedPrefix DEF Differ
    <3>3. Differ(place, p, r, m)
      BY <2>2, <3>2 DEF Differ
    <3> QED BY <1>3, <2>3, <3>3 DEF Before
  <2>7. CASE m = n
    <3>1. Differ(place, p, r, n)
      BY <2>1, <2>2, <2>4, <2>7 DEF Differ
    <3> QED BY <1>3, <2>1, <3>1 DEF Before
  <2>8. n \in Int /\ m \in Int
    BY <2>1, <2>2
  <2> QED BY <2>5, <2>6, <2>7, <2>8
<1> QED BY <1>2, <1>3

LEMMA BeforeIsIrreflexive ==
  ASSUME NEW trie, IsTrie(trie), NEW place \in Places(trie), NEW p \in DOMAIN trie
  PROVE  ~Before(place, p, p)
<1>1. p \in Path /\ Len(p) \in Nat
  BY DEF IsTrie, Path
<1>2. \A n \in 1 .. Len(p) : place[Prefix(p, n)] \in Int
  BY PrefixNodes, PlacesOfNodes
<1> QED BY <1>1, <1>2 DEF Before, Differ

(***************************************************************************)
(* Counting what comes before an element numbers a finite set from 0, in   *)
(* its order.                                                              *)
(***************************************************************************)
StrictOrder(R, S) ==
  /\ \A p \in S : <<p, p>> \notin R
  /\ \A p, q \in S : p # q => <<p, q>> \in R \/ <<q, p>> \in R
  /\ \A p, q, r \in S : <<p, q>> \in R /\ <<q, r>> \in R => <<p, r>> \in R

Below(R, S, p) == {q \in S : <<q, p>> \in R}

LEMMA CountingNumbers ==
  ASSUME NEW S, IsFiniteSet(S), NEW R, StrictOrder(R, S)
  PROVE  /\ \A p \in S : Cardinality(Below(R, S, p)) \in 0 .. Cardinality(S) - 1
         /\ \A p, q \in S : <<p, q>> \in R =>
              Cardinality(Below(R, S, p)) < Cardinality(Below(R, S, q))
         /\ \A n \in 0 .. Cardinality(S) - 1 : \E p \in S : Cardinality(Below(R, S, p)) = n
<1> DEFINE f == [p \in S |-> Cardinality(Below(R, S, p))]
           T == 0 .. Cardinality(S) - 1
<1>0. Cardinality(S) \in Nat
  BY FS_CardinalityType
<1>1. \A p \in S : Below(R, S, p) \in SUBSET S /\ p \notin Below(R, S, p)
  BY DEF Below, StrictOrder
<1>2. \A p \in S : IsFiniteSet(Below(R, S, p)) /\ Cardinality(Below(R, S, p)) \in Nat
  BY <1>1, FS_Subset, FS_CardinalityType
<1>3. ASSUME NEW p \in S PROVE Cardinality(Below(R, S, p)) \in T
  <2>1. Cardinality(Below(R, S, p)) <= Cardinality(S)
    BY <1>1, FS_Subset
  <2>2. Cardinality(Below(R, S, p)) # Cardinality(S)
    BY <1>1, FS_Subset
  <2> QED BY <1>0, <1>2, <2>1, <2>2
<1>4. ASSUME NEW p \in S, NEW q \in S, <<p, q>> \in R
      PROVE  Cardinality(Below(R, S, p)) < Cardinality(Below(R, S, q))
  <2>1. Below(R, S, p) \in SUBSET Below(R, S, q)
    BY <1>4 DEF Below, StrictOrder
  <2>2. p \in Below(R, S, q) /\ p \notin Below(R, S, p)
    BY <1>1, <1>4 DEF Below
  <2>3. Cardinality(Below(R, S, p)) <= Cardinality(Below(R, S, q))
    BY <1>2, <2>1, FS_Subset
  <2>4. Cardinality(Below(R, S, p)) # Cardinality(Below(R, S, q))
    BY <1>2, <2>1, <2>2, FS_Subset
  <2> QED BY <1>2, <2>3, <2>4
<1>5. f \in Injection(S, T)
  <2>1. f \in [S -> T]
    BY <1>3
  <2>2. ASSUME NEW p \in S, NEW q \in S, p # q PROVE f[p] # f[q]
    <3>1. f[p] < f[q] \/ f[q] < f[p]
      BY <2>2, <1>4 DEF StrictOrder
    <3>2. f[p] \in Nat /\ f[q] \in Nat
      BY <1>2
    <3> QED BY <3>1, <3>2
  <2> QED BY <2>1, <2>2 DEF Injection, IsInjective
<1>6. IsFiniteSet(T) /\ Cardinality(T) = Cardinality(S)
  <2>1. IsFiniteSet(T) /\ Cardinality(T) = IF 0 > Cardinality(S) - 1 THEN 0
                                           ELSE Cardinality(S) - 1 - 0 + 1
    <3>1. 0 \in Int /\ Cardinality(S) - 1 \in Int
      BY <1>0
    <3> QED BY <3>1, FS_Interval
  <2> QED BY <1>0, <2>1
<1>7. f \in Surjection(S, T)
  <2> HIDE DEF f, T
  <2> QED BY <1>5, <1>6, FS_Injection
<1>8. \A n \in T : \E p \in S : Cardinality(Below(R, S, p)) = n
  <2>1. \A n \in T : \E p \in S : f[p] = n
    <3> HIDE DEF f, T
    <3> QED BY <1>7 DEF Surjection
  <2> QED BY <2>1
<1> QED BY <1>3, <1>4, <1>8

\* The numbers of the nodes: they go from 0 up, the nodes have one each, and those of
\* one level come before those of the next.
Numbering(trie, id) ==
  /\ id \in [DOMAIN trie -> 0 .. Cardinality(DOMAIN trie) - 1]
  /\ \A p, q \in DOMAIN trie : id[p] = id[q] => p = q
  /\ \A n \in 0 .. Cardinality(DOMAIN trie) - 1 : \E p \in DOMAIN trie : id[p] = n
  /\ \A p, q \in DOMAIN trie : Len(p) < Len(q) => id[p] < id[q]

LEMMA NodesAreNumbered ==
  ASSUME NEW trie, IsTrie(trie), NEW place \in Places(trie)
  PROVE  Numbering(trie, NodeIds(trie, place))
<1> DEFINE S == DOMAIN trie
           R == {pq \in S \X S : Before(place, pq[1], pq[2])}
           id == NodeIds(trie, place)
<1>1. \A p, q \in S : <<p, q>> \in R <=> Before(place, p, q)
  OBVIOUS
<1> HIDE DEF R
<1>2. StrictOrder(R, S)
  BY <1>1, BeforeIsTotal, BeforeIsTransitive, BeforeIsIrreflexive DEF StrictOrder
<1>3. id = [p \in S |-> Cardinality({q \in S : Before(place, q, p)})]
  BY DEF NodeIds, Before, Differ, Prefix
<1>4. \A p \in S : {q \in S : Before(place, q, p)} = Below(R, S, p)
  BY <1>1 DEF Below
<1>5. \A p \in S : id[p] = Cardinality(Below(R, S, p))
  BY <1>3, <1>4
<1>6. IsFiniteSet(S) /\ Cardinality(S) \in Nat
  BY FS_CardinalityType DEF IsTrie
<1> DEFINE n(p) == Cardinality(Below(R, S, p))
<1>7. /\ \A p \in S : n(p) \in 0 .. Cardinality(S) - 1
      /\ \A p, q \in S : <<p, q>> \in R => n(p) < n(q)
      /\ \A m \in 0 .. Cardinality(S) - 1 : \E p \in S : n(p) = m
  BY <1>2, <1>6, CountingNumbers
<1>8. id \in [S -> 0 .. Cardinality(S) - 1]
  <2>1. id = [p \in S |-> id[p]]
    BY <1>3
  <2>2. \A p \in S : id[p] \in 0 .. Cardinality(S) - 1
    BY <1>5, <1>7
  <2> HIDE DEF id, S
  <2> QED BY <2>1, <2>2
<1>9. \A p, q \in S : p # q => id[p] # id[q]
  <2> SUFFICES ASSUME NEW p \in S, NEW q \in S, p # q PROVE id[p] # id[q]
    OBVIOUS
  <2>1. id[p] \in Int /\ id[q] \in Int
    BY <1>8
  <2>2. <<p, q>> \in R \/ <<q, p>> \in R
    BY <1>2 DEF StrictOrder
  <2>3. id[p] < id[q] \/ id[q] < id[p]
    BY <2>2, <1>5, <1>7
  <2> QED BY <2>1, <2>3
<1>10. \A p, q \in S : Len(p) < Len(q) => id[p] < id[q]
  <2>1. \A p, q \in S : Len(p) < Len(q) => <<p, q>> \in R
    BY <1>1 DEF Before
  <2> QED BY <2>1, <1>5, <1>7
<1>11. \A m \in 0 .. Cardinality(S) - 1 : \E p \in S : id[p] = m
  BY <1>5, <1>7
<1> QED BY <1>8, <1>9, <1>10, <1>11 DEF Numbering

\* The node that has a number.
NodeAt(trie, id, n) == CHOOSE p \in DOMAIN trie : id[p] = n

LEMMA NodeOfNumber ==
  ASSUME NEW trie, NEW id, Numbering(trie, id)
  PROVE  /\ \A n \in 0 .. Cardinality(DOMAIN trie) - 1 :
              NodeAt(trie, id, n) \in DOMAIN trie /\ id[NodeAt(trie, id, n)] = n
         /\ \A p \in DOMAIN trie : NodeAt(trie, id, id[p]) = p
<1>1. \A n \in 0 .. Cardinality(DOMAIN trie) - 1 :
        NodeAt(trie, id, n) \in DOMAIN trie /\ id[NodeAt(trie, id, n)] = n
  BY DEF Numbering, NodeAt
<1>2. \A p \in DOMAIN trie : id[p] \in 0 .. Cardinality(DOMAIN trie) - 1
  BY DEF Numbering
<1> QED BY <1>1, <1>2 DEF Numbering

LEMMA RootIsFirst ==
  ASSUME NEW trie, IsTrie(trie), NEW id, Numbering(trie, id)
  PROVE  /\ Cardinality(DOMAIN trie) \in Nat \ {0} /\ id[<<>>] = 0
         /\ \A p \in DOMAIN trie : p # <<>> => id[p] \in Nat \ {0} /\ Len(p) \in Nat \ {0}
<1>1. IsFiniteSet(DOMAIN trie) /\ DOMAIN trie # {} /\ <<>> \in DOMAIN trie
  BY DEF IsTrie
<1>2. Cardinality(DOMAIN trie) \in Nat \ {0}
  BY <1>1, FS_CardinalityType, FS_EmptySet
<1>3. \A p \in DOMAIN trie : p # <<>> => Len(p) \in Nat \ {0} /\ Len(<<>>) < Len(p)
  <2>1. \A p \in DOMAIN trie : p # <<>> => Len(p) \in Nat \ {0}
    BY ParentOfPath DEF IsTrie
  <2>2. Len(<<>>) = 0
    OBVIOUS
  <2> QED BY <2>1, <2>2
<1>4. \A p \in DOMAIN trie : id[p] \in Nat
  BY DEF Numbering
<1>5. \A p \in DOMAIN trie : p # <<>> => id[<<>>] < id[p]
  BY <1>1, <1>3 DEF Numbering
<1>6. PICK p \in DOMAIN trie : id[p] = 0
  BY <1>2 DEF Numbering
<1>7. id[<<>>] = 0
  BY <1>1, <1>4, <1>5, <1>6
<1> QED BY <1>1, <1>2, <1>3, <1>4, <1>5, <1>7

(***************************************************************************)
(* The descriptors of a node and of its leaf.                              *)
(***************************************************************************)
LEMMA DescriptorOfNode ==
  ASSUME NEW trie, IsTrie(trie), NEW id, Numbering(trie, id),
         NEW n \in 1 .. Cardinality(DOMAIN trie)
  PROVE  LET p == NodeAt(trie, id, n - 1)
             node == SerializedNodes(trie, id)[n]
         IN  /\ node.node_id = n - 1 /\ node.depth = Len(p)
             /\ p = <<>> => node.parent = 0
             /\ p # <<>> => node.parent = id[Parent(p)] /\ node.ch = p[Len(p)]
             /\ node.leaf_id = NonExistId <=> trie[p] = NonExistLeaf
<1> DEFINE p == NodeAt(trie, id, n - 1)
           leafed == {q \in DOMAIN trie : trie[q] # NonExistLeaf}
           LeafId == IF p \in leafed THEN Cardinality({q \in leafed : id[q] < id[p]})
                     ELSE NonExistId
<1>1. p \in DOMAIN trie /\ id[p] = n - 1
  <2>1. n - 1 \in 0 .. Cardinality(DOMAIN trie) - 1
    BY RootIsFirst
  <2> QED BY <2>1, NodeOfNumber
<1>2. SerializedNodes(trie, id)[n] =
        [node_id |-> id[p], parent |-> IF p = <<>> THEN 0 ELSE id[Parent(p)],
         depth |-> Len(p), leaf_id |-> LeafId, ch |-> IF p = <<>> THEN "/" ELSE p[Len(p)]]
  BY DEF SerializedNodes, NodeAt
<1>3. LeafId = NonExistId <=> trie[p] = NonExistLeaf
  <2>1. {q \in leafed : id[q] < id[p]} \in SUBSET DOMAIN trie
    OBVIOUS
  <2>2. Cardinality({q \in leafed : id[q] < id[p]}) \in Nat
    BY <2>1, FS_Subset, FS_CardinalityType DEF IsTrie
  <2> QED BY <1>1, <2>2 DEF NonExistId
<1> HIDE DEF p, LeafId
<1> QED BY <1>1, <1>2, <1>3 DEF p

LEMMA LengthOfNodes ==
  ASSUME NEW trie, IsTrie(trie), NEW id, Numbering(trie, id)
  PROVE  Len(SerializedNodes(trie, id)) = Cardinality(DOMAIN trie)
<1>1. Cardinality(DOMAIN trie) \in Nat
  BY RootIsFirst
<1>2. DOMAIN SerializedNodes(trie, id) = 1 .. Cardinality(DOMAIN trie)
  BY DEF SerializedNodes
<1> QED BY <1>1 DEF SerializedNodes

\* Leaves are found again by the numbers of their nodes.
LEMMA LeafIsFound ==
  ASSUME NEW trie, IsTrie(trie), NEW id, Numbering(trie, id),
         NEW p \in DOMAIN trie, NEW node, node.node_id = id[p],
         node.leaf_id = NonExistId <=> trie[p] = NonExistLeaf
  PROVE  LeafOf(SerializedLeafs(trie, id), node) = {trie[p]}
<1> DEFINE S == {q \in DOMAIN trie : trie[q] # NonExistLeaf}
           R == {qr \in S \X S : id[qr[1]] < id[qr[2]]}
           Rank(q) == Cardinality({r \in S : id[r] <= id[q]})
           Nth(n) == CHOOSE q \in S : Rank(q) = n
           leafs == SerializedLeafs(trie, id)
<1>1. CASE trie[p] = NonExistLeaf
  BY <1>1 DEF LeafOf
<1>2. CASE trie[p] # NonExistLeaf
  <2>1. IsFiniteSet(S) /\ Cardinality(S) \in Nat
    <3>1. S \in SUBSET DOMAIN trie
      OBVIOUS
    <3> QED BY <3>1, FS_Subset, FS_CardinalityType DEF IsTrie
  <2>2. \A q \in S : id[q] \in Nat
    BY DEF Numbering
  <2>3. \A q, r \in S : q # r => id[q] # id[r]
    BY DEF Numbering
  <2>4. \A q, r \in S : <<q, r>> \in R <=> id[q] < id[r]
    OBVIOUS
  <2>5. leafs = [n \in 1 .. Cardinality(S) |-> [node_id |-> id[Nth(n)], leaf |-> trie[Nth(n)]]]
    BY DEF SerializedLeafs
  <2>6. p \in S
    BY <1>2
  <2>a. \A q \in S : q \in DOMAIN trie
    OBVIOUS
  <2> HIDE DEF S, R
  <2>7. StrictOrder(R, S)
    BY <2>2, <2>3, <2>4 DEF StrictOrder
  <2> DEFINE n(q) == Cardinality(Below(R, S, q))
  <2>8. /\ \A q \in S : n(q) \in 0 .. Cardinality(S) - 1
        /\ \A m \in 0 .. Cardinality(S) - 1 : \E q \in S : n(q) = m
    BY <2>1, <2>7, CountingNumbers
  <2>9. ASSUME NEW q \in S PROVE Rank(q) = n(q) + 1
    <3>1. {r \in S : id[r] <= id[q]} = Below(R, S, q) \cup {q}
      BY <2>2, <2>3, <2>4 DEF Below
    <3>2. q \notin Below(R, S, q) /\ Below(R, S, q) \in SUBSET S
      BY <2>2, <2>4 DEF Below
    <3>3. IsFiniteSet(Below(R, S, q))
      BY <2>1, <3>2, FS_Subset
    <3> QED BY <3>1, <3>2, <3>3, FS_AddElement
  <2>10. \A m \in 1 .. Cardinality(S) : Nth(m) \in S
    <3> SUFFICES ASSUME NEW m \in 1 .. Cardinality(S) PROVE \E q \in S : Rank(q) = m
      OBVIOUS
    <3>1. m - 1 \in 0 .. Cardinality(S) - 1
      BY <2>1
    <3>2. PICK q \in S : n(q) = m - 1
      BY <2>8, <3>1
    <3>3. Rank(q) = m
      <4> HIDE DEF Rank, n
      <4> QED BY <2>1, <2>9, <3>2
    <3> QED BY <3>3
  <2>11. Rank(p) \in 1 .. Cardinality(S)
    <3> HIDE DEF Rank, n
    <3> QED BY <2>1, <2>6, <2>8, <2>9
  <2>12. Nth(Rank(p)) = p
    <3> SUFFICES ASSUME NEW q \in S, Rank(q) = Rank(p) PROVE q = p
      BY <2>6
    <3>1. n(q) = n(p)
      <4> HIDE DEF Rank, n
      <4>1. n(q) \in Int /\ n(p) \in Int
        BY <2>6, <2>8
      <4> QED BY <2>6, <2>9, <4>1
    <3>2. \A r \in S : n(r) \in Int
      BY <2>8
    <3>3. \A r, s \in S : <<r, s>> \in R => n(r) < n(s)
      BY <2>1, <2>7, CountingNumbers
    <3>4. ~(<<p, q>> \in R) /\ ~(<<q, p>> \in R)
      BY <2>6, <3>1, <3>2, <3>3
    <3> QED BY <2>6, <2>7, <3>4 DEF StrictOrder
  <2> HIDE DEF Rank, Nth, leafs, n
  <2>13. DOMAIN leafs = 1 .. Cardinality(S)
    BY <2>5
  <2>14. {j \in DOMAIN leafs : leafs[j].node_id = node.node_id} = {Rank(p)}
    <3>1. ASSUME NEW j \in 1 .. Cardinality(S), leafs[j].node_id = id[p] PROVE j = Rank(p)
      <4>1. id[Nth(j)] = id[p] /\ Nth(j) \in S
        BY <2>5, <2>10, <3>1
      <4>2. Nth(j) = p
        BY <2>3, <2>6, <4>1
      <4>3. \E q \in S : Rank(q) = j
        <5>1. j - 1 \in 0 .. Cardinality(S) - 1
          BY <2>1
        <5>2. PICK q \in S : n(q) = j - 1
          BY <2>8, <5>1
        <5> QED BY <2>1, <2>9, <5>2
      <4>4. Rank(Nth(j)) = j
        BY <4>3 DEF Nth
      <4> QED BY <4>2, <4>4
    <3>2. leafs[Rank(p)].node_id = id[p]
      BY <2>5, <2>11, <2>12
    <3> QED BY <2>11, <2>13, <3>1, <3>2
  <2>15. leafs[Rank(p)].leaf = trie[p]
    BY <2>5, <2>11, <2>12
  <2>16. node.leaf_id # NonExistId
    BY <1>2
  <2> QED BY <2>14, <2>15, <2>16 DEF LeafOf, leafs
<1> QED BY <1>1, <1>2

(***************************************************************************)
(* The loop of Deserialize: what is built after n nodes.                   *)
(***************************************************************************)
Done(trie, id, n) == {p \in DOMAIN trie : id[p] < n}

\* the level of the last of n nodes; the first one counts as one of level 1
Level(trie, id, n) == IF n = 1 THEN 1 ELSE Len(NodeAt(trie, id, n - 1))

NumbersOf(id, nodes) == {id[p] : p \in nodes}

Extracted(trie, id, n) ==
  [trie |-> [p \in Done(trie, id, n) |-> trie[p]],
   previous |-> [i \in NumbersOf(id, {p \in DOMAIN trie : Len(p) = Level(trie, id, n) - 1})
                   |-> NodeAt(trie, id, i)],
   current |-> [i \in NumbersOf(id, {p \in Done(trie, id, n) : Len(p) = Level(trie, id, n)})
                  |-> NodeAt(trie, id, i)],
   depth |-> Level(trie, id, n),
   valid |-> TRUE]

LEMMA FirstExtracted ==
  ASSUME NEW trie, IsTrie(trie), NEW id, Numbering(trie, id)
  PROVE  RootExtracted(SerializedNodes(trie, id)[1]) = Extracted(trie, id, 1)
<1> DEFINE node == SerializedNodes(trie, id)[1]
<1>1. /\ Cardinality(DOMAIN trie) \in Nat \ {0} /\ id[<<>>] = 0 /\ <<>> \in DOMAIN trie
      /\ \A p \in DOMAIN trie : p # <<>> => id[p] \in Nat \ {0} /\ Len(p) \in Nat \ {0}
  BY RootIsFirst DEF IsTrie
<1>2. 0 \in 0 .. Cardinality(DOMAIN trie) - 1 /\ 1 \in 1 .. Cardinality(DOMAIN trie) /\ 1 - 1 = 0
  BY <1>1
<1>3. NodeAt(trie, id, 0) = <<>>
  BY <1>1, <1>2, NodeOfNumber
<1>4. node.node_id = 0 /\ node.parent = 0
  BY <1>2, <1>3, DescriptorOfNode
<1>5. Done(trie, id, 1) = {<<>>}
  BY <1>1 DEF Done
<1>6. [p \in Done(trie, id, 1) |-> trie[p]] = EmptyTrie
  BY <1>5 DEF EmptyTrie, IsTrie
<1>7. Level(trie, id, 1) = 1
  BY DEF Level
<1>8. Len(<<>>) = 0
  OBVIOUS
<1>9. {p \in DOMAIN trie : Len(p) = 1 - 1} = {<<>>}
  BY <1>1, <1>8
<1>10. NumbersOf(id, {p \in DOMAIN trie : Len(p) = 1 - 1}) = {0}
  BY <1>1, <1>9 DEF NumbersOf
<1>11. NumbersOf(id, {p \in Done(trie, id, 1) : Len(p) = 1}) = {}
  BY <1>5, <1>8 DEF NumbersOf
<1>12. [i \in {0} |-> NodeAt(trie, id, i)] = [n \in {node.node_id} |-> <<>>]
  BY <1>3, <1>4
<1>13. [i \in {} |-> NodeAt(trie, id, i)] = <<>>
  OBVIOUS
<1>14. Extracted(trie, id, 1) =
         [trie |-> [p \in Done(trie, id, 1) |-> trie[p]],
          previous |-> [i \in {0} |-> NodeAt(trie, id, i)],
          current |-> [i \in {} |-> NodeAt(trie, id, i)],
          depth |-> 1, valid |-> TRUE]
  BY <1>7, <1>10, <1>11, Zenon DEF Extracted
<1>15. RootExtracted(node) =
         [trie |-> EmptyTrie, previous |-> [i \in {node.node_id} |-> <<>>], current |-> <<>>,
          depth |-> 1, valid |-> node.node_id = node.parent]
  BY DEF RootExtracted
<1>16. (node.node_id = node.parent) = TRUE
  BY <1>4
<1> HIDE DEF node
<1> QED BY <1>6, <1>12, <1>13, <1>14, <1>15, <1>16, Zenon DEF node

\* What is before the n-th node is on its level or above, what is not is on it or below.
LEMMA Levels ==
  ASSUME NEW trie, IsTrie(trie), NEW id, Numbering(trie, id),
         NEW n \in 1 .. Cardinality(DOMAIN trie), NEW q \in DOMAIN trie
  PROVE  /\ Level(trie, id, n) \in Nat \ {0}
         /\ id[q] < n => Len(q) <= Level(trie, id, n)
         /\ id[q] >= n => Len(q) >= Level(trie, id, n)
<1> DEFINE d == Level(trie, id, n)
<1>1. /\ Cardinality(DOMAIN trie) \in Nat \ {0} /\ id[<<>>] = 0
      /\ \A p \in DOMAIN trie : p # <<>> => id[p] \in Nat \ {0} /\ Len(p) \in Nat \ {0}
      /\ Len(<<>>) = 0
  BY RootIsFirst
<1>2. CASE n = 1
  <2>1. d = 1
    BY <1>2 DEF Level
  <2> QED BY <1>1, <1>2, <2>1
<1>3. CASE n # 1
  <2> DEFINE r == NodeAt(trie, id, n - 1)
  <2>1. n \in Nat /\ n - 1 \in 0 .. Cardinality(DOMAIN trie) - 1 /\ n - 1 # 0
    BY <1>1, <1>3
  <2>2. r \in DOMAIN trie /\ id[r] = n - 1
    BY <2>1, NodeOfNumber
  <2>3. d = Len(r) /\ r # <<>>
    BY <1>1, <1>3, <2>1, <2>2 DEF Level
  <2>4. d \in Nat \ {0} /\ Len(q) \in Nat /\ id[q] \in Nat
    BY <1>1, <2>2, <2>3
  <2>5. (Len(q) < Len(r) => id[q] < id[r]) /\ (Len(r) < Len(q) => id[r] < id[q])
    BY <2>2 DEF Numbering
  <2> HIDE DEF r, d
  <2> QED BY <2>1, <2>2, <2>3, <2>4, <2>5 DEF d
<1> QED BY <1>2, <1>3

LEMMA NextExtracted ==
  ASSUME NEW trie, IsTrie(trie), NEW id, Numbering(trie, id),
         NEW n \in 2 .. Cardinality(DOMAIN trie)
  PROVE  NodeExtracted(Extracted(trie, id, n - 1), SerializedLeafs(trie, id),
                       SerializedNodes(trie, id)[n]) = Extracted(trie, id, n)
<1> DEFINE N == DOMAIN trie
           b == Extracted(trie, id, n - 1)
           e == Extracted(trie, id, n)
           leafs == SerializedLeafs(trie, id)
           node == SerializedNodes(trie, id)[n]
           p == NodeAt(trie, id, n - 1)
           Numbers(nodes) == NumbersOf(id, nodes)
           NodesOf(numbers) == [i \in numbers |-> NodeAt(trie, id, i)]
           before == Level(trie, id, n - 1)
           depth == Level(trie, id, n)
           previous == IF StartsLevel(b, node) THEN b.current ELSE b.previous
           current  == IF StartsLevel(b, node) THEN <<>> ELSE b.current
<1>1. /\ Cardinality(N) \in Nat \ {0} /\ n \in 1 .. Cardinality(N) /\ n - 1 \in 1 .. Cardinality(N)
      /\ n - 1 \in 0 .. Cardinality(N) - 1 /\ n \in Nat /\ n - 1 # 0 /\ n # 1
  BY RootIsFirst
<1>2. p \in N /\ id[p] = n - 1 /\ p # <<>>
  BY <1>1, NodeOfNumber, RootIsFirst
<1>3. depth = Len(p)
  BY <1>1 DEF Level
<1>4. /\ node.node_id = n - 1 /\ node.depth = depth
      /\ node.parent = id[Parent(p)] /\ node.ch = p[Len(p)]
      /\ node.leaf_id = NonExistId <=> trie[p] = NonExistLeaf
  BY <1>1, <1>2, <1>3, DescriptorOfNode
<1>5. LeafOf(leafs, node) = {trie[p]}
  BY <1>2, <1>4, LeafIsFound
<1>6. /\ depth \in Nat \ {0} /\ before \in Nat \ {0}
      /\ \A q \in N : id[q] \in Nat /\ Len(q) \in Nat
      /\ \A q \in N : id[q] < n - 1 => Len(q) <= before
      /\ \A q \in N : id[q] >= n - 1 => Len(q) >= before
      /\ \A q \in N : id[q] < n => Len(q) <= depth
  <2>1. \A q \in N : id[q] \in Nat /\ Len(q) \in Nat
    BY RootIsFirst
  <2> HIDE DEF before, depth
  <2> QED BY <1>1, <1>2, <2>1, Levels DEF before, depth
<1>7. /\ Parent(p) \in N /\ Len(Parent(p)) = depth - 1 /\ Append(Parent(p), p[Len(p)]) = p
      /\ id[Parent(p)] < n - 1
  <2>1. p \in Path
    BY <1>2 DEF IsTrie
  <2>2. /\ Len(p) \in Nat \ {0} /\ Parent(p) = Prefix(p, Len(p) - 1)
        /\ Len(Parent(p)) = Len(p) - 1 /\ p = Append(Parent(p), p[Len(p)])
    BY <1>2, <2>1, ParentOfPath
  <2>3. Parent(p) \in N
    BY <1>2, <2>2 DEF IsTrie
  <2>4. Len(Parent(p)) < Len(p)
    BY <2>2
  <2>5. id[Parent(p)] < id[p]
    BY <1>2, <2>3, <2>4 DEF Numbering
  <2> QED BY <1>2, <1>3, <2>2, <2>3, <2>5
<1>8. before <= depth /\ depth - 1 <= before
  BY <1>2, <1>3, <1>6, <1>7
<1>9. Done(trie, id, n) = Done(trie, id, n - 1) \cup {p} /\ p \notin Done(trie, id, n - 1)
  <2>1. \A q \in N : id[q] < n <=> id[q] < n - 1 \/ id[q] = n - 1
    BY <1>1, <1>6
  <2>2. \A q \in N : id[q] = n - 1 <=> q = p
    BY <1>2 DEF Numbering
  <2> QED BY <1>2, <1>6, <2>1, <2>2 DEF Done
<1>10. /\ b.trie = [q \in Done(trie, id, n - 1) |-> trie[q]]
       /\ b.previous = NodesOf(Numbers({q \in N : Len(q) = before - 1}))
       /\ b.current = NodesOf(Numbers({q \in Done(trie, id, n - 1) : Len(q) = before}))
       /\ b.depth = before /\ b.valid = TRUE
  BY DEF Extracted
<1>11. e = [trie |-> [q \in Done(trie, id, n) |-> trie[q]],
            previous |-> NodesOf(Numbers({q \in N : Len(q) = depth - 1})),
            current |-> NodesOf(Numbers({q \in Done(trie, id, n) : Len(q) = depth})),
            depth |-> depth, valid |-> TRUE]
  BY DEF Extracted
<1>12. StartsLevel(b, node) <=> before < depth
  BY <1>4, <1>10 DEF StartsLevel
<1> HIDE DEF b, e, p, node, leafs, before, depth, N
<1>13. previous = NodesOf(Numbers({q \in N : Len(q) = depth - 1}))
  <2>1. CASE before = depth
    BY <1>6, <1>10, <1>12, <2>1
  <2>2. CASE before = depth - 1
    <3>1. {q \in Done(trie, id, n - 1) : Len(q) = before} = {q \in N : Len(q) = depth - 1}
      <4>1. \A q \in N : Len(q) = depth - 1 => id[q] < n - 1
        <5>1. \A q \in N : Len(q) < Len(p) => id[q] < id[p]
          BY <1>2 DEF Numbering, N
        <5> QED BY <1>2, <1>3, <1>6, <5>1
      <4> QED BY <2>2, <4>1 DEF Done, N
    <3>2. before < depth
      BY <1>6, <2>2
    <3> QED BY <1>10, <1>12, <3>1, <3>2
  <2> QED BY <1>6, <1>8, <2>1, <2>2
<1>14. id[Parent(p)] \in DOMAIN previous /\ previous[id[Parent(p)]] = Parent(p)
  <2>1. id[Parent(p)] \in Numbers({q \in N : Len(q) = depth - 1})
    BY <1>7 DEF NumbersOf
  <2>2. NodeAt(trie, id, id[Parent(p)]) = Parent(p)
    BY <1>7, NodeOfNumber DEF N
  <2> HIDE DEF previous
  <2> QED BY <1>13, <2>1, <2>2
<1>15. [i \in DOMAIN current \cup {n - 1} |-> IF i = n - 1 THEN p ELSE current[i]]
         = NodesOf(Numbers({q \in Done(trie, id, n) : Len(q) = depth}))
  <2>1. {q \in Done(trie, id, n) : Len(q) = depth}
          = {q \in Done(trie, id, n - 1) : Len(q) = depth} \cup {p}
    BY <1>3, <1>9
  <2>2. Numbers({q \in Done(trie, id, n) : Len(q) = depth})
          = Numbers({q \in Done(trie, id, n - 1) : Len(q) = depth}) \cup {n - 1}
    BY <1>2, <2>1 DEF NumbersOf
  <2>3. current = NodesOf(Numbers({q \in Done(trie, id, n - 1) : Len(q) = depth}))
    <3>1. CASE before = depth
      BY <1>6, <1>10, <1>12, <3>1
    <3>2. CASE before = depth - 1
      <4>1. {q \in Done(trie, id, n - 1) : Len(q) = depth} = {}
        <5>1. \A q \in N : id[q] < n - 1 => Len(q) # depth
          BY <1>6, <3>2
        <5> QED BY <5>1 DEF Done, N
      <4>2. Numbers({}) = {}
        BY DEF NumbersOf
      <4>3. NodesOf({}) = <<>>
        OBVIOUS
      <4>4. before < depth
        BY <1>6, <3>2
      <4> QED BY <1>12, <4>1, <4>2, <4>3, <4>4
    <3> QED BY <1>6, <1>8, <3>1, <3>2
  <2>4. NodeAt(trie, id, n - 1) = p
    BY DEF p
  <2> HIDE DEF current
  <2> QED BY <2>2, <2>3, <2>4
<1>16. [q \in DOMAIN b.trie \cup {p} |-> IF q = p THEN CHOOSE l \in LeafOf(leafs, node) : TRUE
                                        ELSE b.trie[q]]
         = [q \in Done(trie, id, n) |-> trie[q]]
  <2>1. (CHOOSE l \in {trie[p]} : TRUE) = trie[p]
    OBVIOUS
  <2>2. (CHOOSE l \in LeafOf(leafs, node) : TRUE) = trie[p]
    BY <1>5, <2>1
  <2> DEFINE leaf == CHOOSE l \in LeafOf(leafs, node) : TRUE
  <2>a. leaf = trie[p]
    BY <2>2
  <2> HIDE DEF leaf
  <2>3. [q \in DOMAIN b.trie \cup {p} |-> IF q = p THEN leaf ELSE b.trie[q]]
          = [q \in Done(trie, id, n) |-> trie[q]]
    BY <1>9, <1>10, <2>a
  <2> QED BY <2>3 DEF leaf
<1>17. (IF StartsLevel(b, node) THEN b.depth + 1 ELSE b.depth) = depth
  BY <1>6, <1>8, <1>10, <1>12
<1>18. Append(previous[node.parent], node.ch) = p
  BY <1>4, <1>7, <1>14
<1>19. ~(~b.valid \/ node.parent \notin DOMAIN previous \/ LeafOf(leafs, node) = {})
  BY <1>4, <1>5, <1>10, <1>14
<1>20. NodeExtracted(b, leafs, node) =
         [trie |-> [q \in DOMAIN b.trie \cup {p} |->
                      IF q = p THEN CHOOSE l \in LeafOf(leafs, node) : TRUE ELSE b.trie[q]],
          previous |-> previous,
          current |-> [i \in DOMAIN current \cup {n - 1} |-> IF i = n - 1 THEN p ELSE current[i]],
          depth |-> IF StartsLevel(b, node) THEN b.depth + 1 ELSE b.depth,
          valid |-> TRUE]
  <2>1. node.node_id = n - 1
    BY <1>4
  <2> QED BY <2>1, <1>18, <1>19 DEF NodeExtracted
<1> HIDE DEF previous, current
<1> QED BY <1>11, <1>13, <1>15, <1>16, <1>17, <1>20 DEF b, e, leafs, node

(***************************************************************************)
(* The recursive function of Deserialize is what Extracted says: that      *)
(* function satisfies the equation, and no other one does.                 *)
(***************************************************************************)
Turns(buffer, f) ==
  [n \in 1 .. Len(buffer.nodes) |->
     IF n = 1 THEN RootExtracted(buffer.nodes[1])
     ELSE NodeExtracted(f[n - 1], buffer.leafs, buffer.nodes[n])]

LEMMA TurnsAreUnique ==
  ASSUME NEW buffer, Len(buffer.nodes) \in Nat,
         NEW f, f = Turns(buffer, f), NEW g, g = Turns(buffer, g)
  PROVE  f = g
<1> DEFINE count == Len(buffer.nodes)
           T == {n \in 1 .. count : f[n] # g[n]}
<1>1. \A n \in 1 .. count :
        /\ f[n] = IF n = 1 THEN RootExtracted(buffer.nodes[1])
                  ELSE NodeExtracted(f[n - 1], buffer.leafs, buffer.nodes[n])
        /\ g[n] = IF n = 1 THEN RootExtracted(buffer.nodes[1])
                  ELSE NodeExtracted(g[n - 1], buffer.leafs, buffer.nodes[n])
  BY Zenon DEF Turns
<1>2. T = {}
  <2> SUFFICES ASSUME T # {} PROVE FALSE
    OBVIOUS
  <2>1. T \subseteq Nat
    OBVIOUS
  <2>2. PICK n \in T : \A m \in T : n <= m
    <3> HIDE DEF T
    <3> QED BY <2>1, LeastNumber
  <2>3. n \in 1 .. count /\ f[n] # g[n]
    BY <2>2
  <2>4. n # 1
    BY <1>1, <2>3
  <2>5. n - 1 \in 1 .. count /\ ~(n <= n - 1)
    BY <2>3, <2>4
  <2>6. f[n - 1] = g[n - 1]
    <3>1. n - 1 \notin T
      <4> HIDE DEF T
      <4> QED BY <2>2, <2>5
    <3> QED BY <2>5, <3>1
  <2> QED BY <1>1, <2>3, <2>4, <2>6
<1>3. f = [n \in 1 .. count |-> f[n]] /\ g = [n \in 1 .. count |-> g[n]]
  <2>1. DOMAIN Turns(buffer, f) = 1 .. count /\ DOMAIN Turns(buffer, g) = 1 .. count
    BY DEF Turns
  <2>2. Turns(buffer, f) = [n \in DOMAIN Turns(buffer, f) |-> Turns(buffer, f)[n]]
    BY Zenon DEF Turns
  <2>3. Turns(buffer, g) = [n \in DOMAIN Turns(buffer, g) |-> Turns(buffer, g)[n]]
    BY Zenon DEF Turns
  <2> QED BY <2>1, <2>2, <2>3, Zenon
<1> QED BY <1>2, <1>3

\* Whatever the trie and the order in which its children lie in memory, the trie that
\* Deserialize builds from the descriptors is the one that Serialize took them from.
THEOREM TriesComeBack ==
  ASSUME NEW trie, IsTrie(trie), NEW place \in Places(trie)
  PROVE  Deserialize(Serialize(trie, place)) = trie
<1> DEFINE id == NodeIds(trie, place)
           buffer == Serialize(trie, place)
           count == Cardinality(DOMAIN trie)
           f == [n \in 1 .. count |-> Extracted(trie, id, n)]
           built == CHOOSE g : g = Turns(buffer, g)
<1>1. Numbering(trie, id)
  BY NodesAreNumbered
<1>2. buffer.leafs = SerializedLeafs(trie, id) /\ buffer.nodes = SerializedNodes(trie, id)
  BY DEF Serialize
<1> HIDE DEF id, buffer
<1>3. Len(buffer.nodes) = count /\ count \in Nat \ {0}
  BY <1>1, <1>2, LengthOfNodes, RootIsFirst
<1>4. f = Turns(buffer, f)
  <2>1. RootExtracted(buffer.nodes[1]) = Extracted(trie, id, 1)
    BY <1>1, <1>2, FirstExtracted
  <2>2. ASSUME NEW n \in 1 .. count, n # 1
        PROVE  NodeExtracted(f[n - 1], buffer.leafs, buffer.nodes[n]) = Extracted(trie, id, n)
    <3>1. n \in 2 .. count /\ n - 1 \in 1 .. count
      BY <1>3, <2>2
    <3>2. f[n - 1] = Extracted(trie, id, n - 1)
      BY <3>1
    <3> QED BY <1>1, <1>2, <3>1, <3>2, NextExtracted
  <2>3. \A n \in 1 .. count :
          (IF n = 1 THEN RootExtracted(buffer.nodes[1])
           ELSE NodeExtracted(f[n - 1], buffer.leafs, buffer.nodes[n])) = Extracted(trie, id, n)
    <3> HIDE DEF f
    <3> QED BY <2>1, <2>2
  <2>4. Turns(buffer, f) =
          [n \in 1 .. count |->
             IF n = 1 THEN RootExtracted(buffer.nodes[1])
             ELSE NodeExtracted(f[n - 1], buffer.leafs, buffer.nodes[n])]
    BY <1>3, Zenon DEF Turns
  <2> QED BY <2>3, <2>4, Zenon
<1>5. built = f
  <2> HIDE DEF f
  <2>1. built = Turns(buffer, built)
    BY <1>4
  <2> HIDE DEF built
  <2> QED BY <1>3, <1>4, <2>1, TurnsAreUnique
<1>6. Deserialize(buffer) =
        IF Len(buffer.nodes) = 0 THEN EmptyTrie
        ELSE IF built[Len(buffer.nodes)].valid THEN built[Len(buffer.nodes)].trie ELSE CorruptTrie
  BY Zenon DEF Deserialize, Turns
<1>7. built[count] = Extracted(trie, id, count)
  <2>1. count \in 1 .. count
    BY <1>3
  <2> HIDE DEF built
  <2> QED BY <1>5, <2>1
<1> HIDE DEF built
<1>8. Deserialize(buffer) = [p \in Done(trie, id, count) |-> trie[p]]
  BY <1>3, <1>6, <1>7 DEF Extracted
<1>9. Done(trie, id, count) = DOMAIN trie
  <2>1. \A p \in DOMAIN trie : id[p] \in 0 .. count - 1
    BY <1>1 DEF Numbering
  <2>2. \A p \in DOMAIN trie : id[p] < count
    BY <1>3, <2>1
  <2> QED BY <2>2 DEF Done
<1> QED BY <1>8, <1>9 DEF IsTrie, buffer

\* An unordered_map has its elements in some order.
LEMMA PlacesExist ==
  ASSUME NEW trie, IsTrie(trie)
  PROVE  Places(trie) # {}
<1> DEFINE nodes == DOMAIN trie \ {<<>>}
           sib(p) == Siblings(trie, p)
           order(p) == CHOOSE f : f \in Bijection(sib(p), 1 .. Cardinality(sib(p)))
           place == [p \in nodes |-> order(p)[p]]
           most == {Cardinality(sib(p)) : p \in nodes}
<1>1. ASSUME NEW p \in nodes
      PROVE  /\ order(p) \in Bijection(sib(p), 1 .. Cardinality(sib(p)))
             /\ Cardinality(sib(p)) \in Nat
  <2>1. sib(p) \in SUBSET DOMAIN trie /\ IsFiniteSet(DOMAIN trie)
    BY DEF Siblings, IsTrie
  <2>2. IsFiniteSet(sib(p))
    BY <2>1, FS_Subset
  <2>3. Cardinality(sib(p)) \in Nat /\ ExistsBijection(1 .. Cardinality(sib(p)), sib(p))
    BY <2>2, FS_CardinalityType
  <2>4. IsFiniteSet(1 .. Cardinality(sib(p)))
    BY <2>3, FS_Interval
  <2>5. Cardinality(1 .. Cardinality(sib(p))) = Cardinality(sib(p))
    <3>1. 1 \in Int /\ Cardinality(sib(p)) \in Int
      BY <2>3
    <3>2. Cardinality(1 .. Cardinality(sib(p)))
            = IF 1 > Cardinality(sib(p)) THEN 0 ELSE Cardinality(sib(p)) - 1 + 1
      BY <3>1, FS_Interval
    <3> QED BY <2>3, <3>2
  <2>6. ExistsBijection(sib(p), 1 .. Cardinality(sib(p)))
    BY <2>2, <2>4, <2>5, FS_SameCardinalityBij
  <2> QED BY <2>3, <2>6 DEF ExistsBijection
<1>2. \A p \in nodes : p \in sib(p) /\ \A q \in sib(p) : q \in nodes /\ sib(q) = sib(p)
  BY DEF Siblings
<1>3. \A p \in nodes : order(p) \in Injection(sib(p), 1 .. Cardinality(sib(p)))
  BY <1>1 DEF Bijection
<1>4. \A p \in nodes : place[p] \in 1 .. Cardinality(sib(p))
  <2> HIDE DEF sib, order
  <2>1. \A p \in nodes : order(p)[p] \in 1 .. Cardinality(sib(p))
    BY <1>2, <1>3 DEF Injection
  <2> QED BY <2>1
<1>5. place \in [nodes -> UNION {1 .. n : n \in most}]
  <2>1. \A p \in nodes : place[p] \in UNION {1 .. n : n \in most}
    <3> HIDE DEF sib, place
    <3> QED BY <1>4
  <2> HIDE DEF most
  <2> QED BY <2>1
<1>6. \A p \in nodes : \A q \in sib(p) \ {p} : place[p] # place[q]
  <2> SUFFICES ASSUME NEW p \in nodes, NEW q \in sib(p) \ {p} PROVE place[p] # place[q]
    OBVIOUS
  <2>1. q \in nodes /\ sib(q) = sib(p) /\ p \in sib(p) /\ q \in sib(p) /\ p # q
    BY <1>2
  <2>2. order(q) = order(p)
    <3> HIDE DEF sib
    <3> QED BY <2>1
  <2>3. order(p)[p] # order(p)[q]
    <3> HIDE DEF sib, order
    <3> QED BY <1>3, <2>1 DEF Injection, IsInjective
  <2>4. place[p] = order(p)[p] /\ place[q] = order(q)[q]
    <3> HIDE DEF order, sib
    <3> QED BY <2>1
  <2> HIDE DEF order, place
  <2> QED BY <2>2, <2>3, <2>4
<1>7. place \in Places(trie)
  <2>1. Places(trie) = {f \in [nodes -> UNION {1 .. n : n \in most}] :
                          \A p \in nodes : \A q \in sib(p) \ {p} : f[p] # f[q]}
    BY Zenon DEF Places, Siblings
  <2> HIDE DEF place, sib, most
  <2> QED BY <1>5, <1>6, <2>1
<1> QED BY <1>7

(***************************************************************************)
(* What the operations of the index make of a trie and of its keys.        *)
(***************************************************************************)
LEMMA EmptyIsTrie == IsTrie(EmptyTrie) /\ KeysOf([trie |-> EmptyTrie, changed |-> FALSE]) = {}
<1>1. DOMAIN EmptyTrie = {<<>>} /\ EmptyTrie[<<>>] = NonExistLeaf
      /\ EmptyTrie = [p \in DOMAIN EmptyTrie |-> EmptyTrie[p]]
  BY DEF EmptyTrie
<1>2. IsFiniteSet({<<>>})
  BY FS_Singleton
<1>3. <<>> \in Path /\ Len(<<>>) = 0
  BY DEF Path
<1>4. \A n \in 0 .. Len(<<>>) : Prefix(<<>>, n) = <<>>
  BY <1>3, WholePrefix
<1>5. IsTrie(EmptyTrie)
  BY <1>1, <1>2, <1>3, <1>4 DEF IsTrie
<1>6. KeysOf([trie |-> EmptyTrie, changed |-> FALSE]) = {}
  BY <1>1 DEF KeysOf
<1> QED BY <1>5, <1>6

\* The nodes on the way to a key.
LEMMA PathsToKey ==
  ASSUME NEW key \in Path
  PROVE  /\ PathsTo(key) \subseteq Path /\ IsFiniteSet(PathsTo(key))
         /\ key \in PathsTo(key) /\ <<>> \in PathsTo(key)
         /\ \A p \in PathsTo(key) : \A n \in 0 .. Len(p) : Prefix(p, n) \in PathsTo(key)
<1> DEFINE numbers == 0 .. Len(key)
           f == [n \in numbers |-> Prefix(key, n)]
<1>1. Len(key) \in Nat
  BY DEF Path
<1>2. PathsTo(key) = {Prefix(key, n) : n \in numbers}
  BY DEF PathsTo, Prefix
<1>3. PathsTo(key) \subseteq Path
  BY <1>2, PrefixType
<1>4. IsFiniteSet(PathsTo(key))
  <2>1. f \in Surjection(numbers, PathsTo(key))
    BY <1>2 DEF Surjection
  <2>2. IsFiniteSet(numbers)
    BY <1>1, FS_Interval
  <2> HIDE DEF f, numbers
  <2> QED BY <2>1, <2>2, FS_Surjection
<1>5. key \in PathsTo(key) /\ <<>> \in PathsTo(key)
  BY <1>1, <1>2, WholePrefix
<1>6. ASSUME NEW p \in PathsTo(key), NEW n \in 0 .. Len(p)
      PROVE  Prefix(p, n) \in PathsTo(key)
  <2>1. PICK m \in numbers : p = Prefix(key, m)
    BY <1>2
  <2>2. Len(p) = m
    BY <2>1, PrefixType
  <2>3. Prefix(p, n) = Prefix(key, n)
    BY <2>1, <2>2, PrefixOfPrefix
  <2>4. n \in numbers
    BY <1>1, <2>2
  <2> QED BY <1>2, <2>3, <2>4
<1> QED BY <1>3, <1>4, <1>5, <1>6

\* A key has a leaf if and only if Get returns one.
LEMMA KeysHaveLeaves ==
  ASSUME NEW index, IsTrie(index.trie)
  PROVE  /\ \A k : k \in KeysOf(index) <=> Get(index, k) # NonExistLeaf
         /\ \A k \in KeysOf(index) : Get(index, k) = index.trie[k] /\ k # <<>> /\ k \in Path
BY DEF KeysOf, Get, IsTrie

LEMMA InsertAddsKey ==
  ASSUME NEW index, IsTrie(index.trie), NEW key \in Path, key # <<>>, NEW leaf
  PROVE  LET new == Insert(index, key, leaf)
         IN  /\ IsTrie(new.trie) /\ new.changed = TRUE
             /\ DOMAIN new.trie = DOMAIN index.trie \cup PathsTo(key)
             /\ \A k : Get(new, k) = IF k = key THEN leaf ELSE Get(index, k)
             /\ leaf # NonExistLeaf => KeysOf(new) = KeysOf(index) \cup {key}
<1> DEFINE new == Insert(index, key, leaf)
           nodes == DOMAIN index.trie \cup PathsTo(key)
<1>1. /\ new.changed = TRUE
      /\ new.trie = [p \in nodes |-> IF p = key THEN leaf
                                     ELSE IF p \in DOMAIN index.trie THEN index.trie[p]
                                     ELSE NonExistLeaf]
  BY DEF Insert
<1>2. nodes \subseteq Path /\ IsFiniteSet(nodes)
  BY PathsToKey, FS_Union DEF IsTrie
<1>3. \A p \in nodes : \A n \in 0 .. Len(p) : Prefix(p, n) \in nodes
  BY PathsToKey DEF IsTrie
<1>4. key \in nodes /\ <<>> \in nodes
  BY PathsToKey
<1> HIDE DEF new
<1>5. DOMAIN new.trie = nodes /\ new.trie = [p \in DOMAIN new.trie |-> new.trie[p]]
  BY <1>1
<1>6. new.trie[<<>>] = NonExistLeaf
  BY <1>1, <1>4 DEF IsTrie
<1>7. IsTrie(new.trie)
  <2> HIDE DEF nodes
  <2> QED BY <1>2, <1>3, <1>4, <1>5, <1>6 DEF IsTrie
<1>8. \A k : Get(new, k) = IF k = key THEN leaf ELSE Get(index, k)
  BY <1>1, <1>4 DEF Get
<1>9. leaf # NonExistLeaf => KeysOf(new) = KeysOf(index) \cup {key}
  <2>1. \A k : k \in KeysOf(new) <=> Get(new, k) # NonExistLeaf
    BY <1>7, KeysHaveLeaves
  <2>2. \A k : k \in KeysOf(index) <=> Get(index, k) # NonExistLeaf
    BY KeysHaveLeaves
  <2> QED BY <1>8, <2>1, <2>2
<1> QED BY <1>1, <1>5, <1>7, <1>8, <1>9 DEF new

LEMMA DeleteRemovesKey ==
  ASSUME NEW index, IsTrie(index.trie), NEW key \in Path, key # <<>>
  PROVE  LET new == Delete(index, key)
         IN  /\ IsTrie(new.trie) /\ new.changed = TRUE
             /\ DOMAIN new.trie = DOMAIN index.trie
             /\ \A k : Get(new, k) = IF k = key THEN NonExistLeaf ELSE Get(index, k)
             /\ KeysOf(new) = KeysOf(index) \ {key}
<1> DEFINE new == Delete(index, key)
<1>1. /\ new.changed = TRUE
      /\ new.trie = [p \in DOMAIN index.trie |-> IF p = key THEN NonExistLeaf ELSE index.trie[p]]
  BY DEF Delete
<1> HIDE DEF new
<1>2. DOMAIN new.trie = DOMAIN index.trie /\ new.trie = [p \in DOMAIN new.trie |-> new.trie[p]]
  BY <1>1
<1>3. new.trie[<<>>] = NonExistLeaf
  BY <1>1 DEF IsTrie
<1>4. IsTrie(new.trie)
  BY <1>2, <1>3 DEF IsTrie
<1>5. \A k : Get(new, k) = IF k = key THEN NonExistLeaf ELSE Get(index, k)
  BY <1>1 DEF Get
<1>6. KeysOf(new) = KeysOf(index) \ {key}
  <2>1. \A k : k \in KeysOf(new) <=> Get(new, k) # NonExistLeaf
    BY <1>4, KeysHaveLeaves
  <2>2. \A k : k \in KeysOf(index) <=> Get(index, k) # NonExistLeaf
    BY KeysHaveLeaves
  <2> QED BY <1>5, <2>1, <2>2
<1> QED BY <1>1, <1>2, <1>4, <1>5, <1>6 DEF new

\* The characters of a key that the trie has nodes for: the most there are.
LEMMA MaxSubKey ==
  ASSUME NEW index, IsTrie(index.trie), NEW key \in Path
  PROVE  /\ FindMaxSubKey(index, key) \in 0 .. Len(key)
         /\ Prefix(key, FindMaxSubKey(index, key)) \in DOMAIN index.trie
         /\ \A m \in 0 .. Len(key) :
              Prefix(key, m) \in DOMAIN index.trie => m <= FindMaxSubKey(index, key)
<1> DEFINE IsNode(n) == Prefix(key, n) \in DOMAIN index.trie
           T == {m \in 0 .. Len(key) : IsNode(Len(key) - m)}
<1>1. Len(key) \in Nat
  BY DEF Path
<1>2. IsNode(0)
  BY WholePrefix DEF IsTrie
<1>3. Len(key) \in T /\ T \subseteq Nat
  BY <1>1, <1>2
<1>4. PICK m \in T : \A n \in T : m <= n
  <2> HIDE DEF T
  <2> QED BY <1>3, LeastNumber
<1>5. Len(key) - m \in 0 .. Len(key) /\ IsNode(Len(key) - m) /\ m \in Nat
  BY <1>1, <1>4
<1>6. ASSUME NEW n \in 0 .. Len(key), IsNode(n) PROVE n <= Len(key) - m
  <2>1. Len(key) - n \in 0 .. Len(key) /\ Len(key) - (Len(key) - n) = n
    BY <1>1
  <2>2. Len(key) - n \in T
    <3> HIDE DEF IsNode
    <3> QED BY <1>6, <2>1
  <2>3. m <= Len(key) - n
    <3> HIDE DEF T
    <3> QED BY <1>4, <2>2
  <2> QED BY <1>1, <1>5, <2>1, <2>3
<1>7. \E n \in 0 .. Len(key) : IsNode(n) /\ \A l \in 0 .. Len(key) : IsNode(l) => l <= n
  <2> HIDE DEF IsNode, T
  <2> QED BY <1>5, <1>6
<1>8. FindMaxSubKey(index, key) =
        CHOOSE n \in 0 .. Len(key) : IsNode(n) /\ \A l \in 0 .. Len(key) : IsNode(l) => l <= n
  BY DEF FindMaxSubKey, Prefix
<1> HIDE DEF IsNode
<1>9. /\ FindMaxSubKey(index, key) \in 0 .. Len(key) /\ IsNode(FindMaxSubKey(index, key))
      /\ \A l \in 0 .. Len(key) : IsNode(l) => l <= FindMaxSubKey(index, key)
  BY <1>7, <1>8, Zenon
<1> QED BY <1>9 DEF IsNode
=============================================================================
