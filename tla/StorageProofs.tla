---------------------------- MODULE StorageProofs ----------------------------
(***************************************************************************)
(* Storage for any number of threads, volumes, mount points and calls: the *)
(* groups that calls go through stay as they are, are sorted and named by  *)
(* the index, and a call is served by the best volume that is there.       *)
(***************************************************************************)
EXTENDS Storage, FiniteSetTheorems, SequenceTheorems, WellFoundedInduction, TLAPS

(***************************************************************************)
(* What holds of a sequence with an element more.                          *)
(***************************************************************************)
LEMMA InsertAtElements ==
  ASSUME NEW S, NEW s \in Seq(S), NEW e \in S, NEW n \in 1 .. Len(s) + 1
  PROVE  /\ InsertAt(s, n, e) \in Seq(S)
         /\ Len(InsertAt(s, n, e)) = Len(s) + 1
         /\ \A i \in 1 .. Len(s) + 1 :
              InsertAt(s, n, e)[i] = IF i < n THEN s[i] ELSE IF i = n THEN e ELSE s[i - 1]
<1> DEFINE a == SubSeq(s, 1, n - 1)
           b == SubSeq(s, n, Len(s))
           c == a \o <<e>>
<1>1. a \in Seq(S) /\ Len(a) = n - 1 /\ \A i \in 1 .. n - 1 : a[i] = s[i]
  OBVIOUS
<1>2. b \in Seq(S) /\ Len(b) = Len(s) - n + 1 /\ \A i \in 1 .. Len(s) - n + 1 : b[i] = s[n + i - 1]
  OBVIOUS
<1>3. InsertAt(s, n, e) = c \o b
  BY DEF InsertAt
<1> HIDE DEF a, b
<1>4. <<e>> \in Seq(S) /\ Len(<<e>>) = 1 /\ <<e>>[1] = e
  OBVIOUS
<1>5. c \in Seq(S) /\ Len(c) = n /\ \A i \in 1 .. n : c[i] = IF i < n THEN s[i] ELSE e
  BY <1>1, <1>4
<1> HIDE DEF c
<1>6. /\ c \o b \in Seq(S) /\ Len(c \o b) = Len(s) + 1
      /\ \A i \in 1 .. Len(s) + 1 : (c \o b)[i] = IF i <= n THEN c[i] ELSE b[i - n]
  <2>1. Len(c) + Len(b) = Len(s) + 1
    BY <1>2, <1>5
  <2> QED BY <2>1, <1>2, <1>5, ConcatProperties
<1>7. ASSUME NEW i \in 1 .. Len(s) + 1
      PROVE  (c \o b)[i] = IF i < n THEN s[i] ELSE IF i = n THEN e ELSE s[i - 1]
  <2>1. CASE i <= n
    BY <2>1, <1>5, <1>6
  <2>2. CASE ~(i <= n)
    <3>1. (c \o b)[i] = b[i - n] /\ i - n \in 1 .. Len(s) - n + 1
      BY <2>2, <1>6
    <3>2. b[i - n] = s[n + (i - n) - 1]
      BY <3>1, <1>2
    <3> QED BY <2>2, <3>1, <3>2
  <2> QED BY <2>1, <2>2
<1>8. \A i \in 1 .. Len(s) + 1 :
        (c \o b)[i] = IF i < n THEN s[i] ELSE IF i = n THEN e ELSE s[i - 1]
  BY <1>7
<1> QED BY <1>3, <1>6, <1>8, Zenon

\* The least place of a group that does not come before a priority exists.
LEMMA LeastPlace ==
  ASSUME NEW T, T \subseteq Nat, T # {}
  PROVE  \E m \in T : \A n \in T : m <= n
<1>1. T \subseteq Nat /\ T # {}
  OBVIOUS
<1>2. PICK m \in T : \A n \in T : ~(<<n, m>> \in OpToRel(<, Nat))
  BY <1>1, NatLessThanWellFounded, WFMin
<1>3. ASSUME NEW n \in T PROVE m <= n
  <2>1. m \in Nat /\ n \in Nat
    BY <1>1
  <2>2. ~(<<n, m>> \in OpToRel(<, Nat))
    BY <1>2
  <2>3. ~(n < m)
    BY <2>1, <2>2 DEF OpToRel
  <2> QED BY <2>1, <2>3
<1> QED BY <1>3

Points == [volume : Volumes, catalog : Catalogs, priority : Int, order : Nat]

LEMMA UnsignedIsNat == \A priority \in Int : Unsigned(priority) \in Nat
<1>1. PrioritySize \in Nat \ {0}
  BY StorageAssumption DEF StorageAssumption
<1> QED BY <1>1 DEF Unsigned

LEMMA PrioritiesOfGroup ==
  ASSUME NEW group \in Seq(Points), NEW i \in 1 .. Len(group)
  PROVE  group[i] \in Points /\ Unsigned(group[i].priority) \in Nat /\ group[i].order \in Nat
<1>1. group[i] \in Points
  OBVIOUS
<1> QED BY <1>1, UnsignedIsNat DEF Points

\* Whatever a group looks like, lower_bound finds a place: lower priorities are before
\* it, and behind it, if there is anything, comes one that is not lower.
LEMMA LowerBoundPlace ==
  ASSUME NEW group \in Seq(Points), NEW priority \in Int
  PROVE  LET n == LowerBound(group, priority)
         IN  /\ n \in 1 .. Len(group) + 1
             /\ \A i \in 1 .. n - 1 : Unsigned(group[i].priority) < Unsigned(priority)
             /\ n <= Len(group) => Unsigned(group[n].priority) >= Unsigned(priority)
<1> DEFINE Stops(n) == n <= Len(group) => Unsigned(group[n].priority) >= Unsigned(priority)
           T == {n \in 1 .. Len(group) + 1 : Stops(n)}
<1>1. T \subseteq Nat /\ Len(group) + 1 \in T
  OBVIOUS
<1>2. PICK m \in T : \A n \in T : m <= n
  <2> HIDE DEF T
  <2> QED BY <1>1, LeastPlace
<1>3. m \in 1 .. Len(group) + 1 /\ Stops(m)
  BY <1>2
<1>4. ASSUME NEW i \in 1 .. m - 1
      PROVE  Unsigned(group[i].priority) < Unsigned(priority)
  <2>1. i \in 1 .. Len(group) /\ i < m
    BY <1>3
  <2>2. i \notin T
    <3>1. m \in Nat /\ i \in Nat /\ ~(m <= i)
      BY <1>3, <2>1
    <3> HIDE DEF T
    <3> QED BY <1>2, <3>1
  <2>3. Unsigned(group[i].priority) \in Nat /\ Unsigned(priority) \in Nat
    BY <2>1, PrioritiesOfGroup, UnsignedIsNat
  <2>4. ~Stops(i)
    BY <2>1, <2>2
  <2> QED BY <2>3, <2>4
<1>5. \E n \in 1 .. Len(group) + 1 :
        /\ \A i \in 1 .. n - 1 : Unsigned(group[i].priority) < Unsigned(priority)
        /\ n <= Len(group) => Unsigned(group[n].priority) >= Unsigned(priority)
  <2> HIDE DEF T
  <2> QED BY <1>3, <1>4
<1> QED BY <1>5 DEF LowerBound

(***************************************************************************)
(* A group is ordered, and stays so when a mount point with a higher order *)
(* than all of the group is inserted.                                      *)
(***************************************************************************)
Precedes(lower, upper) ==
  \/ Unsigned(lower.priority) < Unsigned(upper.priority)
  \/ /\ Unsigned(lower.priority) = Unsigned(upper.priority)
     /\ lower.order > upper.order

Ordered(group) == \A i, j \in DOMAIN group : i < j => Precedes(group[i], group[j])

Before(group, n) == \A i \in DOMAIN group : group[i].order < n

LEMMA InsertedIsOrdered ==
  ASSUME NEW group \in Seq(Points), Ordered(group),
         NEW point \in Points, Before(group, point.order)
  PROVE  /\ Inserted(group, point) \in Seq(Points)
         /\ Inserted(group, point) # <<>>
         /\ Ordered(Inserted(group, point))
         /\ Before(Inserted(group, point), point.order + 1)
<1> DEFINE n == LowerBound(group, point.priority)
           new == Inserted(group, point)
<1>1. /\ n \in 1 .. Len(group) + 1
      /\ \A i \in 1 .. n - 1 : Unsigned(group[i].priority) < Unsigned(point.priority)
      /\ n <= Len(group) => Unsigned(group[n].priority) >= Unsigned(point.priority)
  BY LowerBoundPlace DEF Points
<1> HIDE DEF n
<1>2. new = InsertAt(group, n, point)
  BY Zenon DEF Inserted, n
<1>3. /\ new \in Seq(Points) /\ Len(new) = Len(group) + 1
      /\ \A i \in 1 .. Len(group) + 1 :
           new[i] = IF i < n THEN group[i] ELSE IF i = n THEN point ELSE group[i - 1]
  <2> HIDE DEF new
  <2>1. /\ InsertAt(group, n, point) \in Seq(Points)
        /\ Len(InsertAt(group, n, point)) = Len(group) + 1
        /\ \A i \in 1 .. Len(group) + 1 :
             InsertAt(group, n, point)[i] =
               IF i < n THEN group[i] ELSE IF i = n THEN point ELSE group[i - 1]
    BY <1>1, InsertAtElements
  <2> QED BY <1>2, <2>1, Zenon
<1> HIDE DEF new
<1>4. \A i \in 1 .. Len(group) : group[i] \in Points /\ Unsigned(group[i].priority) \in Nat
  BY PrioritiesOfGroup
<1>5. point.order \in Nat /\ Unsigned(point.priority) \in Nat
  BY UnsignedIsNat DEF Points
<1>6. \A i, j \in 1 .. Len(group) : i < j => Precedes(group[i], group[j])
  BY DEF Ordered
<1>7. \A i \in 1 .. Len(group) : group[i].order \in Nat /\ group[i].order < point.order
  BY <1>4 DEF Before, Points
<1>8. ASSUME NEW i \in 1 .. Len(group) + 1, NEW j \in 1 .. Len(group) + 1, i < j
      PROVE  Precedes(new[i], new[j])
  <2>1. CASE j < n
    BY <1>3, <1>6, <2>1, <1>8, <1>1
  <2>2. CASE j = n
    BY <1>3, <1>1, <2>2, <1>8 DEF Precedes
  <2>3. CASE i < n /\ n < j
    BY <1>3, <1>6, <2>3, <1>1
  <2>4. CASE i = n /\ n < j
    <3>1. new[i] = point /\ new[j] = group[j - 1] /\ j - 1 \in n .. Len(group)
      BY <1>3, <1>1, <2>4
    <3>2. Unsigned(group[n].priority) <= Unsigned(group[j - 1].priority)
      <4>1. CASE j - 1 = n
        BY <4>1, <3>1, <1>4, <1>1
      <4>2. CASE n < j - 1
        BY <4>2, <3>1, <1>4, <1>6, <1>1 DEF Precedes
      <4> QED BY <3>1, <4>1, <4>2, <1>1
    <3>3. Unsigned(group[j - 1].priority) >= Unsigned(point.priority)
      BY <3>1, <3>2, <1>1, <1>4, <1>5
    <3>4. point.order > group[j - 1].order
      BY <3>1, <1>1, <1>7, <1>5
    <3> QED BY <3>1, <3>3, <3>4, <1>1, <1>4, <1>5 DEF Precedes
  <2>5. CASE n < i
    <3>1. i - 1 \in 1 .. Len(group) /\ j - 1 \in 1 .. Len(group) /\ i - 1 < j - 1
      BY <2>5, <1>8, <1>1
    <3>2. new[i] = group[i - 1] /\ new[j] = group[j - 1]
      BY <1>3, <2>5, <1>8, <1>1
    <3> QED BY <3>1, <3>2, <1>6
  <2> QED BY <2>1, <2>2, <2>3, <2>4, <2>5, <1>8, <1>1
<1>9. ASSUME NEW i \in 1 .. Len(group) + 1
      PROVE  new[i].order < point.order + 1
  <2>1. CASE i < n
    BY <2>1, <1>3, <1>7, <1>5, <1>1
  <2>2. CASE i = n
    BY <2>2, <1>3, <1>5
  <2>3. CASE i > n
    <3>1. i - 1 \in 1 .. Len(group) /\ new[i] = group[i - 1]
      BY <2>3, <1>1, <1>3
    <3> QED BY <3>1, <1>7, <1>5
  <2> QED BY <2>1, <2>2, <2>3, <1>1
<1>10. DOMAIN new = 1 .. Len(group) + 1 /\ new # <<>>
  BY <1>3
<1> QED BY <1>3, <1>8, <1>9, <1>10 DEF Ordered, Before, new

(***************************************************************************)
(* mutex_: a thread that mounts is alone with it.                          *)
(***************************************************************************)
Places == {"idle", "waiting", "scanning", "mounting"}

LockInv ==
  /\ pc \in [Threads -> Places]
  /\ \A t, u \in Threads : pc[t] = "mounting" /\ pc[u] \in {"scanning", "mounting"} => t = u

LEMMA LockTaken ==
  ASSUME LockInv, NEW t \in Threads, NEW to \in Places, pc' = [pc EXCEPT ![t] = to],
         to \in {"scanning", "mounting"} => NoWriter,
         to = "mounting" => NoReader
  PROVE  LockInv'
<1>1. pc' \in [Threads -> Places]
  BY DEF LockInv
<1>2. ASSUME NEW u \in Threads, NEW v \in Threads,
             pc'[u] = "mounting", pc'[v] \in {"scanning", "mounting"}
      PROVE  u = v
  BY <1>2 DEF LockInv, NoWriter, NoReader
<1> QED BY <1>1, <1>2 DEF LockInv

\* What a step does to the locks, and that only Mount changes the groups.
LEMMA LockStep ==
  ASSUME LockInv, [Next]_vars
  PROVE  /\ LockInv'
         /\ (\A t \in Threads : pc[t] # "mounting") => UNCHANGED <<groups, index>>
         /\ (\E t \in Threads : pc[t] = "scanning") => UNCHANGED <<groups, index>>
<1> DEFINE Still == UNCHANGED <<groups, index>>
<1> USE DEF Places
<1>1. ASSUME NEW t \in Callers, BeginCall(t) PROVE LockInv' /\ Still
  BY <1>1, LockTaken DEF BeginCall, Begin, Threads
<1>2. ASSUME NEW t \in Mounters, BeginMount(t) PROVE LockInv' /\ Still
  BY <1>2, LockTaken DEF BeginMount, Begin, Threads
<1>3. ASSUME NEW t \in Threads, Enter(t) PROVE LockInv' /\ Still
  BY <1>3, LockTaken DEF Enter, Return, Leave
<1>4. ASSUME NEW t \in Threads, Visit(t) PROVE LockInv' /\ Still
  <2>1. CASE UNCHANGED pc
    BY <1>4, <2>1 DEF Visit, LockInv
  <2>2. CASE Leave(t)
    BY <1>4, <2>2, LockTaken DEF Visit, Leave
  <2> QED BY <1>4, <2>1, <2>2 DEF Visit, Return
<1>5. ASSUME NEW t \in Threads, LockForMount(t) PROVE LockInv' /\ Still
  BY <1>5, LockTaken DEF LockForMount, Leave
<1>6. ASSUME NEW t \in Threads, Mount(t)
      PROVE  LockInv' /\ pc[t] = "mounting" /\ \A u \in Threads : pc[u] # "scanning"
  <2>1. pc[t] = "mounting" /\ pc' = [pc EXCEPT ![t] = "idle"]
    BY <1>6 DEF Mount, Leave
  <2> QED BY <2>1, LockTaken DEF LockInv
<1>7. CASE Tick \/ FailDevice \/ UNCHANGED vars
  BY <1>7 DEF Tick, FailDevice, vars, LockInv
<1> QED BY <1>1, <1>2, <1>3, <1>4, <1>5, <1>6, <1>7 DEF Next, Step, vars

LEMMA LocksAreHeld == Spec => []LockInv
<1>1. Init => LockInv
  BY DEF Init, LockInv, Places
<1>2. LockInv /\ [Next]_vars => LockInv'
  BY LockStep
<1> QED BY <1>1, <1>2, PTL DEF Spec

\* No step changes the group that a call under way goes through (RangesStay).
THEOREM CallsKeepTheirRange == Spec => RangesStay
<1> DEFINE Stay == \A t \in Threads :
             pc[t] = "scanning" => \A key \in {request[t].key} : Group(key)' = Group(key)
<1>1. LockInv /\ [Next]_vars => [Stay]_vars
  <2> SUFFICES ASSUME LockInv, [Next]_vars, NEW t \in Threads, pc[t] = "scanning", NEW key
               PROVE  Group(key)' = Group(key)
    OBVIOUS
  <2>1. UNCHANGED <<groups, index>>
    BY LockStep
  <2> QED BY <2>1 DEF Group, GroupId, PathLength
<1>2. Spec => [][Stay]_vars
  BY <1>1, LocksAreHeld, PTL DEF Spec
<1> QED BY <1>2 DEF RangesStay

(***************************************************************************)
(* The groups and the index over them: GroupInv is inductive with what a   *)
(* thread that mounts was asked for.  All mount points of a group have an  *)
(* order below the next one, so a new one is the last of its priority.     *)
(***************************************************************************)
MountCalls ==
  {MountCall(volume, path, catalog) : volume \in Volumes, path \in Paths, catalog \in Catalogs}

RequestInv ==
  /\ request \in [Threads -> Calls \cup MountCalls \cup {Nothing}]
  /\ \A t \in Threads :
       /\ pc[t] = "waiting" => request[t] \in Calls \cup MountCalls
       /\ pc[t] = "mounting" => request[t] \in MountCalls

GroupInv ==
  /\ groups \in Seq(Seq(Points))
  /\ mounts \in Nat
  /\ \A id \in DOMAIN groups : Ordered(groups[id]) /\ Before(groups[id], mounts)
  /\ IndexNamesGroups

LEMMA CallsAreNoMounts == \A call \in Calls : call.op # "Mount"
  BY DEF Calls, Call

LEMMA RequestStep ==
  ASSUME LockInv, RequestInv, [Next]_vars
  PROVE  RequestInv'
<1> USE DEF RequestInv, LockInv
<1>1. ASSUME NEW t \in Callers, BeginCall(t) PROVE RequestInv'
  BY <1>1 DEF BeginCall, Begin, Threads
<1>2. ASSUME NEW t \in Mounters, BeginMount(t) PROVE RequestInv'
  <2>1. PICK call \in MountCalls : Begin(t, call)
    BY <1>2 DEF BeginMount, MountCalls
  <2> QED BY <2>1 DEF Begin, Threads
<1>3. ASSUME NEW t \in Threads, Enter(t) PROVE RequestInv'
  BY <1>3 DEF Enter, Return, Leave
<1>4. ASSUME NEW t \in Threads, Visit(t) PROVE RequestInv'
  <2>1. CASE UNCHANGED <<pc, request>>
    BY <2>1
  <2>2. CASE Leave(t)
    BY <2>2 DEF Leave
  <2> QED BY <1>4, <2>1, <2>2 DEF Visit, Return
<1>5. ASSUME NEW t \in Threads, LockForMount(t) PROVE RequestInv'
  <2>1. request[t] \in MountCalls
    BY <1>5, CallsAreNoMounts DEF LockForMount
  <2> QED BY <1>5, <2>1 DEF LockForMount, Leave
<1>6. ASSUME NEW t \in Threads, Mount(t) PROVE RequestInv'
  BY <1>6 DEF Mount, Leave
<1>7. CASE Tick \/ FailDevice \/ UNCHANGED vars
  BY <1>7 DEF Tick, FailDevice, vars
<1> QED BY <1>1, <1>2, <1>3, <1>4, <1>5, <1>6, <1>7 DEF Next, Step, vars

\* A path that nothing was mounted at gets the next id.
LEMMA NewPath ==
  ASSUME GroupInv, NEW path \in Paths, Get(index, path) = NonExistLeaf, NEW point \in Points,
         index' = Insert(index, path, Len(groups)), groups' = Append(groups, <<point>>)
  PROVE  IndexNamesGroups'
<1> DEFINE T == index.trie
<1>1. path # <<>> /\ path \in PathsTo(path) /\ NonExistLeaf \notin Nat
  BY PathsAssumption, StorageAssumption DEF PathsAssumption, StorageAssumption
<1>2. Len(groups) \in Nat /\ Len(groups') = Len(groups) + 1
  BY DEF GroupInv
<1>3. index'.trie = [p \in DOMAIN T \cup PathsTo(path) |->
                       IF p = path THEN Len(groups) ELSE IF p \in DOMAIN T THEN T[p] ELSE NonExistLeaf]
  BY <1>1 DEF Insert
<1>4. path \notin KeysOf(index)
  BY <1>1 DEF Get, KeysOf
<1>5. KeysOf(index)' = KeysOf(index) \cup {path}
  BY <1>1, <1>2, <1>3 DEF KeysOf
<1>6. /\ \A p \in KeysOf(index) : index'.trie[p] = T[p]
      /\ index'.trie[path] = Len(groups)
  BY <1>1, <1>3, <1>4 DEF KeysOf
<1>7. {T[p] : p \in KeysOf(index)} = 0 .. Len(groups) - 1
  BY DEF GroupInv, IndexNamesGroups
<1>8. {index'.trie[p] : p \in KeysOf(index)'} = 0 .. Len(groups') - 1
  <2>1. {index'.trie[p] : p \in KeysOf(index)'} = {T[p] : p \in KeysOf(index)} \cup {Len(groups)}
    BY <1>5, <1>6
  <2> QED BY <2>1, <1>7, <1>2
<1>9. \A p, q \in KeysOf(index)' : index'.trie[p] = index'.trie[q] => p = q
  <2>1. \A p \in KeysOf(index) : T[p] # Len(groups)
    BY <1>7, <1>2
  <2>2. \A p, q \in KeysOf(index) : T[p] = T[q] => p = q
    BY DEF GroupInv, IndexNamesGroups
  <2> QED BY <2>1, <2>2, <1>5, <1>6
<1>10. \A id \in DOMAIN groups' : groups'[id] # <<>>
  <2>1. DOMAIN groups' = 1 .. Len(groups) + 1
    BY DEF GroupInv
  <2>2. \A id \in 1 .. Len(groups) + 1 :
          groups'[id] = IF id <= Len(groups) THEN groups[id] ELSE <<point>>
    BY DEF GroupInv
  <2>3. \A id \in 1 .. Len(groups) : groups[id] # <<>>
    BY DEF GroupInv, IndexNamesGroups
  <2> QED BY <2>1, <2>2, <2>3, <1>2
<1> QED BY <1>8, <1>9, <1>10 DEF IndexNamesGroups

\* What a path that has a group leads to is an id of the vector.
LEMMA IdsOfGroups ==
  ASSUME GroupInv, NEW path, Get(index, path) # NonExistLeaf
  PROVE  Get(index, path) + 1 \in DOMAIN groups
<1>1. path \in KeysOf(index) /\ Get(index, path) = index.trie[path]
  BY DEF Get, KeysOf
<1>2. index.trie[path] \in 0 .. Len(groups) - 1
  BY <1>1 DEF GroupInv, IndexNamesGroups
<1> QED BY <1>1, <1>2 DEF GroupInv

\* Mount with the volume, the path and the catalog that it was asked for.
LEMMA MountKeepsGroups ==
  ASSUME GroupInv, NEW path \in Paths, NEW volume \in Volumes, NEW catalog \in Catalogs,
         AddMountPoint(path, MountPoint(volume, catalog)), mounts' = mounts + 1
  PROVE  GroupInv'
<1> DEFINE point == MountPoint(volume, catalog)
           id == Get(index, path)
<1>1. mounts \in Nat /\ groups \in Seq(Seq(Points))
  BY DEF GroupInv
<1>2. point \in Points /\ point.order = mounts
  <2>1. Priority[volume] \in Int
    BY StorageAssumption DEF StorageAssumption
  <2> QED BY <2>1, <1>1 DEF MountPoint, Points
<1> HIDE DEF point
<1>3. \A i \in DOMAIN groups :
        groups[i] \in Seq(Points) /\ Ordered(groups[i]) /\ Before(groups[i], mounts)
  BY <1>1 DEF GroupInv
<1>4. ASSUME NEW group \in Seq(Points), Before(group, mounts)
      PROVE  Before(group, mounts + 1)
  <2> SUFFICES ASSUME NEW i \in 1 .. Len(group) PROVE group[i].order < mounts + 1
    BY DEF Before
  <2>1. group[i].order \in Nat /\ group[i].order < mounts
    BY <1>4, PrioritiesOfGroup DEF Before
  <2> QED BY <2>1, <1>1
<1>5. CASE id = NonExistLeaf
  <2>1. index' = Insert(index, path, Len(groups)) /\ groups' = Append(groups, <<point>>)
    BY <1>5 DEF AddMountPoint, point
  <2>2. IndexNamesGroups'
    BY <1>2, <1>5, <2>1, NewPath
  <2>3. <<point>> \in Seq(Points) /\ Len(<<point>>) = 1 /\ <<point>>[1] = point
    BY <1>2
  <2>4. Ordered(<<point>>) /\ Before(<<point>>, mounts + 1)
    BY <2>3, <1>2, <1>1 DEF Ordered, Before
  <2>5. groups' \in Seq(Seq(Points)) /\ DOMAIN groups' = 1 .. Len(groups) + 1
    BY <2>1, <2>3, <1>1
  <2>6. \A i \in DOMAIN groups' : groups'[i] = IF i <= Len(groups) THEN groups[i] ELSE <<point>>
    BY <2>1, <2>3, <2>5, <1>1
  <2>7. \A i \in DOMAIN groups' : Ordered(groups'[i]) /\ Before(groups'[i], mounts')
    <3> SUFFICES ASSUME NEW i \in DOMAIN groups'
                 PROVE  Ordered(groups'[i]) /\ Before(groups'[i], mounts + 1)
      OBVIOUS
    <3>1. CASE i <= Len(groups)
      <4>1. i \in DOMAIN groups /\ groups'[i] = groups[i]
        BY <3>1, <2>5, <2>6, <1>1
      <4> QED BY <4>1, <1>3, <1>4
    <3>2. CASE ~(i <= Len(groups))
      <4>1. groups'[i] = <<point>>
        BY <3>2, <2>6
      <4> QED BY <4>1, <2>4
    <3> QED BY <3>1, <3>2
  <2> QED BY <2>2, <2>5, <2>7, <1>1 DEF GroupInv
<1>6. CASE id # NonExistLeaf
  <2> DEFINE new == Inserted(groups[id + 1], point)
  <2>1. id + 1 \in DOMAIN groups
    BY <1>6, IdsOfGroups
  <2>2. groups' = [groups EXCEPT ![id + 1] = new] /\ UNCHANGED index
    BY <1>6 DEF AddMountPoint, point
  <2>3. /\ new \in Seq(Points) /\ new # <<>>
        /\ Ordered(new) /\ Before(new, mounts + 1)
    BY <2>1, <1>2, <1>3, InsertedIsOrdered
  <2> HIDE DEF new, id
  <2>4. groups' \in Seq(Seq(Points)) /\ Len(groups') = Len(groups)
    BY <1>1, <2>1, <2>2, <2>3
  <2>5. \A i \in DOMAIN groups : groups'[i] = IF i = id + 1 THEN new ELSE groups[i]
    BY <1>1, <2>1, <2>2
  <2>6. DOMAIN groups' = DOMAIN groups
    BY <1>1, <2>2
  <2>7. \A i \in DOMAIN groups' : Ordered(groups'[i]) /\ Before(groups'[i], mounts')
    BY <1>3, <1>4, <2>3, <2>5, <2>6
  <2>8. IndexNamesGroups'
    BY <2>2, <2>3, <2>4, <2>5, <2>6 DEF GroupInv, IndexNamesGroups, KeysOf
  <2> QED BY <2>4, <2>7, <2>8, <1>1 DEF GroupInv
<1> QED BY <1>5, <1>6

LEMMA GroupStep ==
  ASSUME LockInv, RequestInv, GroupInv, [Next]_vars
  PROVE  GroupInv'
<1>1. ASSUME UNCHANGED <<groups, index>>, mounts' \in {mounts, mounts + 1} PROVE GroupInv'
  <2>1. mounts \in Nat /\ groups \in Seq(Seq(Points))
    BY DEF GroupInv
  <2>2. \A id \in DOMAIN groups : Before(groups[id], mounts')
    <3> SUFFICES ASSUME NEW id \in DOMAIN groups, NEW i \in 1 .. Len(groups[id])
                 PROVE  groups[id][i].order < mounts'
      BY <2>1 DEF Before
    <3>1. groups[id] \in Seq(Points) /\ Before(groups[id], mounts)
      BY <2>1 DEF GroupInv
    <3>2. groups[id][i].order \in Nat /\ groups[id][i].order < mounts
      BY <3>1, PrioritiesOfGroup DEF Before
    <3> QED BY <3>2, <2>1, <1>1
  <2>3. IndexNamesGroups'
    BY <1>1 DEF GroupInv, IndexNamesGroups, KeysOf
  <2> QED BY <2>1, <2>2, <2>3, <1>1 DEF GroupInv
<1>2. ASSUME NEW t \in Threads, Mount(t) PROVE GroupInv'
  <2>1. PICK volume \in Volumes, path \in Paths, catalog \in Catalogs :
          request[t] = MountCall(volume, path, catalog)
    BY <1>2 DEF Mount, RequestInv, MountCalls
  <2>2. mounts' = mounts + 1
    BY <1>2 DEF Mount
  <2>3. CASE UNCHANGED <<groups, index>>
    BY <2>2, <2>3, <1>1
  <2>4. CASE AddMountPoint(path, MountPoint(volume, catalog))
    BY <2>2, <2>4, MountKeepsGroups
  <2> QED BY <1>2, <2>1, <2>3, <2>4 DEF Mount, MountCall
<1>3. ASSUME NEW t \in Callers, BeginCall(t) PROVE GroupInv'
  BY <1>1, <1>3 DEF BeginCall, Begin
<1>4. ASSUME NEW t \in Mounters, BeginMount(t) PROVE GroupInv'
  BY <1>1, <1>4 DEF BeginMount, Begin
<1>5. ASSUME NEW t \in Threads, Enter(t) \/ Visit(t) \/ LockForMount(t) PROVE GroupInv'
  BY <1>1, <1>5 DEF Enter, Visit, LockForMount
<1>6. CASE Tick \/ FailDevice \/ UNCHANGED vars
  BY <1>1, <1>6 DEF Tick, FailDevice, vars
<1> QED BY <1>2, <1>3, <1>4, <1>5, <1>6 DEF Next, Step

LEMMA GroupsAreSound == Spec => [](RequestInv /\ GroupInv)
<1>1. Init => RequestInv /\ GroupInv
  <2> SUFFICES ASSUME Init PROVE RequestInv /\ GroupInv
    OBVIOUS
  <2>1. RequestInv
    BY DEF Init, RequestInv
  <2>2. KeysOf(index) = {} /\ Len(groups) = 0 /\ groups = <<>>
    BY DEF Init, KeysOf, NewIndex, EmptyTrie
  <2>3. IndexNamesGroups
    BY <2>2 DEF IndexNamesGroups
  <2> QED BY <2>1, <2>2, <2>3 DEF GroupInv, Init
<1>2. LockInv /\ (RequestInv /\ GroupInv) /\ [Next]_vars => (RequestInv /\ GroupInv)'
  BY RequestStep, GroupStep
<1> QED BY <1>1, <1>2, LocksAreHeld, PTL DEF Spec

\* The index and the vector of groups never diverge (IndexNamesGroups).
THEOREM IndexAgreesWithGroups == Spec => []IndexNamesGroups
<1>1. GroupInv => IndexNamesGroups
  BY DEF GroupInv
<1> QED BY <1>1, GroupsAreSound, PTL

\* Groups are sorted for every order of mounts and all priorities (GroupsOrdered).
THEOREM GroupsStayOrdered == Spec => []GroupsOrdered
<1>1. GroupInv => GroupsOrdered
  BY DEF GroupInv, GroupsOrdered, Ordered, Precedes
<1> QED BY <1>1, GroupsAreSound, PTL

(***************************************************************************)
(* What could have served a call all the time is at or below the place     *)
(* that the call has come to.                                              *)
(***************************************************************************)
WatchInv ==
  /\ place \in [Threads -> Nat] /\ DOMAIN answer = Threads
  /\ \A t \in Threads : pc[t] = "scanning" => able[t] \subseteq 1 .. place[t]

\* A volume that fails a call could not have served it just then.
LEMMA FailureIsNoService ==
  ASSUME NEW t \in Threads, NEW outcome \in PointOutcomes(request[t], Point(t)),
         outcome.code # "kSuccess"
  PROVE  place[t] \notin StillAble(t)
  BY DEF StillAble, Serves, Point

LEMMA PlacesStep ==
  ASSUME LockInv, GroupInv, WatchInv, [Next]_vars
  PROVE  place' \in [Threads -> Nat]
<1> USE DEF WatchInv
<1>1. ASSUME NEW t \in Threads, Enter(t) PROVE place' \in [Threads -> Nat]
  <2>1. CASE IsMounted(request[t].key) /\ place' = [place EXCEPT ![t] = Len(Group(request[t].key))]
    <3>1. GroupId(request[t].key) + 1 \in DOMAIN groups
      BY <2>1, IdsOfGroups DEF IsMounted, GroupId
    <3>2. Len(Group(request[t].key)) \in Nat
      BY <3>1 DEF Group, GroupInv
    <3> QED BY <2>1, <3>2
  <2>2. CASE place' = [place EXCEPT ![t] = 0]
    BY <2>2
  <2> QED BY <1>1, <2>1, <2>2 DEF Enter, Return
<1>2. ASSUME NEW t \in Threads, Visit(t) PROVE place' \in [Threads -> Nat]
  <2>1. CASE place' = [place EXCEPT ![t] = 0]
    BY <2>1
  <2>2. CASE place[t] > 1 /\ place' = [place EXCEPT ![t] = @ - 1]
    <3>1. place[t] - 1 \in Nat
      BY <2>2
    <3> QED BY <2>2, <3>1
  <2> QED BY <1>2, <2>1, <2>2 DEF Visit, Return
<1>3. CASE UNCHANGED place
  BY <1>3
<1> QED BY <1>1, <1>2, <1>3
        DEF Next, Step, BeginCall, BeginMount, Begin, LockForMount, Mount, Tick, FailDevice, vars

LEMMA AnswersStep == WatchInv /\ [Next]_vars => DOMAIN answer' = Threads
<1> SUFFICES ASSUME WatchInv, [Next]_vars PROVE DOMAIN answer' = Threads
  OBVIOUS
<1>1. UNCHANGED answer \/ \E t \in Threads : \E a : answer' = [answer EXCEPT ![t] = a]
  BY DEF Next, Step, BeginCall, BeginMount, Begin, Enter, Visit, Return, LockForMount, Mount,
         Tick, FailDevice, vars
<1> QED BY <1>1 DEF WatchInv

\* A step keeps the watch over a thread whose place it does not change, and one that a
\* thread takes to its next place leaves nothing behind that could serve it.
LEMMA WatchStep ==
  ASSUME LockInv, GroupInv, WatchInv, [Next]_vars
  PROVE  WatchInv'
<1>1. place' \in [Threads -> Nat] /\ place \in [Threads -> Nat]
  BY PlacesStep DEF WatchInv
<1>2. ASSUME Next, NEW u \in Threads, pc'[u] = "scanning"
      PROVE  able'[u] \subseteq 1 .. place'[u]
  <2>1. able'[u] = IF pc[u] = "scanning" THEN StillAble(u) ELSE 1 .. place'[u]
    BY <1>2 DEF Next, Watch
  <2>2. CASE pc[u] # "scanning"
    BY <2>1, <2>2
  <2>3. CASE pc[u] = "scanning"
    <3>1. StillAble(u) \subseteq 1 .. place[u]
      BY <2>3 DEF StillAble, WatchInv
    <3>2. CASE place'[u] = place[u]
      BY <3>1, <3>2, <2>1, <2>3
    <3>3. CASE place'[u] # place[u]
      <4>1. Visit(u) /\ place'[u] = place[u] - 1 /\ place[u] \notin StillAble(u)
        <5>1. PICK t \in Threads : Step(t) /\ place' # place
          BY <1>2, <3>3 DEF Next, BeginCall, BeginMount, Begin, Tick, FailDevice
        <5>2. Enter(t) \/ Visit(t)
          BY <5>1 DEF Step, LockForMount, Mount
        <5>3. t = u
          BY <5>2, <3>3, <1>1 DEF Enter, Visit, Return
        <5>4. Visit(u)
          BY <5>2, <5>3, <2>3 DEF Enter, IsWaiting
        <5>5. ~Leave(u)
          BY <1>2 DEF Leave, LockInv
        <5>6. PICK outcome \in PointOutcomes(request[u], Point(u)) :
                outcome.code # "kSuccess" /\ place' = [place EXCEPT ![u] = @ - 1]
          BY <5>4, <5>5 DEF Visit, Return
        <5>7. place[u] \notin StillAble(u)
          BY <5>6, FailureIsNoService
        <5> QED BY <5>4, <5>6, <5>7, <1>1
      <4>2. place[u] \in Nat
        BY <1>1
      <4> QED BY <2>1, <2>3, <3>1, <4>1, <4>2
    <3> QED BY <3>2, <3>3
  <2> QED BY <2>2, <2>3
<1>3. CASE UNCHANGED vars
  BY <1>3 DEF vars, WatchInv
<1> QED BY <1>1, <1>2, <1>3, AnswersStep DEF WatchInv

LEMMA PlacesAreWatched == Spec => []WatchInv
<1>1. Init => WatchInv
  BY DEF Init, WatchInv
<1>2. LockInv /\ (RequestInv /\ GroupInv) /\ WatchInv /\ [Next]_vars => WatchInv'
  BY WatchStep
<1> QED BY <1>1, <1>2, LocksAreHeld, GroupsAreSound, PTL DEF Spec

\* Whatever happens to the volumes during a call, no volume above the one that serves
\* it was able to all the time, and when none serves it none was (ServedByBest).
THEOREM CallsAreServedByTheBest == Spec => ServedByBest
<1> DEFINE Best == \A t \in Callers :
             pc[t] = "scanning" /\ pc'[t] = "idle" =>
               \A i \in StillAble(t) : i <= answer'[t].position
<1>1. LockInv /\ WatchInv /\ [Next]_vars => [Best]_vars
  <2> SUFFICES ASSUME LockInv, WatchInv, Next, NEW t \in Callers,
                      pc[t] = "scanning", pc'[t] = "idle", NEW i \in StillAble(t)
               PROVE  i <= answer'[t].position
    OBVIOUS
  <2>1. i \in 1 .. place[t] /\ place[t] \in Nat
    BY DEF WatchInv, StillAble, Threads
  <2>2. PICK u \in Threads : Step(u) /\ pc' # pc
    BY DEF Next, BeginCall, BeginMount, Begin, Tick, FailDevice, LockInv, Threads
  <2>3. Visit(t)
    BY <2>2 DEF Step, Enter, Visit, LockForMount, Mount, Return, Leave, LockInv, IsWaiting, Threads
  <2>4. PICK outcome \in PointOutcomes(request[t], Point(t)) :
          \/ /\ outcome.code = "kSuccess"
             /\ answer' = [answer EXCEPT ![t] = Response(request[t], "kSuccess", outcome.result, place[t])]
          \/ outcome.code # "kSuccess" /\ place[t] = 1
    BY <2>3 DEF Visit, Return
  <2>5. CASE outcome.code = "kSuccess"
    <3>1. DOMAIN answer = Threads /\ t \in Threads
      BY DEF WatchInv, Threads
    <3> QED BY <2>4, <2>5, <2>1, <3>1 DEF Response
  <2>6. CASE outcome.code # "kSuccess"
    <3>1. place[t] = 1 /\ place[t] \notin StillAble(t)
      BY <2>4, <2>6, FailureIsNoService DEF Threads
    <3> QED BY <3>1, <2>1
  <2> QED BY <2>5, <2>6
<1>2. Spec => [][Best]_vars
  BY <1>1, LocksAreHeld, PlacesAreWatched, PTL DEF Spec
<1> QED BY <1>2 DEF ServedByBest

(***************************************************************************)
(* The types.  A group has no more mount points than there were calls of   *)
(* Mount, and those that are under way are counted with the completed ones *)
(* when one more is begun.  A thread is a caller or a mounter, there are   *)
(* finitely many mounters, and "no call" is none of the calls.             *)
(***************************************************************************)
LEMMA ThreadsApart ==
  /\ Callers \cap Mounters = {} /\ IsFiniteSet(Mounters)
  /\ Nothing \notin Calls \cup MountCalls
BY ThreadsAssumption DEF ThreadsAssumption, MountCalls

BusyMounters == {u \in Mounters : pc[u] # "idle"}

TypeInv ==
  /\ DOMAIN stores = Volumes /\ failed \subseteq Volumes
  /\ \A t \in Callers : request[t] \in Calls \cup {Nothing}
  /\ \A t \in Threads : pc[t] = "idle" <=> request[t] = Nothing
  /\ mounts + Cardinality(BusyMounters) <= MaxMounts
  /\ \A id \in DOMAIN groups :
       /\ Len(groups[id]) <= mounts
       /\ \A i \in DOMAIN groups[id] : groups[id][i].priority \in {Priority[v] : v \in Volumes}
  /\ place \in [Threads -> 0 .. MaxMounts] /\ able \in [Threads -> SUBSET (1 .. MaxMounts)]
  /\ clock \in 0 .. MaxClock /\ calls \in 0 .. MaxCalls

\* A call that is begun is one, and one that ends is none any more.
LEMMA RequestsStep ==
  ASSUME LockInv, RequestInv, TypeInv, [Next]_vars
  PROVE  /\ \A t \in Callers : request'[t] \in Calls \cup {Nothing}
         /\ \A t \in Threads : pc'[t] = "idle" <=> request'[t] = Nothing
<1> DEFINE Kept == /\ \A t \in Callers : request'[t] \in Calls \cup {Nothing}
                   /\ \A t \in Threads : pc'[t] = "idle" <=> request'[t] = Nothing
<1>1. /\ \A t \in Callers : request[t] \in Calls \cup {Nothing}
      /\ \A t \in Threads : pc[t] = "idle" <=> request[t] = Nothing
      /\ DOMAIN pc = Threads /\ DOMAIN request = Threads /\ Callers \subseteq Threads
  BY DEF TypeInv, LockInv, RequestInv, Threads
<1>2. ASSUME NEW t \in Threads, Leave(t) PROVE Kept
  BY <1>1, <1>2 DEF Leave
<1>3. ASSUME UNCHANGED <<pc, request>> PROVE Kept
  BY <1>1, <1>3
<1>4. ASSUME NEW t \in Threads, NEW to, to # "idle", pc[t] # "idle",
             pc' = [pc EXCEPT ![t] = to], UNCHANGED request
      PROVE  Kept
  BY <1>1, <1>4
<1>5. ASSUME NEW t \in Threads, NEW call, Begin(t, call), call # Nothing,
             t \in Callers => call \in Calls
      PROVE  Kept
  BY <1>1, <1>5 DEF Begin
<1>6. ASSUME NEW t \in Callers, BeginCall(t) PROVE Kept
  BY <1>5, <1>6, ThreadsApart DEF BeginCall, Threads
<1>7. ASSUME NEW t \in Mounters, BeginMount(t) PROVE Kept
  <2>1. PICK call \in MountCalls : Begin(t, call)
    BY <1>7 DEF BeginMount, MountCalls
  <2>2. call # Nothing /\ t \in Threads /\ t \notin Callers
    BY ThreadsApart DEF Threads
  <2> QED BY <1>5, <2>1, <2>2
<1>8. ASSUME NEW t \in Threads, Enter(t) PROVE Kept
  BY <1>2, <1>4, <1>8 DEF Enter, IsWaiting, Return
<1>9. ASSUME NEW t \in Threads, Visit(t) PROVE Kept
  BY <1>2, <1>3, <1>9 DEF Visit, Return
<1>10. ASSUME NEW t \in Threads, LockForMount(t) PROVE Kept
  BY <1>2, <1>4, <1>10 DEF LockForMount
<1>11. ASSUME NEW t \in Threads, Mount(t) PROVE Kept
  BY <1>2, <1>11 DEF Mount
<1>12. CASE Tick \/ FailDevice \/ UNCHANGED vars
  BY <1>3, <1>12 DEF Tick, FailDevice, vars
<1> QED
  BY <1>6, <1>7, <1>8, <1>9, <1>10, <1>11, <1>12 DEF Next, Step

\* Completed calls of Mount and those under way are never more than may be begun.
LEMMA MountsStep ==
  ASSUME LockInv, RequestInv, GroupInv, TypeInv, [Next]_vars
  PROVE  mounts' + Cardinality(BusyMounters') <= MaxMounts
<1> DEFINE busy == BusyMounters
           busy2 == {u \in Mounters : pc'[u] # "idle"}
<1>1. /\ IsFiniteSet(busy) /\ Cardinality(busy) \in Nat
      /\ IsFiniteSet(busy2) /\ Cardinality(busy2) \in Nat
  <2>1. busy \in SUBSET Mounters /\ busy2 \in SUBSET Mounters /\ IsFiniteSet(Mounters)
    BY ThreadsApart DEF BusyMounters
  <2>2. IsFiniteSet(busy) /\ IsFiniteSet(busy2)
    BY <2>1, FS_Subset
  <2> QED BY <2>2, FS_CardinalityType
<1>2. /\ DOMAIN pc = Threads /\ Mounters \subseteq Threads /\ mounts \in Nat /\ MaxMounts \in Nat
      /\ mounts + Cardinality(busy) <= MaxMounts
  BY StorageAssumption DEF LockInv, Threads, GroupInv, StorageAssumption, TypeInv
<1>3. ASSUME busy2 \subseteq busy, mounts' = mounts
      PROVE  mounts' + Cardinality(busy2) <= MaxMounts
  <2>1. Cardinality(busy2) <= Cardinality(busy)
    BY <1>1, <1>3, FS_Subset
  <2> HIDE DEF busy, busy2
  <2> QED BY <1>1, <1>2, <1>3, <2>1
<1>4. ASSUME NEW t \in Threads, pc[t] # "idle", request[t].op = "Mount",
             request[t] \in Calls \cup MountCalls, Leave(t), mounts' = mounts + 1
      PROVE  mounts' + Cardinality(busy2) <= MaxMounts
  <2>1. t \in busy
    <3>1. request[t] \notin Calls /\ request[t] # Nothing
      BY <1>4, CallsAreNoMounts, ThreadsApart
    <3>2. t \notin Callers
      BY <3>1 DEF TypeInv
    <3> QED BY <1>4, <3>2 DEF Threads, BusyMounters
  <2>2. busy2 = busy \ {t}
    BY <1>2, <1>4 DEF Leave, BusyMounters
  <2>3. Cardinality(busy2) = Cardinality(busy) - 1
    <3> HIDE DEF busy, busy2
    <3>1. Cardinality(busy \ {t}) = Cardinality(busy) - 1
      BY <1>1, <2>1, FS_RemoveElement
    <3> QED BY <2>2, <3>1
  <2> HIDE DEF busy, busy2
  <2> QED BY <1>1, <1>2, <1>4, <2>3
<1>5. ASSUME NEW t \in Callers, BeginCall(t)
      PROVE  mounts' + Cardinality(busy2) <= MaxMounts
  <2>1. busy2 = busy /\ mounts' = mounts
    BY <1>2, <1>5, ThreadsApart DEF BeginCall, Begin, BusyMounters
  <2> QED BY <1>3, <2>1
<1>6. ASSUME NEW t \in Mounters, BeginMount(t)
      PROVE  mounts' + Cardinality(busy2) <= MaxMounts
  <2>1. mounts + Cardinality(busy) < MaxMounts /\ mounts' = mounts
    BY <1>6 DEF BeginMount, Begin, BusyMounters
  <2>2. busy2 = busy \cup {t} /\ t \notin busy
    BY <1>2, <1>6 DEF BeginMount, Begin, BusyMounters
  <2> HIDE DEF busy, busy2
  <2>3. Cardinality(busy \cup {t}) = Cardinality(busy) + 1
    BY <1>1, <2>2, FS_AddElement
  <2> QED BY <1>1, <1>2, <2>1, <2>2, <2>3
<1>7. ASSUME NEW t \in Threads, LockForMount(t)
      PROVE  mounts' + Cardinality(busy2) <= MaxMounts
  <2>1. CASE Leave(t) /\ mounts' = mounts + 1
    <3>1. pc[t] = "waiting" /\ request[t].op = "Mount" /\ request[t] \in Calls \cup MountCalls
      BY <1>7 DEF LockForMount, RequestInv
    <3> QED BY <1>4, <2>1, <3>1
  <2>2. CASE pc' = [pc EXCEPT ![t] = "mounting"] /\ mounts' = mounts
    <3>1. busy2 \subseteq busy
      BY <1>2, <1>7, <2>2 DEF LockForMount, BusyMounters
    <3> QED BY <1>3, <2>2, <3>1
  <2> QED BY <1>7, <2>1, <2>2 DEF LockForMount
<1>8. ASSUME NEW t \in Threads, Mount(t)
      PROVE  mounts' + Cardinality(busy2) <= MaxMounts
  <2>1. pc[t] = "mounting" /\ Leave(t) /\ mounts' = mounts + 1
    BY <1>8 DEF Mount
  <2>2. request[t] \in MountCalls /\ request[t].op = "Mount"
    BY <2>1 DEF RequestInv, MountCalls, MountCall
  <2> QED BY <1>4, <2>1, <2>2
<1>9. ASSUME NEW t \in Threads, Enter(t) \/ Visit(t)
      PROVE  mounts' + Cardinality(busy2) <= MaxMounts
  <2>1. mounts' = mounts /\ pc[t] # "idle"
        /\ (UNCHANGED pc \/ \E to : pc' = [pc EXCEPT ![t] = to])
    BY <1>9 DEF Enter, Visit, IsWaiting, Return, Leave
  <2>2. busy2 \subseteq busy
    BY <1>2, <2>1 DEF BusyMounters
  <2> QED BY <1>3, <2>1, <2>2
<1>10. ASSUME Tick \/ FailDevice \/ UNCHANGED vars
       PROVE  mounts' + Cardinality(busy2) <= MaxMounts
  <2>1. mounts' = mounts /\ pc' = pc
    BY <1>10 DEF Tick, FailDevice, vars
  <2>2. busy2 \subseteq busy
    BY <2>1 DEF BusyMounters
  <2> QED BY <1>3, <2>1, <2>2
<1>11. mounts' + Cardinality(busy2) <= MaxMounts
  <2> HIDE DEF busy2
  <2> QED BY <1>5, <1>6, <1>7, <1>8, <1>9, <1>10 DEF Next, Step
<1> QED BY <1>11 DEF BusyMounters

\* The elements of a group with a point more are those it had, and the point.
LEMMA InsertedElements ==
  ASSUME NEW group \in Seq(Points), NEW point \in Points
  PROVE  /\ Len(Inserted(group, point)) = Len(group) + 1
         /\ \A i \in DOMAIN Inserted(group, point) :
              \/ Inserted(group, point)[i] = point
              \/ \E j \in DOMAIN group : Inserted(group, point)[i] = group[j]
<1> DEFINE n == LowerBound(group, point.priority)
           new == Inserted(group, point)
<1>1. n \in 1 .. Len(group) + 1
  BY LowerBoundPlace DEF Points
<1> HIDE DEF n
<1>2. new = InsertAt(group, n, point)
  BY Zenon DEF Inserted, n
<1> HIDE DEF new
<1>3. /\ InsertAt(group, n, point) \in Seq(Points)
      /\ Len(InsertAt(group, n, point)) = Len(group) + 1
      /\ \A i \in 1 .. Len(group) + 1 :
           InsertAt(group, n, point)[i] =
             IF i < n THEN group[i] ELSE IF i = n THEN point ELSE group[i - 1]
  BY <1>1, InsertAtElements
<1>4. /\ new \in Seq(Points) /\ Len(new) = Len(group) + 1
      /\ \A i \in 1 .. Len(group) + 1 :
           new[i] = IF i < n THEN group[i] ELSE IF i = n THEN point ELSE group[i - 1]
  BY <1>2, <1>3, Zenon
<1>5. ASSUME NEW i \in DOMAIN new PROVE new[i] = point \/ \E j \in DOMAIN group : new[i] = group[j]
  <2>1. i \in 1 .. Len(group) + 1 /\ DOMAIN group = 1 .. Len(group)
    BY <1>4
  <2>2. CASE i < n
    BY <2>1, <2>2, <1>1, <1>4
  <2>3. CASE i = n
    BY <2>1, <2>3, <1>4
  <2>4. CASE i > n
    <3>1. i - 1 \in DOMAIN group /\ new[i] = group[i - 1]
      BY <2>1, <2>4, <1>1, <1>4
    <3> QED BY <3>1
  <2> QED BY <2>1, <2>2, <2>3, <2>4, <1>1
<1> QED BY <1>4, <1>5 DEF new

\* A group of at most n mount points, each with the priority of a volume.
Bounded(group, n) ==
  /\ Len(group) <= n
  /\ \A i \in DOMAIN group : group[i].priority \in {Priority[v] : v \in Volumes}

LEMMA MountKeepsBounds ==
  ASSUME GroupInv, \A id \in DOMAIN groups : Bounded(groups[id], mounts),
         NEW path \in Paths, NEW volume \in Volumes, NEW catalog \in Catalogs,
         AddMountPoint(path, MountPoint(volume, catalog))
  PROVE  \A id \in DOMAIN groups' : Bounded(groups'[id], mounts + 1)
<1> DEFINE point == MountPoint(volume, catalog)
           id == Get(index, path)
<1>1. mounts \in Nat /\ groups \in Seq(Seq(Points))
  BY DEF GroupInv
<1>2. point \in Points /\ point.priority \in {Priority[v] : v \in Volumes}
  <2>1. Priority[volume] \in Int
    BY StorageAssumption DEF StorageAssumption
  <2> QED BY <2>1, <1>1 DEF MountPoint, Points
<1> HIDE DEF point
<1>3. \A i \in DOMAIN groups :
        groups[i] \in Seq(Points) /\ Bounded(groups[i], mounts) /\ Bounded(groups[i], mounts + 1)
  BY <1>1 DEF Bounded
<1>4. CASE id = NonExistLeaf
  <2>1. groups' = Append(groups, <<point>>)
    BY <1>4 DEF AddMountPoint, point
  <2>2. <<point>> \in Seq(Points) /\ Len(<<point>>) = 1 /\ <<point>>[1] = point
    BY <1>2
  <2>3. Bounded(<<point>>, mounts + 1)
    BY <2>2, <1>2, <1>1 DEF Bounded
  <2>4. /\ DOMAIN groups' = 1 .. Len(groups) + 1
        /\ \A i \in DOMAIN groups' : groups'[i] = IF i <= Len(groups) THEN groups[i] ELSE <<point>>
    BY <2>1, <2>2, <1>1
  <2>5. ASSUME NEW i \in DOMAIN groups' PROVE Bounded(groups'[i], mounts + 1)
    <3>1. CASE i <= Len(groups)
      <4>1. i \in DOMAIN groups /\ groups'[i] = groups[i]
        BY <3>1, <2>4, <1>1
      <4> QED BY <4>1, <1>3
    <3>2. CASE ~(i <= Len(groups))
      <4>1. groups'[i] = <<point>>
        BY <3>2, <2>4
      <4> QED BY <4>1, <2>3
    <3> QED BY <3>1, <3>2
  <2> QED BY <2>5
<1>5. CASE id # NonExistLeaf
  <2> DEFINE old == groups[id + 1]
             new == Inserted(old, point)
  <2>1. id + 1 \in DOMAIN groups
    BY <1>5, IdsOfGroups
  <2>2. groups' = [groups EXCEPT ![id + 1] = new]
    BY <1>5 DEF AddMountPoint, point
  <2>3. old \in Seq(Points) /\ Bounded(old, mounts)
    BY <2>1, <1>3
  <2> HIDE DEF old, id
  <2>4. /\ Len(new) = Len(old) + 1
        /\ \A i \in DOMAIN new : new[i] = point \/ \E j \in DOMAIN old : new[i] = old[j]
    BY <2>3, <1>2, InsertedElements
  <2> HIDE DEF new
  <2>5. Len(old) \in Nat /\ Len(old) <= mounts
        /\ \A j \in DOMAIN old : old[j].priority \in {Priority[v] : v \in Volumes}
    BY <2>3 DEF Bounded
  <2>6. Bounded(new, mounts + 1)
    BY <2>4, <2>5, <1>1, <1>2 DEF Bounded
  <2>7. DOMAIN groups' = DOMAIN groups
        /\ \A i \in DOMAIN groups : groups'[i] = IF i = id + 1 THEN new ELSE groups[i]
    BY <2>2
  <2> QED BY <2>6, <2>7, <1>3
<1> QED BY <1>4, <1>5

\* Whatever a step does to the groups, they stay bounded by the calls of Mount.
LEMMA GroupsBounded ==
  ASSUME RequestInv, GroupInv, \A id \in DOMAIN groups : Bounded(groups[id], mounts), [Next]_vars
  PROVE  \A id \in DOMAIN groups' : Bounded(groups'[id], mounts')
<1>1. mounts \in Nat /\ \A id \in DOMAIN groups : Len(groups[id]) \in Nat
  BY DEF GroupInv
<1>2. ASSUME UNCHANGED groups, mounts' \in {mounts, mounts + 1}
      PROVE  \A id \in DOMAIN groups' : Bounded(groups'[id], mounts')
  BY <1>1, <1>2 DEF Bounded
<1>3. ASSUME NEW t \in Threads, Mount(t)
      PROVE  \A id \in DOMAIN groups' : Bounded(groups'[id], mounts')
  <2>1. PICK volume \in Volumes, path \in Paths, catalog \in Catalogs :
          request[t] = MountCall(volume, path, catalog)
    BY <1>3 DEF Mount, RequestInv, MountCalls
  <2>2. mounts' = mounts + 1
    BY <1>3 DEF Mount
  <2>3. CASE UNCHANGED <<groups, index>>
    BY <2>2, <2>3, <1>2
  <2>4. CASE AddMountPoint(path, MountPoint(volume, catalog))
    BY <2>2, <2>4, MountKeepsBounds
  <2> QED BY <1>3, <2>1, <2>3, <2>4 DEF Mount, MountCall
<1>4. CASE /\ ~\E t \in Threads : Mount(t)
           /\ Next \/ UNCHANGED vars
  <2>1. UNCHANGED groups /\ mounts' \in {mounts, mounts + 1}
    BY <1>4 DEF Next, Step, BeginCall, BeginMount, Begin, Enter, Visit, LockForMount, Tick,
                FailDevice, vars
  <2> QED BY <1>2, <2>1
<1> QED BY <1>3, <1>4

\* There were no more calls of Mount than there may be.
LEMMA MountsAreBounded ==
  ASSUME TypeInv, mounts \in Nat, MaxMounts \in Nat
  PROVE  mounts <= MaxMounts
<1>1. BusyMounters \in SUBSET Mounters
  BY DEF BusyMounters
<1>2. Cardinality(BusyMounters) \in Nat
  BY <1>1, ThreadsApart, FS_Subset, FS_CardinalityType
<1> QED BY <1>2 DEF TypeInv

\* A place is one of a group, and so is what is watched below it.
LEMMA PlacesAreBounded ==
  ASSUME LockInv, GroupInv, TypeInv, [Next]_vars
  PROVE  place' \in [Threads -> 0 .. MaxMounts]
<1>1. /\ place \in [Threads -> 0 .. MaxMounts]
      /\ mounts \in Nat /\ MaxMounts \in Nat /\ mounts <= MaxMounts
  <2>1. mounts \in Nat /\ MaxMounts \in Nat
    BY StorageAssumption DEF GroupInv, StorageAssumption
  <2> QED BY <2>1, MountsAreBounded DEF TypeInv
<1>2. ASSUME NEW t \in Threads, Enter(t) PROVE place' \in [Threads -> 0 .. MaxMounts]
  <2>1. CASE IsMounted(request[t].key) /\ place' = [place EXCEPT ![t] = Len(Group(request[t].key))]
    <3>1. GroupId(request[t].key) + 1 \in DOMAIN groups
      BY <2>1, IdsOfGroups DEF IsMounted, GroupId
    <3>2. Len(Group(request[t].key)) \in Nat /\ Len(Group(request[t].key)) <= mounts
      BY <3>1 DEF Group, GroupInv, TypeInv
    <3>3. Len(Group(request[t].key)) \in 0 .. MaxMounts
      BY <3>2, <1>1
    <3> QED BY <2>1, <3>3, <1>1
  <2>2. CASE place' = [place EXCEPT ![t] = 0]
    BY <2>2, <1>1
  <2> QED BY <1>2, <2>1, <2>2 DEF Enter, Return
<1>3. ASSUME NEW t \in Threads, Visit(t) PROVE place' \in [Threads -> 0 .. MaxMounts]
  <2>1. CASE place' = [place EXCEPT ![t] = 0]
    BY <2>1, <1>1
  <2>2. CASE place[t] > 1 /\ place' = [place EXCEPT ![t] = @ - 1]
    <3>1. place[t] - 1 \in 0 .. MaxMounts
      BY <2>2, <1>1
    <3> QED BY <2>2, <3>1, <1>1
  <2> QED BY <1>3, <2>1, <2>2 DEF Visit, Return
<1>4. CASE UNCHANGED place
  BY <1>1, <1>4
<1> QED BY <1>2, <1>3, <1>4
        DEF Next, Step, BeginCall, BeginMount, Begin, LockForMount, Mount, Tick, FailDevice, vars

LEMMA TypeStep ==
  ASSUME LockInv, RequestInv, GroupInv, TypeInv, [Next]_vars
  PROVE  TypeInv'
<1>1. /\ \A t \in Callers : request'[t] \in Calls \cup {Nothing}
      /\ \A t \in Threads : pc'[t] = "idle" <=> request'[t] = Nothing
  BY RequestsStep
<1>2. mounts' + Cardinality(BusyMounters') <= MaxMounts
  BY MountsStep
<1>3. \A id \in DOMAIN groups' : Bounded(groups'[id], mounts')
  <2>1. \A id \in DOMAIN groups : Bounded(groups[id], mounts)
    BY DEF TypeInv, Bounded
  <2> QED BY <2>1, GroupsBounded
<1>4. place' \in [Threads -> 0 .. MaxMounts]
  BY PlacesAreBounded
<1>5. able' \in [Threads -> SUBSET (1 .. MaxMounts)]
  <2>1. CASE Next
    <3>1. able' = [t \in Threads |->
                     IF pc'[t] # "scanning" THEN {}
                     ELSE IF pc[t] = "scanning" THEN StillAble(t)
                     ELSE 1 .. place'[t]]
      BY <2>1 DEF Next, Watch
    <3>2. ASSUME NEW t \in Threads
          PROVE  StillAble(t) \subseteq 1 .. MaxMounts /\ 1 .. place'[t] \subseteq 1 .. MaxMounts
      <4>1. MaxMounts \in Nat /\ place'[t] \in 0 .. MaxMounts /\ able[t] \subseteq 1 .. MaxMounts
        BY <1>4, StorageAssumption DEF StorageAssumption, TypeInv
      <4> QED BY <4>1 DEF StillAble
    <3> QED BY <3>1, <3>2
  <2>2. CASE UNCHANGED vars
    BY <2>2 DEF vars, TypeInv
  <2> QED BY <2>1, <2>2
<1>6. DOMAIN stores' = Volumes /\ failed' \subseteq Volumes
  BY DEF TypeInv, Next, Step, BeginCall, BeginMount, Begin, Enter, Visit, LockForMount, Mount,
         Tick, FailDevice, vars
<1>7. clock' \in 0 .. MaxClock /\ calls' \in 0 .. MaxCalls
  <2>1. /\ clock' = clock \/ (clock < MaxClock /\ clock' = clock + 1)
        /\ calls' = calls \/ (calls < MaxCalls /\ calls' = calls + 1)
    BY DEF Next, Step, BeginCall, BeginMount, Begin, Enter, Visit, LockForMount, Mount,
           Tick, FailDevice, vars
  <2> QED BY <2>1, StorageAssumption DEF StorageAssumption, TypeInv
<1> QED BY <1>1, <1>2, <1>3, <1>4, <1>5, <1>6, <1>7 DEF TypeInv, Bounded

LEMMA TypesAreKept == Spec => []TypeInv
<1>1. Init => TypeInv
  <2> SUFFICES ASSUME Init PROVE TypeInv
    OBVIOUS
  <2>1. /\ MaxMounts \in Nat /\ MaxCalls \in Nat /\ MaxClock \in Nat
        /\ clock = 0 /\ calls = 0 /\ mounts = 0 /\ groups = <<>> /\ failed = {}
        /\ DOMAIN stores = Volumes
    BY StorageAssumption DEF StorageAssumption, Init
  <2>2. Cardinality(BusyMounters) = 0
    <3>1. BusyMounters = {}
      BY DEF Init, BusyMounters, Threads
    <3> QED BY <3>1, FS_EmptySet
  <2>3. /\ \A t \in Callers : request[t] \in Calls \cup {Nothing}
        /\ \A t \in Threads : pc[t] = "idle" <=> request[t] = Nothing
        /\ place \in [Threads -> 0 .. MaxMounts] /\ able \in [Threads -> SUBSET (1 .. MaxMounts)]
    BY <2>1 DEF Init, Threads
  <2>4. \A id \in DOMAIN groups : FALSE
    BY <2>1
  <2> QED BY <2>1, <2>2, <2>3, <2>4 DEF TypeInv
<1>2. LockInv /\ (RequestInv /\ GroupInv) /\ TypeInv /\ [Next]_vars => TypeInv'
  BY TypeStep
<1> QED BY <1>1, <1>2, LocksAreHeld, GroupsAreSound, PTL DEF Spec

\* Places and positions stay within the groups, groups and orders within the calls of
\* Mount, and no caller ever mounts (TypeOK).
THEOREM StorageTypes == Spec => []TypeOK
<1>1. ASSUME LockInv, RequestInv, GroupInv, TypeInv PROVE TypeOK
  <2>1. mounts \in 0 .. MaxMounts
    BY <1>1, MountsAreBounded, StorageAssumption DEF StorageAssumption, GroupInv
  <2>2. ASSUME NEW id \in DOMAIN groups, NEW i \in DOMAIN groups[id]
        PROVE  groups[id][i] \in [volume : Volumes, catalog : Catalogs,
                                  priority : {Priority[v] : v \in Volumes}, order : 0 .. MaxMounts]
    <3>1. groups[id] \in Seq(Points) /\ Before(groups[id], mounts)
      BY <1>1 DEF GroupInv
    <3>2. groups[id][i] \in Points /\ groups[id][i].order < mounts
      BY <3>1 DEF Before
    <3>3. groups[id][i].priority \in {Priority[v] : v \in Volumes}
      BY <1>1 DEF TypeInv
    <3>4. groups[id][i].order \in 0 .. MaxMounts
      BY <3>2, <2>1, StorageAssumption DEF Points, StorageAssumption
    <3> QED BY <3>2, <3>3, <3>4 DEF Points
  <2>3. \A t \in Callers : pc[t] # "mounting" /\ request[t] \in Calls \cup {Nothing}
    BY <1>1, ThreadsApart DEF TypeInv, RequestInv, MountCalls, MountCall, Calls, Call, Threads
  <2> QED BY <1>1, <2>1, <2>2, <2>3 DEF TypeOK, TypeInv, LockInv, Places
<1>2. LockInv /\ (RequestInv /\ GroupInv) /\ TypeInv => TypeOK
  BY <1>1
<1> QED BY <1>2, LocksAreHeld, GroupsAreSound, TypesAreKept, PTL

(***************************************************************************)
(* To a single caller the storage is a LayeredStore.                       *)
(***************************************************************************)
\* what volumes store are functions to values with dates, which are numbers
IsStore(s) ==
  /\ s = [k \in DOMAIN s |-> s[k]]
  /\ \A k \in DOMAIN s : /\ s[k] = [value |-> s[k].value, expires |-> s[k].expires]
                         /\ s[k].expires \in Int \cup {NoDate}

\* One thread calls, keys and paths are sequences over the same characters, and volumes
\* store numbers as dates, before and after calls.
SingleCaller ==
  /\ \E caller : Callers = {caller}
  /\ \E characters : Keys \subseteq Seq(characters) /\ Paths \subseteq Seq(characters)
  /\ \A s \in InitialStores : IsStore(s)
  /\ \A date \in Dates : KeptDate(date) \in Int \cup {NoDate}

Operations == {"Put", "SetExpiredDate", "Get", "HasKey", "HasCatalog", "Delete", "GetExpiredDate"}

IsAbove(catalog, k) == Len(catalog) <= Len(k) /\ SubSeq(k, 1, Len(catalog)) = catalog

\* what makes a volume fail a call
MayFailOn(s, hasFailed, now, call) ==
  \/ hasFailed /\ NeedsDevice(s, call)
  \/ call.op = "Put" /\ IsStored(s, call.key)
  \/ call.op \in {"Get", "HasKey"} /\ ~IsFound(s, call.key, now)
  \/ call.op = "HasCatalog" /\ (call.key = <<>> \/ \A k \in DOMAIN s : ~IsAbove(call.key, k))
  \/ call.op \in {"Delete", "SetExpiredDate", "GetExpiredDate"} /\ ~IsStored(s, call.key)
  \/ call.op = "GetExpiredDate" /\ IsStored(s, call.key) /\ s[call.key].expires = NoDate

\* What a call may answer, operation by operation.
LEMMA OutcomesOf ==
  ASSUME NEW s, NEW now, NEW call
  PROVE  /\ call.op = "Put" => Outcomes(s, now, call) = {PutOutcome(s, call.key, call.argument)}
         /\ call.op = "Get" => Outcomes(s, now, call) = {GetOutcome(s, call.key, now)}
         /\ call.op = "HasKey" => Outcomes(s, now, call) = {HasKeyOutcome(s, call.key, now)}
         /\ call.op = "HasCatalog" => Outcomes(s, now, call) = HasCatalogOutcomes(s, call.key)
         /\ call.op = "Delete" => Outcomes(s, now, call) = {DeleteOutcome(s, call.key)}
         /\ call.op = "SetExpiredDate" =>
              Outcomes(s, now, call) = {SetExpiredDateOutcome(s, call.key, call.argument)}
         /\ call.op = "GetExpiredDate" =>
              Outcomes(s, now, call) = {GetExpiredDateOutcome(s, call.key)}
BY DEF Outcomes

\* A catalog above a key is found, one above none may be.
LEMMA CatalogOutcomes ==
  ASSUME NEW s, NEW catalog
  PROVE  HasCatalogOutcomes(s, catalog) =
           IF catalog = <<>> THEN {Failure("kKeyNotFound", s)}
           ELSE IF \E k \in DOMAIN s : IsAbove(catalog, k) THEN {Success(Nothing, s)}
           ELSE {Success(Nothing, s), Failure("kKeyNotFound", s)}
BY DEF HasCatalogOutcomes, IsAbove

\* A volume may fail a call exactly for these reasons.
LEMMA FailsFor ==
  ASSUME NEW s, NEW hasFailed \in BOOLEAN, NEW now, NEW call, call.op \in Operations
  PROVE  (\E outcome \in DeviceOutcomes(s, hasFailed, now, call) : outcome.code # "kSuccess")
           <=> MayFailOn(s, hasFailed, now, call)
<1> USE DEF Failure, Success, Outcome, MayFailOn
<1>1. CASE hasFailed /\ NeedsDevice(s, call)
  BY <1>1 DEF DeviceOutcomes, DeviceError
<1>2. CASE ~(hasFailed /\ NeedsDevice(s, call))
  <2> DEFINE all == Outcomes(s, now, call)
  <2>1. DeviceOutcomes(s, hasFailed, now, call) = all
    BY <1>2 DEF DeviceOutcomes
  <2>2. CASE call.op = "Put"
    <3>1. all = {PutOutcome(s, call.key, call.argument)}
      BY <2>2, OutcomesOf
    <3> HIDE DEF all
    <3> QED BY <1>2, <2>1, <2>2, <3>1 DEF PutOutcome
  <2>3. CASE call.op = "Get"
    <3>1. all = {GetOutcome(s, call.key, now)}
      BY <2>3, OutcomesOf
    <3> HIDE DEF all
    <3> QED BY <1>2, <2>1, <2>3, <3>1 DEF GetOutcome
  <2>4. CASE call.op = "HasKey"
    <3>1. all = {HasKeyOutcome(s, call.key, now)}
      BY <2>4, OutcomesOf
    <3> HIDE DEF all
    <3> QED BY <1>2, <2>1, <2>4, <3>1 DEF HasKeyOutcome
  <2>5. CASE call.op = "HasCatalog"
    <3>1. all = HasCatalogOutcomes(s, call.key)
      BY <2>5, OutcomesOf
    <3> DEFINE none == call.key = <<>> \/ \A k \in DOMAIN s : ~IsAbove(call.key, k)
    <3>2. none => Failure("kKeyNotFound", s) \in all
      BY <3>1, CatalogOutcomes
    <3>3. ~none => all = {Success(Nothing, s)}
      BY <3>1, CatalogOutcomes
    <3>4. (\E outcome \in all : outcome.code # "kSuccess") <=> none
      <4> HIDE DEF all, none
      <4> QED BY <3>2, <3>3
    <3>5. MayFailOn(s, hasFailed, now, call) <=> none
      BY <1>2, <2>5
    <3> HIDE DEF all, none
    <3> QED BY <2>1, <3>4, <3>5
  <2>6. CASE call.op = "Delete"
    <3>1. all = {DeleteOutcome(s, call.key)}
      BY <2>6, OutcomesOf
    <3> HIDE DEF all
    <3> QED BY <1>2, <2>1, <2>6, <3>1 DEF DeleteOutcome
  <2>7. CASE call.op = "SetExpiredDate"
    <3>1. all = {SetExpiredDateOutcome(s, call.key, call.argument)}
      BY <2>7, OutcomesOf
    <3> HIDE DEF all
    <3> QED BY <1>2, <2>1, <2>7, <3>1 DEF SetExpiredDateOutcome
  <2>8. CASE call.op = "GetExpiredDate"
    <3>1. all = {GetExpiredDateOutcome(s, call.key)}
      BY <2>8, OutcomesOf
    <3> HIDE DEF all
    <3> QED BY <1>2, <2>1, <2>8, <3>1 DEF GetExpiredDateOutcome
  <2> QED BY <2>2, <2>3, <2>4, <2>5, <2>6, <2>7, <2>8 DEF Operations
<1> QED BY <1>1, <1>2

\* A call that fails leaves a volume as it was, but for a value whose date has passed.
LEMMA FailureLeaves ==
  ASSUME NEW s, IsStore(s), NEW hasFailed \in BOOLEAN, NEW now, NEW call, call.op \in Operations,
         NEW outcome \in DeviceOutcomes(s, hasFailed, now, call), outcome.code # "kSuccess"
  PROVE  \/ outcome.store = s
         \/ /\ call.op \in {"Get", "HasKey"}
            /\ call.key \in DOMAIN s /\ HasExpired(s, call.key, now)
            /\ outcome.store = Without(s, call.key)
<1> USE DEF Failure, Success, Outcome
<1>1. CASE hasFailed /\ NeedsDevice(s, call)
  BY <1>1 DEF DeviceOutcomes
<1>2. CASE ~(hasFailed /\ NeedsDevice(s, call))
  <2>1. outcome \in Outcomes(s, now, call)
    BY <1>2 DEF DeviceOutcomes
  <2>2. CASE call.op = "Put"
    BY <2>1, <2>2, OutcomesOf DEF PutOutcome
  <2>3. CASE call.op \in {"Get", "HasKey"}
    <3>1. ~IsFound(s, call.key, now) /\ outcome.store = Without(s, call.key)
      BY <2>1, <2>3, OutcomesOf DEF GetOutcome, HasKeyOutcome
    <3>2. CASE call.key \in DOMAIN s
      BY <2>3, <3>1, <3>2 DEF IsFound, IsStored
    <3>3. CASE call.key \notin DOMAIN s
      <4>1. DOMAIN s \ {call.key} = DOMAIN s
        BY <3>3
      <4>2. outcome.store = s
        BY <3>1, <4>1 DEF Without, IsStore
      <4> QED BY <4>2
    <3> QED BY <3>2, <3>3
  <2>4. CASE call.op = "HasCatalog"
    BY <2>1, <2>4, OutcomesOf, CatalogOutcomes
  <2>5. CASE call.op = "Delete"
    BY <2>1, <2>5, OutcomesOf DEF DeleteOutcome
  <2>6. CASE call.op = "SetExpiredDate"
    <3>1. outcome = SetExpiredDateOutcome(s, call.key, call.argument)
      BY <2>1, <2>6, OutcomesOf
    <3> QED BY <3>1 DEF SetExpiredDateOutcome
  <2>7. CASE call.op = "GetExpiredDate"
    BY <2>1, <2>7, OutcomesOf DEF GetExpiredDateOutcome
  <2> QED BY <2>2, <2>3, <2>4, <2>5, <2>6, <2>7 DEF Operations
<1> QED BY <1>1, <1>2

\* What a call leaves is a store again.
LEMMA OutcomesAreStores ==
  ASSUME SingleCaller, NEW s, IsStore(s), NEW hasFailed \in BOOLEAN, NEW now, NEW call,
         call.op \in Operations, call.op = "SetExpiredDate" => call.argument \in Dates,
         NEW outcome \in DeviceOutcomes(s, hasFailed, now, call)
  PROVE  IsStore(outcome.store)
<1> USE DEF Failure, Success, Outcome
<1> DEFINE key == call.key
<1>1. IsStore(Without(s, key))
  BY DEF IsStore, Without
<1>2. ASSUME NEW value PROVE IsStore(With(s, key, value))
  BY DEF IsStore, With
<1>3. ASSUME key \in DOMAIN s, NEW date \in Int \cup {NoDate}
      PROVE  IsStore([s EXCEPT ![key].expires = date])
  <2> DEFINE new == [s EXCEPT ![key].expires = date]
  <2>1. DOMAIN new = DOMAIN s /\ new = [k \in DOMAIN s |-> new[k]]
    BY DEF IsStore
  <2>2. \A k \in DOMAIN s : new[k] = IF k = key THEN [value |-> s[key].value, expires |-> date] ELSE s[k]
    BY DEF IsStore
  <2> HIDE DEF new
  <2> QED BY <1>3, <2>1, <2>2 DEF IsStore, new
<1>4. CASE hasFailed /\ NeedsDevice(s, call)
  BY <1>4 DEF DeviceOutcomes
<1>5. CASE ~(hasFailed /\ NeedsDevice(s, call))
  <2>1. outcome \in Outcomes(s, now, call)
    BY <1>5 DEF DeviceOutcomes
  <2>2. CASE call.op = "Put"
    BY <1>2, <2>1, <2>2, OutcomesOf DEF PutOutcome
  <2>3. CASE call.op \in {"Get", "HasKey"}
    BY <1>1, <2>1, <2>3, OutcomesOf DEF GetOutcome, HasKeyOutcome
  <2>4. CASE call.op = "HasCatalog"
    BY <2>1, <2>4, OutcomesOf, CatalogOutcomes
  <2>5. CASE call.op = "Delete"
    BY <1>1, <2>1, <2>5, OutcomesOf DEF DeleteOutcome
  <2>6. CASE call.op = "SetExpiredDate"
    <3>1. KeptDate(call.argument) \in Int \cup {NoDate}
      BY <2>6 DEF SingleCaller
    <3>2. outcome = SetExpiredDateOutcome(s, call.key, call.argument)
      BY <2>1, <2>6, OutcomesOf
    <3> QED BY <1>3, <3>1, <3>2 DEF SetExpiredDateOutcome, IsStored
  <2>7. CASE call.op = "GetExpiredDate"
    BY <2>1, <2>7, OutcomesOf DEF GetExpiredDateOutcome
  <2> QED BY <2>2, <2>3, <2>4, <2>5, <2>6, <2>7 DEF Operations
<1> QED BY <1>4, <1>5

\* A volume that may fail a call still may when time has passed, its device has failed,
\* or a value is gone that was expired.
LEMMA FailureStays ==
  ASSUME NEW s, IsStore(s), NEW hasFailed \in BOOLEAN, NEW now \in Nat,
         NEW call, call.op \in Operations, MayFailOn(s, hasFailed, now, call),
         NEW failsNow \in BOOLEAN, hasFailed => failsNow, NEW then \in {now, now + 1},
         NEW left, left = s \/ (call.op \in {"Get", "HasKey"} /\ \E k : left = Without(s, k))
  PROVE  MayFailOn(left, failsNow, then, call)
<1>1. CASE left = s
  <2>1. ~IsFound(s, call.key, now) => ~IsFound(s, call.key, then)
    BY DEF IsFound, IsStored, HasExpired, IsStore
  <2>2. CASE hasFailed /\ NeedsDevice(s, call)
    BY <1>1, <2>2 DEF MayFailOn
  <2>3. CASE ~(hasFailed /\ NeedsDevice(s, call))
    BY <1>1, <2>1, <2>3 DEF MayFailOn
  <2> QED BY <2>2, <2>3
<1>2. ASSUME call.op \in {"Get", "HasKey"}, NEW k, left = Without(s, k)
      PROVE  MayFailOn(left, failsNow, then, call)
  <2>1. CASE call.key \in DOMAIN s /\ call.key # k
    <3>1. call.key \in DOMAIN left /\ left[call.key] = s[call.key]
      BY <1>2, <2>1 DEF Without
    <3>2. hasFailed \/ HasExpired(s, call.key, now)
      BY <1>2, <2>1 DEF MayFailOn, IsFound, IsStored
    <3>3. hasFailed \/ HasExpired(left, call.key, then)
      BY <2>1, <3>1, <3>2 DEF HasExpired, IsStore
    <3> QED BY <1>2, <3>1, <3>3 DEF MayFailOn, NeedsDevice, IsFound, IsStored
  <2>2. CASE ~(call.key \in DOMAIN s /\ call.key # k)
    <3>1. call.key \notin DOMAIN left
      BY <1>2, <2>2 DEF Without
    <3> QED BY <1>2, <3>1 DEF MayFailOn, IsFound, IsStored
  <2> QED BY <2>1, <2>2
<1> QED BY <1>1, <1>2

\* LayeredStore and Storage speak of the same calls.
LEMMA SameCalls ==
  /\ Layered!Calls = Calls
  /\ \A s, key, now : Layered!HasExpired(s, key, now) = HasExpired(s, key, now)
  /\ \A s, key : Layered!Without(s, key) = Without(s, key)
  /\ \A s, catalog : Layered!HasCatalogOutcomes(s, catalog) = HasCatalogOutcomes(s, catalog)
<1>1. Layered!Calls = Calls
  BY DEF Layered!Calls, Layered!Call, Calls, Call
<1>2. ASSUME NEW s, NEW key, NEW now
      PROVE  /\ Layered!HasExpired(s, key, now) = HasExpired(s, key, now)
             /\ Layered!Without(s, key) = Without(s, key)
  BY DEF Layered!HasExpired, HasExpired, Layered!Without, Without
<1>3. ASSUME NEW s, NEW catalog
      PROVE  Layered!HasCatalogOutcomes(s, catalog) = HasCatalogOutcomes(s, catalog)
  BY DEF Layered!HasCatalogOutcomes, HasCatalogOutcomes, Layered!Failure, Layered!Success,
         Layered!Outcome, Failure, Success, Outcome
<1> QED BY <1>1, <1>2, <1>3

\* Devices answer in LayeredStore what they answer in Storage.
LEMMA SameOutcomes ==
  ASSUME NEW s, NEW hasFailed, NEW now, NEW call
  PROVE  Layered!DeviceOutcomes(s, hasFailed, now, call) = DeviceOutcomes(s, hasFailed, now, call)
<1> USE DEF Layered!Failure, Layered!Success, Layered!Outcome, Failure, Success, Outcome,
            Layered!IsStored, IsStored, Layered!IsFound, IsFound
<1> DEFINE key == call.key
           argument == call.argument
<1>1. Layered!PutOutcome(s, key, argument) = PutOutcome(s, key, argument)
  BY DEF Layered!PutOutcome, PutOutcome, Layered!With, With
<1>2. /\ Layered!GetOutcome(s, key, now) = GetOutcome(s, key, now)
      /\ Layered!HasKeyOutcome(s, key, now) = HasKeyOutcome(s, key, now)
  BY SameCalls DEF Layered!GetOutcome, GetOutcome, Layered!HasKeyOutcome, HasKeyOutcome
<1>3. Layered!DeleteOutcome(s, key) = DeleteOutcome(s, key)
  BY SameCalls DEF Layered!DeleteOutcome, DeleteOutcome
<1>4. Layered!SetExpiredDateOutcome(s, key, argument) = SetExpiredDateOutcome(s, key, argument)
  BY DEF Layered!SetExpiredDateOutcome, SetExpiredDateOutcome
<1>5. Layered!GetExpiredDateOutcome(s, key) = GetExpiredDateOutcome(s, key)
  BY DEF Layered!GetExpiredDateOutcome, GetExpiredDateOutcome
<1>6. Layered!HasCatalogOutcomes(s, key) = HasCatalogOutcomes(s, key)
  BY SameCalls
<1>7. Layered!Outcomes(s, now, call) = Outcomes(s, now, call)
  BY ONLY <1>1, <1>2, <1>3, <1>4, <1>5, <1>6 DEF Layered!Outcomes, Outcomes
<1>8. Layered!NeedsDevice(s, call) = NeedsDevice(s, call)
  BY DEF Layered!NeedsDevice, NeedsDevice
<1> QED BY <1>7, <1>8 DEF Layered!DeviceOutcomes, DeviceOutcomes, Layered!DeviceError, DeviceError

(***************************************************************************)
(* The way to a mounted path: the nodes of the index are the root and what *)
(* is on the way to the paths that have a group.                           *)
(***************************************************************************)
Layers == [path \in KeysOf(index) |-> LayersAt(path)]

WayInv ==
  /\ KeysOf(index) \subseteq Paths
  /\ DOMAIN index.trie = {<<>>} \cup UNION {PathsTo(path) : path \in KeysOf(index)}

\* What is on the way to a path are its prefixes.
LEMMA PrefixesAreOnTheWay ==
  ASSUME NEW characters, NEW key \in Seq(characters), NEW path \in Seq(characters),
         NEW n \in 0 .. Len(key)
  PROVE  SubSeq(key, 1, n) \in PathsTo(path) <=> IsPrefix(SubSeq(key, 1, n), path)
<1> DEFINE start == SubSeq(key, 1, n)
<1>1. start \in Seq(characters) /\ Len(start) = n
  OBVIOUS
<1>2. SubSeq(start, 1, Len(start)) = start
  BY <1>1
<1> HIDE DEF start
<1>3. ASSUME NEW m \in 0 .. Len(path), start = SubSeq(path, 1, m) PROVE m = n
  BY <1>1, <1>3
<1>4. start \in PathsTo(path) <=> n <= Len(path) /\ start = SubSeq(path, 1, n)
  BY <1>1, <1>3 DEF PathsTo
<1> QED BY <1>1, <1>2, <1>4 DEF IsPrefix, start

\* What SingleCaller says of the characters and of the thread that LastAnswer chooses.
LEMMA PathsAreSequences ==
  ASSUME SingleCaller
  PROVE  \E characters : /\ Keys \subseteq Seq(characters) /\ Paths \subseteq Seq(characters)
                         /\ Callers = {CHOOSE t \in Callers : TRUE}
<1>1. PICK caller : Callers = {caller}
  BY DEF SingleCaller
<1>2. (CHOOSE t \in Callers : TRUE) \in Callers
  BY <1>1
<1> QED BY <1>1, <1>2 DEF SingleCaller

\* The longest part of a key that the index has nodes for is what is on the way to a
\* mounted path.
LEMMA TheWay ==
  ASSUME SingleCaller, WayInv, NEW key \in Keys
  PROVE  Layered!OnTheWay(key) = PathLength(key) /\ PathLength(key) \in 0 .. Len(key)
<1>1. PICK characters : Keys \subseteq Seq(characters) /\ Paths \subseteq Seq(characters)
  BY PathsAreSequences
<1> DEFINE Start(n) == SubSeq(key, 1, n)
           IsNode(n) == Start(n) \in DOMAIN index.trie
           Longest(n) == IsNode(n) /\ \A m \in 0 .. Len(key) : IsNode(m) => m <= n
           OnWay(n) == /\ \E path \in KeysOf(index) \cup {<<>>} : IsPrefix(Start(n), path)
                       /\ \A m \in n + 1 .. Len(key) :
                            \A path \in KeysOf(index) : ~IsPrefix(Start(m), path)
<1>2. key \in Seq(characters) /\ Len(key) \in Nat /\ KeysOf(index) \subseteq Seq(characters)
  BY <1>1 DEF WayInv
<1>3. /\ Start(0) = <<>> /\ \A n \in 1 .. Len(key) : Start(n) # <<>>
      /\ \A n \in 0 .. Len(key) : Start(n) \in Seq(characters) /\ Len(Start(n)) = n
  BY <1>2
<1>4. ASSUME NEW n \in 1 .. Len(key)
      PROVE  IsNode(n) <=> \E path \in KeysOf(index) : IsPrefix(Start(n), path)
  <2>1. IsNode(n) <=> \E path \in KeysOf(index) : Start(n) \in PathsTo(path)
    BY <1>3 DEF WayInv
  <2>2. \A path \in KeysOf(index) : Start(n) \in PathsTo(path) <=> IsPrefix(Start(n), path)
    BY <1>2, PrefixesAreOnTheWay
  <2> QED BY <2>1, <2>2
<1>5. IsNode(0) /\ IsPrefix(Start(0), <<>>)
  BY <1>3 DEF WayInv, IsPrefix
<1>6. \E n \in 0 .. Len(key) : Longest(n)
  <2> DEFINE behind == {Len(key) - n : n \in {m \in 0 .. Len(key) : IsNode(m)}}
  <2>1. behind \subseteq Nat /\ behind # {}
    BY <1>2, <1>5
  <2>2. PICK b \in behind : \A c \in behind : b <= c
    <3> HIDE DEF behind
    <3> QED BY <2>1, LeastPlace
  <2>3. PICK n \in 0 .. Len(key) : IsNode(n) /\ b = Len(key) - n
    BY <2>2
  <2>4. ASSUME NEW m \in 0 .. Len(key), IsNode(m) PROVE m <= n
    <3>1. Len(key) - m \in behind
      BY <2>4
    <3>2. b <= Len(key) - m
      BY <2>2, <3>1
    <3> QED BY <2>3, <3>2, <1>2
  <2> QED BY <2>3, <2>4
<1> HIDE DEF Start, IsNode
<1>7. \A n \in 0 .. Len(key) : Longest(n) => OnWay(n)
  <2> SUFFICES ASSUME NEW n \in 0 .. Len(key), Longest(n) PROVE OnWay(n)
    OBVIOUS
  <2>1. \E path \in KeysOf(index) \cup {<<>>} : IsPrefix(Start(n), path)
    <3>1. CASE n = 0
      BY <3>1, <1>5
    <3>2. CASE n # 0
      <4>1. n \in 1 .. Len(key)
        BY <3>2, <1>2
      <4> QED BY <4>1, <1>4
    <3> QED BY <3>1, <3>2
  <2>2. ASSUME NEW m \in n + 1 .. Len(key), NEW path \in KeysOf(index) PROVE ~IsPrefix(Start(m), path)
    <3>1. m \in 1 .. Len(key) /\ m \in 0 .. Len(key) /\ ~(m <= n)
      BY <2>2, <1>2
    <3>2. ~IsNode(m)
      BY <3>1
    <3> QED BY <3>1, <3>2, <1>4
  <2> QED BY <2>1, <2>2
<1>8. \A n \in 0 .. Len(key) : OnWay(n) => Longest(n)
  <2> SUFFICES ASSUME NEW n \in 0 .. Len(key), OnWay(n) PROVE Longest(n)
    OBVIOUS
  <2>1. IsNode(n)
    <3>1. CASE n = 0
      BY <3>1, <1>5
    <3>2. CASE n # 0
      <4>1. n \in 1 .. Len(key) /\ Len(Start(n)) = n
        BY <3>2, <1>2, <1>3
      <4>2. ~IsPrefix(Start(n), <<>>)
        BY <4>1 DEF IsPrefix
      <4>3. \E path \in KeysOf(index) : IsPrefix(Start(n), path)
        BY <4>2
      <4> QED BY <4>1, <4>3, <1>4
    <3> QED BY <3>1, <3>2
  <2>2. ASSUME NEW m \in 0 .. Len(key), IsNode(m), ~(m <= n) PROVE FALSE
    <3>1. m \in n + 1 .. Len(key) /\ m \in 1 .. Len(key)
      BY <2>2, <1>2
    <3>2. \E path \in KeysOf(index) : IsPrefix(Start(m), path)
      BY <2>2, <3>1, <1>4
    <3> QED BY <3>1, <3>2
  <2> QED BY <2>1, <2>2
<1>9. \A m, n \in 0 .. Len(key) : Longest(m) /\ Longest(n) => m = n
  BY <1>2
<1> HIDE DEF Longest, OnWay
<1>10. PathLength(key) = CHOOSE n \in 0 .. Len(key) : Longest(n)
  BY DEF PathLength, FindMaxSubKey, Longest, IsNode, Start
<1>11. Layered!OnTheWay(key) = CHOOSE n \in 0 .. Len(key) : OnWay(n)
  BY DEF Layered!OnTheWay, Layered!IsPrefix, IsPrefix, OnWay, Start
<1>12. PathLength(key) \in 0 .. Len(key) /\ Longest(PathLength(key))
  BY <1>6, <1>10
<1>13. Layered!OnTheWay(key) \in 0 .. Len(key) /\ Longest(Layered!OnTheWay(key))
  BY <1>6, <1>7, <1>8, <1>11
<1> QED BY <1>9, <1>12, <1>13

(***************************************************************************)
(* Layers are groups the other way round.                                  *)
(***************************************************************************)
LayerOf(point) == [volume |-> point.volume, catalog |-> point.catalog]

\* The layers at a path are its group from the end to the beginning.
LEMMA LayersAreGroups ==
  ASSUME GroupInv, NEW path \in KeysOf(index)
  PROVE  LET group == groups[index.trie[path] + 1]
         IN  /\ group \in Seq(Points) /\ Len(group) \in Nat \ {0}
             /\ index.trie[path] + 1 \in DOMAIN groups
             /\ LayersAt(path) \in Seq({LayerOf(point) : point \in Points})
             /\ Len(LayersAt(path)) = Len(group)
             /\ \A i \in 1 .. Len(group) : LayersAt(path)[i] = LayerOf(group[Len(group) + 1 - i])
<1> DEFINE id == index.trie[path] + 1
           group == groups[id]
<1>1. index.trie[path] \in 0 .. Len(groups) - 1
  BY DEF GroupInv, IndexNamesGroups
<1>2. id \in DOMAIN groups /\ id \in 1 .. Len(groups)
  BY <1>1 DEF GroupInv
<1>3. group \in Seq(Points) /\ group # <<>>
  BY <1>2 DEF GroupInv, IndexNamesGroups
<1>4. Len(group) \in Nat \ {0} /\ DOMAIN group = 1 .. Len(group)
  BY <1>3
<1>5. LayersAt(path) = [i \in DOMAIN group |-> LayerOf(group[Len(group) + 1 - i])]
  BY DEF LayersAt, LayerOf
<1> HIDE DEF group
<1>6. \A i \in 1 .. Len(group) : group[Len(group) + 1 - i] \in Points
  BY <1>3, <1>4
<1>7. LayersAt(path) = [i \in 1 .. Len(group) |-> LayerOf(group[Len(group) + 1 - i])]
  BY <1>4, <1>5
<1>8. LayersAt(path) \in Seq({LayerOf(point) : point \in Points}) /\ Len(LayersAt(path)) = Len(group)
  BY <1>4, <1>6, <1>7
<1> QED BY <1>2, <1>3, <1>4, <1>7, <1>8 DEF group

\* A layer does with a call what its mount point does.
LEMMA LayersServe ==
  ASSUME SingleCaller, WayInv, NEW call \in Calls, NEW point
  PROVE  Layered!LayerOutcomes(call, LayerOf(point)) = PointOutcomes(call, point)
<1>1. call.key \in Keys /\ call = [op |-> call.op, key |-> call.key, argument |-> call.argument]
  BY DEF Calls, Call
<1>2. Layered!OnTheWay(call.key) = PathLength(call.key)
  BY <1>1, TheWay
<1> DEFINE whole == [call EXCEPT !.key = point.catalog \o SubSeq(@, PathLength(@) + 1, Len(@))]
<1>3. Layered!LayerOutcomes(call, LayerOf(point)) =
        Layered!DeviceOutcomes(stores[point.volume], point.volume \in failed, clock, whole)
  BY <1>2 DEF Layered!LayerOutcomes, LayerOf
<1>4. PointOutcomes(call, point) =
        DeviceOutcomes(stores[point.volume], point.volume \in failed, clock, whole)
  BY DEF PointOutcomes, VolumeOutcomes, Adjusted
<1> QED BY <1>3, <1>4, SameOutcomes

\* The call that a mount point gets is one of the same operation.
LEMMA AdjustedCalls ==
  ASSUME NEW call \in Calls, NEW point
  PROVE  /\ call.op \in Operations /\ call.key \in Keys
         /\ Adjusted(call, point).op = call.op
         /\ Adjusted(call, point).argument = call.argument
         /\ call.op = "SetExpiredDate" => call.argument \in Dates
<1>1. /\ call.op \in Operations /\ call.key \in Keys
      /\ call.op = "SetExpiredDate" => call.argument \in Dates
      /\ call = [op |-> call.op, key |-> call.key, argument |-> call.argument]
  BY DEF Calls, Call, Operations
<1> QED BY <1>1 DEF Adjusted

(***************************************************************************)
(* The invariant: the index has the nodes it needs and no other, priorities *)
(* are those of volumes, volumes store values, and the volumes that a call *)
(* has passed may still fail it.                                           *)
(***************************************************************************)
PrioritiesInv ==
  \A id \in DOMAIN groups : \A i \in DOMAIN groups[id] :
    groups[id][i].priority = Priority[groups[id][i].volume]

StoresInv ==
  /\ stores = [v \in Volumes |-> stores[v]] /\ failed \subseteq Volumes /\ clock \in Nat
  /\ \A v \in Volumes : IsStore(stores[v])

MayFailAt(call, point) ==
  MayFailOn(stores[point.volume], point.volume \in failed, clock, Adjusted(call, point))

Scans(t) ==
  /\ t \in Callers /\ request[t] \in Calls /\ IsMounted(request[t].key)
  /\ place[t] \in DOMAIN Group(request[t].key)
  /\ \A i \in DOMAIN Group(request[t].key) :
       i > place[t] => MayFailAt(request[t], Group(request[t].key)[i])

ScanInv ==
  /\ \A t \in Mounters : request[t] \in MountCalls \cup {Nothing}
  /\ \A t \in Threads : pc[t] = "scanning" => Scans(t)

LayerInv == WayInv /\ PrioritiesInv /\ StoresInv /\ ScanInv

\* What a mounted key leads to.
LEMMA GroupOfKey ==
  ASSUME GroupInv, WayInv, NEW key, IsMounted(key)
  PROVE  LET path == SubSeq(key, 1, PathLength(key))
         IN  /\ path \in KeysOf(index)
             /\ Group(key) = groups[index.trie[path] + 1]
             /\ Group(key) \in Seq(Points) /\ Len(Group(key)) \in Nat \ {0}
<1> DEFINE path == SubSeq(key, 1, PathLength(key))
<1>1. path \in KeysOf(index) /\ GroupId(key) = index.trie[path]
  BY DEF IsMounted, GroupId, Get, KeysOf
<1>2. Group(key) = groups[index.trie[path] + 1]
  BY <1>1 DEF Group
<1> HIDE DEF path
<1> QED BY <1>1, <1>2, LayersAreGroups DEF path

\* A key that leads to no group leads to no mounted path.
LEMMA UnmountedKey ==
  ASSUME WayInv, NEW key, ~IsMounted(key)
  PROVE  SubSeq(key, 1, PathLength(key)) \notin KeysOf(index)
BY PathsAssumption DEF IsMounted, GroupId, Get, KeysOf, WayInv, PathsAssumption

\* A visit by a thread that scans: what it looks at, and what that means for the volume.
LEMMA VisitLooks ==
  ASSUME SingleCaller, GroupInv, LayerInv, NEW t \in Threads, pc[t] = "scanning",
         NEW outcome \in PointOutcomes(request[t], Point(t))
  PROVE  /\ Point(t).volume \in Volumes
         /\ IsStore(outcome.store)
         /\ outcome.code # "kSuccess" =>
              /\ MayFailAt(request[t], Point(t))
              /\ LET s == stores[Point(t).volume]
                 IN  \/ outcome.store = s
                     \/ /\ request[t].op \in {"Get", "HasKey"}
                        /\ \E key \in DOMAIN s : /\ HasExpired(s, key, clock)
                                                 /\ outcome.store = Without(s, key)
<1> DEFINE call == request[t]
           point == Point(t)
           adjusted == Adjusted(call, point)
           s == stores[point.volume]
           hasFailed == point.volume \in failed
<1>1. /\ call \in Calls /\ IsMounted(call.key) /\ place[t] \in DOMAIN Group(call.key)
      /\ point = Group(call.key)[place[t]]
  BY DEF LayerInv, ScanInv, Scans, Point
<1>2. point \in Points /\ point.volume \in Volumes
  <2>1. Group(call.key) \in Seq(Points)
    BY <1>1, GroupOfKey DEF LayerInv
  <2>2. point \in Points
    BY <1>1, <2>1
  <2> QED BY <2>2 DEF Points
<1>3. IsStore(s) /\ hasFailed \in BOOLEAN
  BY <1>2 DEF LayerInv, StoresInv
<1>4. /\ adjusted.op = call.op /\ adjusted.op \in Operations
      /\ adjusted.op = "SetExpiredDate" => adjusted.argument \in Dates
  BY <1>1, AdjustedCalls
<1>5. outcome \in DeviceOutcomes(s, hasFailed, clock, adjusted)
  BY DEF PointOutcomes, VolumeOutcomes
<1>6. MayFailAt(call, point) = MayFailOn(s, hasFailed, clock, adjusted)
  BY DEF MayFailAt
<1> HIDE DEF call, point, adjusted, s, hasFailed
<1>7. IsStore(outcome.store)
  BY <1>3, <1>4, <1>5, OutcomesAreStores
<1>8. ASSUME outcome.code # "kSuccess"
      PROVE  /\ MayFailAt(call, point)
             /\ \/ outcome.store = s
                \/ /\ call.op \in {"Get", "HasKey"}
                   /\ \E key \in DOMAIN s : /\ HasExpired(s, key, clock)
                                            /\ outcome.store = Without(s, key)
  <2>1. MayFailOn(s, hasFailed, clock, adjusted)
    BY <1>3, <1>4, <1>5, <1>8, FailsFor
  <2>2. \/ outcome.store = s
        \/ /\ adjusted.op \in {"Get", "HasKey"}
           /\ adjusted.key \in DOMAIN s /\ HasExpired(s, adjusted.key, clock)
           /\ outcome.store = Without(s, adjusted.key)
    BY <1>3, <1>4, <1>5, <1>8, FailureLeaves
  <2> QED BY <1>4, <1>6, <2>1, <2>2
<1> QED BY <1>2, <1>7, <1>8 DEF call, point, s

\* It holds of a storage without mount points.
LEMMA LayerInit == SingleCaller /\ Init => LayerInv
<1> SUFFICES ASSUME SingleCaller, Init PROVE LayerInv
  OBVIOUS
<1>1. WayInv
  <2>1. KeysOf(index) = {} /\ DOMAIN index.trie = {<<>>}
    BY DEF Init, KeysOf, NewIndex, EmptyTrie
  <2> QED BY <2>1 DEF WayInv
<1>2. PrioritiesInv
  BY DEF Init, PrioritiesInv
<1>3. StoresInv
  BY DEF Init, StoresInv, SingleCaller
<1>4. ScanInv
  BY DEF Init, ScanInv, Threads
<1> QED BY <1>1, <1>2, <1>3, <1>4 DEF LayerInv

\* What a step of Mount does, if it does anything to the groups.
LEMMA MountAsks ==
  ASSUME RequestInv, NEW t \in Threads, Mount(t)
  PROVE  \E volume \in Volumes, path \in Paths, catalog \in Catalogs :
           /\ request[t] = MountCall(volume, path, catalog)
           /\ \/ UNCHANGED <<groups, index>>
              \/ /\ \E outcome \in HasCatalogOutcomes(stores[volume], catalog) :
                      outcome.code = "kSuccess"
                 /\ AddMountPoint(path, MountPoint(volume, catalog))
<1>1. PICK volume \in Volumes, path \in Paths, catalog \in Catalogs :
        request[t] = MountCall(volume, path, catalog)
  BY DEF Mount, RequestInv, MountCalls
<1>2. /\ request[t].volume = volume /\ request[t].path = path /\ request[t].catalog = catalog
  BY <1>1 DEF MountCall
<1>3. \/ UNCHANGED <<groups, index>>
      \/ /\ \E outcome \in HasCatalogOutcomes(stores[volume], catalog) : outcome.code = "kSuccess"
         /\ AddMountPoint(path, MountPoint(volume, catalog))
  BY <1>2 DEF Mount
<1> QED BY <1>1, <1>3

\* Nothing but a mount changes the groups or the index.
LEMMA OnlyMountChangesGroups ==
  ASSUME [Next]_vars
  PROVE  UNCHANGED <<groups, index>> \/ \E t \in Threads : Mount(t)
BY DEF Next, Step, BeginCall, BeginMount, Begin, Enter, Visit, LockForMount, Tick, FailDevice, vars

\* The index gets the nodes of a new path, and no other.
LEMMA InsertedWay ==
  ASSUME WayInv, NEW path \in Paths, NEW id \in Nat, index' = Insert(index, path, id)
  PROVE  KeysOf(index)' = KeysOf(index) \cup {path} /\ WayInv'
<1> DEFINE T == index.trie
           U == index'.trie
<1>1. path # <<>> /\ path \in PathsTo(path) /\ NonExistLeaf \notin Nat
  BY PathsAssumption, StorageAssumption DEF PathsAssumption, StorageAssumption
<1>2. U = [p \in DOMAIN T \cup PathsTo(path) |->
             IF p = path THEN id ELSE IF p \in DOMAIN T THEN T[p] ELSE NonExistLeaf]
  BY <1>1 DEF Insert
<1>3. KeysOf(index)' = {p \in DOMAIN U : U[p] # NonExistLeaf}
  BY DEF KeysOf
<1>4. KeysOf(index)' = KeysOf(index) \cup {path}
  <2> HIDE DEF U
  <2> QED BY <1>1, <1>2, <1>3 DEF KeysOf
<1>5. DOMAIN U = DOMAIN T \cup PathsTo(path)
  <2> HIDE DEF U
  <2> QED BY <1>2
<1> HIDE DEF U, T
<1>6. DOMAIN index'.trie = {<<>>} \cup UNION {PathsTo(p) : p \in KeysOf(index)'}
  <2>1. DOMAIN T = {<<>>} \cup UNION {PathsTo(p) : p \in KeysOf(index)}
    BY DEF WayInv, T
  <2>2. UNION {PathsTo(p) : p \in KeysOf(index) \cup {path}}
          = (UNION {PathsTo(p) : p \in KeysOf(index)}) \cup PathsTo(path)
    OBVIOUS
  <2>3. DOMAIN U = {<<>>} \cup UNION {PathsTo(p) : p \in KeysOf(index)'}
    BY <1>4, <1>5, <2>1, <2>2
  <2> QED BY <2>3 DEF U
<1> QED BY <1>4, <1>6 DEF WayInv

\* The index keeps the nodes it needs and no other.
LEMMA WayStep ==
  ASSUME RequestInv, GroupInv, WayInv, [Next]_vars
  PROVE  WayInv'
<1>1. CASE UNCHANGED <<groups, index>>
  BY <1>1 DEF WayInv, KeysOf
<1>2. ASSUME NEW volume \in Volumes, NEW path \in Paths, NEW catalog \in Catalogs,
             AddMountPoint(path, MountPoint(volume, catalog))
      PROVE  WayInv'
  <2>1. CASE index' = Insert(index, path, Len(groups))
    BY <2>1, InsertedWay DEF GroupInv
  <2>2. CASE UNCHANGED index
    BY <2>2 DEF WayInv, KeysOf
  <2> QED BY <1>2, <2>1, <2>2 DEF AddMountPoint
<1> QED BY <1>1, <1>2, OnlyMountChangesGroups, MountAsks

HasPriorities(group) == \A i \in DOMAIN group : group[i].priority = Priority[group[i].volume]

\* A mount point has the priority of its volume.
LEMMA PrioritiesStep ==
  ASSUME RequestInv, GroupInv, PrioritiesInv, [Next]_vars
  PROVE  PrioritiesInv'
<1> DEFINE Kept == \A id \in DOMAIN groups' : HasPriorities(groups'[id])
<1>1. /\ groups \in Seq(Seq(Points)) /\ mounts \in Nat
      /\ \A id \in DOMAIN groups : groups[id] \in Seq(Points) /\ HasPriorities(groups[id])
  BY DEF GroupInv, PrioritiesInv, HasPriorities
<1>2. ASSUME UNCHANGED <<groups, index>> PROVE Kept
  BY <1>1, <1>2
<1>3. ASSUME NEW volume \in Volumes, NEW path \in Paths, NEW catalog \in Catalogs,
             AddMountPoint(path, MountPoint(volume, catalog))
      PROVE  Kept
  <2> DEFINE point == MountPoint(volume, catalog)
             id == Get(index, path)
  <2>1. point \in Points /\ point.priority = Priority[point.volume]
    <3>1. Priority[volume] \in Int
      BY StorageAssumption DEF StorageAssumption
    <3> QED BY <3>1, <1>1 DEF MountPoint, Points
  <2>2. CASE id = NonExistLeaf
    <3>1. groups' = Append(groups, <<point>>)
      BY <1>3, <2>2 DEF AddMountPoint
    <3> HIDE DEF point
    <3>2. HasPriorities(<<point>>) /\ <<point>> \in Seq(Points)
      BY <2>1 DEF HasPriorities
    <3>3. /\ DOMAIN groups' = 1 .. Len(groups) + 1 /\ DOMAIN groups = 1 .. Len(groups)
          /\ \A i \in DOMAIN groups' :
               groups'[i] = IF i <= Len(groups) THEN groups[i] ELSE <<point>>
      BY <3>1, <3>2, <1>1
    <3>4. Len(groups) \in Nat
      BY <1>1
    <3> QED BY <1>1, <3>2, <3>3, <3>4
  <2>3. CASE id # NonExistLeaf
    <3> DEFINE old == groups[id + 1]
               new == Inserted(old, point)
    <3>1. id + 1 \in DOMAIN groups
      BY <2>3, IdsOfGroups
    <3>2. groups' = [groups EXCEPT ![id + 1] = new]
      BY <1>3, <2>3 DEF AddMountPoint
    <3>3. old \in Seq(Points) /\ HasPriorities(old)
      BY <3>1, <1>1
    <3> HIDE DEF old, point
    <3>4. \A i \in DOMAIN new : new[i] = point \/ \E j \in DOMAIN old : new[i] = old[j]
      BY <2>1, <3>3, InsertedElements
    <3> HIDE DEF new
    <3>5. HasPriorities(new)
      BY <2>1, <3>3, <3>4 DEF HasPriorities
    <3> QED BY <1>1, <3>2, <3>5
  <2> QED BY <2>2, <2>3
<1>4. Kept
  BY <1>2, <1>3, OnlyMountChangesGroups, MountAsks
<1> QED BY <1>4 DEF PrioritiesInv, HasPriorities

\* The clock goes on, devices stay failed, and only a visit changes what a volume stores.
LEMMA VolumesStep ==
  ASSUME SingleCaller, LockInv, GroupInv, LayerInv, [Next]_vars
  PROVE  /\ StoresInv'
         /\ clock' \in {clock, clock + 1} /\ failed \subseteq failed'
         /\ UNCHANGED stores \/ \E t \in Threads : Visit(t)
<1>1. /\ clock' \in {clock, clock + 1} /\ failed \subseteq failed' /\ failed' \subseteq Volumes
      /\ UNCHANGED stores \/ \E t \in Threads : Visit(t)
  BY DEF Next, Step, BeginCall, BeginMount, Begin, Enter, Visit, LockForMount, Mount, Tick,
         FailDevice, vars, LayerInv, StoresInv
<1>2. clock' \in Nat
  BY <1>1 DEF LayerInv, StoresInv
<1>3. CASE UNCHANGED stores
  BY <1>1, <1>2, <1>3 DEF LayerInv, StoresInv
<1>4. ASSUME NEW t \in Threads, Visit(t) PROVE StoresInv'
  <2>1. PICK outcome \in PointOutcomes(request[t], Point(t)) :
          stores' = [stores EXCEPT ![Point(t).volume] = outcome.store]
    BY <1>4 DEF Visit
  <2>2. pc[t] = "scanning"
    BY <1>4 DEF Visit
  <2>3. Point(t).volume \in Volumes /\ IsStore(outcome.store)
    BY <2>2, VisitLooks
  <2> DEFINE v == Point(t).volume
             s == outcome.store
  <2> HIDE DEF v, s
  <2>4. stores' = [stores EXCEPT ![v] = s] /\ v \in Volumes /\ IsStore(s)
    BY <2>1, <2>3 DEF v, s
  <2>5. stores' = [u \in Volumes |-> stores'[u]] /\ \A u \in Volumes : IsStore(stores'[u])
    BY <2>4 DEF LayerInv, StoresInv
  <2> QED BY <1>1, <1>2, <2>5 DEF StoresInv
<1> QED BY <1>1, <1>3, <1>4

\* A volume that a call has passed may fail it later on as well.
LEMMA PassedStays ==
  ASSUME LayerInv, NEW call \in Calls, NEW point \in Points, MayFailAt(call, point),
         UNCHANGED index, clock' \in {clock, clock + 1}, failed \subseteq failed',
         \/ UNCHANGED stores
         \/ \E v \in Volumes : \E left :
              /\ stores' = [stores EXCEPT ![v] = left]
              /\ \/ left = stores[v]
                 \/ call.op \in {"Get", "HasKey"} /\ \E k : left = Without(stores[v], k)
  PROVE  MayFailAt(call, point)'
<1> DEFINE u == point.volume
           s == stores[u]
           left == stores'[u]
           adjusted == Adjusted(call, point)
           hasFailed == u \in failed
           failsNow == u \in failed'
           now == clock
           then == clock'
<1>1. u \in Volumes /\ IsStore(s) /\ now \in Nat /\ stores = [v \in Volumes |-> stores[v]]
  BY DEF LayerInv, StoresInv, Points
<1>2. adjusted.op = call.op /\ adjusted.op \in Operations
  BY AdjustedCalls
<1>3. left = s \/ (adjusted.op \in {"Get", "HasKey"} /\ \E k : left = Without(s, k))
  <2>1. CASE UNCHANGED stores
    BY <2>1
  <2>2. ASSUME NEW v \in Volumes, NEW new, stores' = [stores EXCEPT ![v] = new],
               \/ new = stores[v]
               \/ call.op \in {"Get", "HasKey"} /\ \E k : new = Without(stores[v], k)
        PROVE  left = s \/ (adjusted.op \in {"Get", "HasKey"} /\ \E k : left = Without(s, k))
    <3>1. CASE u = v
      <4>1. left = new
        BY <1>1, <2>2, <3>1
      <4> QED BY <1>2, <2>2, <3>1, <4>1
    <3>2. CASE u # v
      BY <1>1, <2>2, <3>2
    <3> QED BY <3>1, <3>2
  <2> QED BY <2>1, <2>2
<1>4. MayFailOn(s, hasFailed, now, adjusted)
  BY DEF MayFailAt
<1>5. hasFailed \in BOOLEAN /\ failsNow \in BOOLEAN /\ (hasFailed => failsNow) /\ then \in {now, now + 1}
  OBVIOUS
<1>6. Adjusted(call, point)' = adjusted
  BY DEF Adjusted, PathLength
<1> HIDE DEF s, left, adjusted, hasFailed, failsNow, now, then
<1>7. MayFailOn(left, failsNow, then, adjusted)
  BY <1>1, <1>2, <1>3, <1>4, <1>5, FailureStays
<1> QED BY <1>6, <1>7 DEF MayFailAt, left, failsNow, then, u

\* Mounters ask for mounts only.
LEMMA MountersStep ==
  ASSUME LockInv, RequestInv, ScanInv, [Next]_vars
  PROVE  \A t \in Mounters : request'[t] \in MountCalls \cup {Nothing}
<1> DEFINE Kept == \A t \in Mounters : request'[t] \in MountCalls \cup {Nothing}
<1>1. /\ \A t \in Mounters : request[t] \in MountCalls \cup {Nothing}
      /\ DOMAIN request = Threads /\ Mounters \subseteq Threads /\ Callers \cap Mounters = {}
  BY ThreadsApart DEF ScanInv, RequestInv, Threads
<1>2. ASSUME NEW t \in Callers, BeginCall(t) PROVE Kept
  BY <1>1, <1>2 DEF BeginCall, Begin
<1>3. ASSUME NEW t \in Mounters, BeginMount(t) PROVE Kept
  BY <1>1, <1>3 DEF BeginMount, Begin, MountCalls
<1>4. ASSUME NEW t \in Threads, Step(t) PROVE Kept
  <2>1. UNCHANGED request \/ request' = [request EXCEPT ![t] = Nothing]
    BY <1>4 DEF Step, Enter, Visit, LockForMount, Mount, Return, Leave
  <2> QED BY <1>1, <2>1
<1>5. CASE Tick \/ FailDevice \/ UNCHANGED vars
  BY <1>1, <1>5 DEF Tick, FailDevice, vars
<1> QED BY <1>2, <1>3, <1>4, <1>5 DEF Next

\* Only callers scan, so only one thread does.
LEMMA CallersScan ==
  ASSUME SingleCaller, ScanInv, NEW t \in Threads, NEW u \in Threads,
         pc[t] = "scanning", pc[u] = "scanning"
  PROVE  t = u
<1>1. PICK caller : Callers = {caller}
  BY DEF SingleCaller
<1> QED BY <1>1 DEF ScanInv, Scans

\* The call that a caller waits with is one of IStorage, and its thread is no mounter.
LEMMA WaitingCallers ==
  ASSUME RequestInv, ScanInv, NEW t \in Threads, IsWaiting(t)
  PROVE  t \in Callers /\ request[t] \in Calls
<1>1. request[t] \in Calls \cup MountCalls /\ request[t].op # "Mount"
  BY DEF RequestInv, IsWaiting
<1>2. request[t] \notin MountCalls
  BY <1>1 DEF MountCalls, MountCall
<1>3. request[t] # Nothing
  BY <1>1, ThreadsApart
<1> QED BY <1>1, <1>2, <1>3 DEF ScanInv, Threads

\* A call that goes on leaves one more volume behind that may fail it.
LEMMA ScanStep ==
  ASSUME SingleCaller, LockInv, RequestInv, GroupInv, WatchInv, LayerInv, [Next]_vars
  PROVE  ScanInv'
<1>1. /\ StoresInv' /\ clock' \in {clock, clock + 1} /\ failed \subseteq failed'
      /\ UNCHANGED stores \/ \E t \in Threads : Visit(t)
  BY VolumesStep
<1>2. ASSUME NEW t \in Threads, pc'[t] = "scanning", pc[t] # "scanning" PROVE Scans(t)'
  <2>1. Enter(t)
    BY <1>2 DEF LockInv, Next, Step, BeginCall, BeginMount, Begin, Enter, Visit, LockForMount, Mount,
                Tick, FailDevice, vars, Return, Leave, Threads
  <2>2. /\ IsWaiting(t) /\ IsMounted(request[t].key) /\ UNCHANGED <<request, groups, index>>
        /\ place' = [place EXCEPT ![t] = Len(Group(request[t].key))]
    BY <2>1, <1>2 DEF Enter, Return, Leave, LockInv
  <2>3. t \in Callers /\ request[t] \in Calls
    BY <2>2, WaitingCallers DEF LayerInv
  <2> DEFINE key == request[t].key
             group == Group(key)
  <2>4. /\ IsMounted(request[t].key)' = IsMounted(key)
        /\ Group(request[t].key)' = group
    BY <2>2 DEF IsMounted, Group, GroupId, PathLength
  <2>5. group \in Seq(Points) /\ Len(group) \in Nat \ {0}
    BY <2>2, GroupOfKey DEF LayerInv
  <2>6. place'[t] = Len(group)
    BY <2>2 DEF WatchInv
  <2> HIDE DEF group
  <2>7. place'[t] \in DOMAIN group /\ \A i \in DOMAIN group : ~(i > place'[t])
    BY <2>5, <2>6
  <2> QED BY <2>2, <2>3, <2>4, <2>7 DEF Scans
<1>3. ASSUME NEW t \in Threads, pc'[t] = "scanning", pc[t] = "scanning" PROVE Scans(t)'
  <2> DEFINE call == request[t]
             group == Group(call.key)
  <2>1. /\ t \in Callers /\ call \in Calls /\ IsMounted(call.key) /\ place[t] \in DOMAIN group
        /\ \A i \in DOMAIN group : i > place[t] => MayFailAt(call, group[i])
    BY <1>3 DEF LayerInv, ScanInv, Scans
  <2>2. UNCHANGED <<groups, index>>
    BY <1>3, LockStep
  <2>3. request'[t] = call
    BY <1>3 DEF LockInv, RequestInv, Next, Step, BeginCall, BeginMount, Begin, Enter, Visit,
                LockForMount, Mount, Tick, FailDevice, vars, Return, Leave, IsWaiting, Threads
  <2>4. IsMounted(request[t].key)' = IsMounted(call.key) /\ Group(request[t].key)' = group
    BY <2>2, <2>3 DEF IsMounted, Group, GroupId, PathLength
  <2>5. group \in Seq(Points) /\ Len(group) \in Nat
    BY <2>1, GroupOfKey DEF LayerInv
  <2>6. /\ place'[t] \in DOMAIN group
        /\ \A i \in DOMAIN group :
             i > place'[t] => i > place[t] \/ (i = place[t] /\ MayFailAt(call, group[i]))
        /\ \/ UNCHANGED stores
           \/ \E v \in Volumes : \E left :
                /\ stores' = [stores EXCEPT ![v] = left]
                /\ \/ left = stores[v]
                   \/ call.op \in {"Get", "HasKey"} /\ \E k : left = Without(stores[v], k)
    <3>1. CASE Visit(t)
      <4>1. ~Leave(t)
        BY <1>3 DEF Leave, LockInv
      <4>2. PICK outcome \in PointOutcomes(call, Point(t)) :
              /\ stores' = [stores EXCEPT ![Point(t).volume] = outcome.store]
              /\ outcome.code # "kSuccess" /\ place[t] > 1
              /\ place' = [place EXCEPT ![t] = @ - 1]
        BY <3>1, <4>1 DEF Visit, Return
      <4>3. /\ Point(t).volume \in Volumes /\ MayFailAt(call, Point(t))
            /\ \/ outcome.store = stores[Point(t).volume]
               \/ /\ call.op \in {"Get", "HasKey"}
                  /\ \E k : outcome.store = Without(stores[Point(t).volume], k)
        BY <1>3, <4>2, VisitLooks
      <4>4. Point(t) = group[place[t]]
        BY DEF Point
      <4>5. place'[t] = place[t] - 1
        BY <4>2 DEF WatchInv
      <4> HIDE DEF group
      <4>6. /\ place'[t] \in DOMAIN group
            /\ \A i \in DOMAIN group : i > place'[t] => i > place[t] \/ i = place[t]
        BY <2>1, <2>5, <4>2, <4>5
      <4> QED BY <4>2, <4>3, <4>4, <4>6
    <3>2. CASE ~Visit(t)
      <4>1. UNCHANGED stores
        <5>1. ASSUME NEW u \in Threads, Visit(u) PROVE FALSE
          <6>1. pc[u] = "scanning"
            BY <5>1 DEF Visit
          <6>2. u = t
            BY <1>3, <6>1, CallersScan DEF LayerInv
          <6> QED BY <5>1, <3>2, <6>2
        <5> QED BY <1>1, <5>1
      <4>2. place'[t] = place[t]
        <5>1. UNCHANGED place \/ \E u \in Threads : Enter(u) \/ Visit(u)
          BY DEF Next, Step, BeginCall, BeginMount, Begin, LockForMount, Mount, Tick, FailDevice, vars
        <5>2. ASSUME NEW u \in Threads, Enter(u) \/ Visit(u) PROVE u # t
          BY <1>3, <3>2, <5>2 DEF Enter, IsWaiting
        <5>3. ASSUME NEW u \in Threads, Enter(u) \/ Visit(u) PROVE place'[t] = place[t]
          BY <5>2, <5>3 DEF Enter, Visit, Return, WatchInv
        <5> QED BY <5>1, <5>3
      <4> QED BY <2>1, <4>1, <4>2
    <3> QED BY <3>1, <3>2
  <2> HIDE DEF group
  <2>7. ASSUME NEW c \in Calls, c = call, NEW p \in Points, MayFailAt(c, p)
        PROVE  MayFailAt(c, p)'
    BY <1>1, <2>2, <2>6, <2>7, PassedStays
  <2>8. ASSUME NEW i \in DOMAIN group, i > place'[t]
        PROVE  MayFailAt(request[t], Group(request[t].key)[i])'
    <3>1. group[i] \in Points /\ MayFailAt(call, group[i])
      BY <2>1, <2>5, <2>6, <2>8
    <3>2. ASSUME NEW c \in Calls, c = call, NEW p \in Points, p = group[i]
          PROVE  MayFailAt(request[t], Group(request[t].key)[i])'
      <4>1. MayFailAt(c, p)'
        BY <2>7, <3>1, <3>2
      <4> QED BY <4>1, <2>3, <2>4, <3>2 DEF MayFailAt, Adjusted, PathLength
    <3> QED BY <2>1, <3>1, <3>2
  <2> QED BY <2>1, <2>3, <2>4, <2>6, <2>8 DEF Scans
<1>4. \A t \in Mounters : request'[t] \in MountCalls \cup {Nothing}
  BY MountersStep DEF LayerInv
<1>5. \A t \in Threads : pc'[t] = "scanning" => Scans(t)'
  BY <1>2, <1>3
<1> QED BY <1>4, <1>5 DEF ScanInv

\* The invariant holds of one caller's storage.
LEMMA LayersHold ==
  ASSUME SingleCaller
  PROVE  Spec => []LayerInv
<1>1. Init => LayerInv
  BY LayerInit
<1>2. LockInv /\ (RequestInv /\ GroupInv) /\ WatchInv /\ LayerInv /\ [Next]_vars => LayerInv'
  <2> SUFFICES ASSUME LockInv, RequestInv, GroupInv, WatchInv, LayerInv, [Next]_vars
               PROVE  LayerInv'
    OBVIOUS
  <2>1. WayInv' /\ PrioritiesInv'
    BY WayStep, PrioritiesStep DEF LayerInv
  <2>2. StoresInv'
    BY VolumesStep
  <2>3. ScanInv'
    BY ScanStep
  <2> QED BY <2>1, <2>2, <2>3 DEF LayerInv
<1> QED BY <1>1, <1>2, LocksAreHeld, GroupsAreSound, PlacesAreWatched, PTL DEF Spec

(***************************************************************************)
(* A mount: lower_bound in the group is the place under the layers of the  *)
(* same rank and of higher ones.                                           *)
(***************************************************************************)
LayersOf(group) == [i \in DOMAIN group |-> LayerOf(group[Len(group) + 1 - i])]

AllLayers == {LayerOf(point) : point \in Points}

\* The layers of a group are its points, the last one first.
LEMMA LayersOfGroup ==
  ASSUME NEW group \in Seq(Points)
  PROVE  /\ LayersOf(group) \in Seq(AllLayers) /\ Len(LayersOf(group)) = Len(group)
         /\ \A i \in 1 .. Len(group) : LayersOf(group)[i] = LayerOf(group[Len(group) + 1 - i])
<1>1. Len(group) \in Nat /\ DOMAIN group = 1 .. Len(group)
  OBVIOUS
<1>2. \A i \in 1 .. Len(group) : group[Len(group) + 1 - i] \in Points
  BY <1>1
<1>3. LayersOf(group) = [i \in 1 .. Len(group) |-> LayerOf(group[Len(group) + 1 - i])]
  BY <1>1 DEF LayersOf
<1> QED BY <1>1, <1>2, <1>3 DEF AllLayers

\* The layers of at least a rank are those behind its lower bound.
LEMMA LayersAbove ==
  ASSUME NEW group \in Seq(Points), Ordered(group), HasPriorities(group), NEW volume \in Volumes
  PROVE  LET n == LowerBound(group, Priority[volume])
             layers == LayersOf(group)
         IN  Cardinality({i \in DOMAIN layers : Rank(layers[i].volume) >= Rank(volume)})
               = Len(group) + 1 - n
<1> DEFINE n == LowerBound(group, Priority[volume])
           layers == LayersOf(group)
           rank == Rank(volume)
           above == {i \in DOMAIN layers : Rank(layers[i].volume) >= rank}
<1>1. Priority[volume] \in Int /\ rank = Unsigned(Priority[volume]) /\ rank \in Nat
  BY StorageAssumption, UnsignedIsNat DEF StorageAssumption, Rank
<1>2. /\ n \in 1 .. Len(group) + 1
      /\ \A i \in 1 .. n - 1 : Unsigned(group[i].priority) < rank
      /\ n <= Len(group) => Unsigned(group[n].priority) >= rank
  BY <1>1, LowerBoundPlace
<1>3. \A i \in 1 .. Len(group) : Unsigned(group[i].priority) \in Nat
  BY PrioritiesOfGroup
<1>4. \A i \in n .. Len(group) : Unsigned(group[i].priority) >= rank
  <2> SUFFICES ASSUME NEW i \in n .. Len(group) PROVE Unsigned(group[i].priority) >= rank
    OBVIOUS
  <2>1. n \in 1 .. Len(group) /\ i \in 1 .. Len(group)
    BY <1>2
  <2>2. CASE i = n
    BY <1>2, <2>1, <2>2
  <2>3. CASE n < i
    <3>1. Precedes(group[n], group[i])
      BY <2>1, <2>3 DEF Ordered
    <3> QED BY <1>1, <1>2, <1>3, <2>1, <3>1 DEF Precedes
  <2> HIDE DEF n
  <2> QED BY <2>1, <2>2, <2>3
<1>5. DOMAIN layers = 1 .. Len(group) /\ Len(group) \in Nat
  BY LayersOfGroup
<1>6. \A i \in 1 .. Len(group) :
        Rank(layers[i].volume) = Unsigned(group[Len(group) + 1 - i].priority)
  <2> SUFFICES ASSUME NEW i \in 1 .. Len(group)
               PROVE  Rank(layers[i].volume) = Unsigned(group[Len(group) + 1 - i].priority)
    OBVIOUS
  <2>1. Len(group) + 1 - i \in DOMAIN group
    BY <1>5
  <2>2. group[Len(group) + 1 - i].priority = Priority[group[Len(group) + 1 - i].volume]
    BY <2>1 DEF HasPriorities
  <2>3. layers[i] = LayerOf(group[Len(group) + 1 - i])
    BY LayersOfGroup
  <2> QED BY <2>2, <2>3 DEF Rank, LayerOf
<1> HIDE DEF n, layers, rank
<1>7. above = 1 .. Len(group) + 1 - n
  <2>1. ASSUME NEW i \in 1 .. Len(group)
        PROVE  Rank(layers[i].volume) >= rank <=> i <= Len(group) + 1 - n
    <3> DEFINE j == Len(group) + 1 - i
    <3>1. j \in 1 .. Len(group) /\ Rank(layers[i].volume) = Unsigned(group[j].priority)
      BY <1>5, <1>6
    <3>2. Unsigned(group[j].priority) \in Nat
      BY <3>1, <1>3
    <3>3. CASE j >= n
      <4>1. j \in n .. Len(group)
        BY <3>1, <3>3, <1>2
      <4>2. Unsigned(group[j].priority) >= rank
        BY <4>1, <1>4
      <4>3. i <= Len(group) + 1 - n
        BY <3>3, <1>2, <1>5
      <4> QED BY <3>1, <4>2, <4>3
    <3>4. CASE ~(j >= n)
      <4>1. j \in 1 .. n - 1
        BY <3>1, <3>4, <1>2, <1>5
      <4>2. Unsigned(group[j].priority) < rank
        BY <4>1, <1>2
      <4>3. ~(Unsigned(group[j].priority) >= rank)
        BY <4>2, <3>2, <1>1
      <4>4. ~(i <= Len(group) + 1 - n)
        BY <3>4, <1>2, <1>5
      <4> QED BY <3>1, <4>3, <4>4
    <3> QED BY <3>3, <3>4
  <2>2. 1 .. Len(group) + 1 - n \subseteq 1 .. Len(group)
    BY <1>2, <1>5
  <2> QED BY <1>2, <1>5, <2>1, <2>2
<1>8. Cardinality(1 .. Len(group) + 1 - n) = Len(group) + 1 - n
  <2> DEFINE m == Len(group) + 1 - n
  <2>1. m \in Nat /\ m \in Int /\ 1 \in Int
    BY <1>2, <1>5
  <2> HIDE DEF m
  <2>2. Cardinality(1 .. m) = IF 1 > m THEN 0 ELSE m - 1 + 1
    BY <2>1, FS_Interval
  <2> QED BY <2>1, <2>2 DEF m
<1> QED BY <1>7, <1>8 DEF n, layers, rank

\* Layers with one more.
HasInserted(new, old, n, layer) ==
  /\ new \in Seq(AllLayers)
  /\ Len(new) = Len(old) + 1
  /\ \A i \in 1 .. Len(old) + 1 :
       new[i] = IF i < n THEN old[i] ELSE IF i = n THEN layer ELSE old[i - 1]

\* A layer is inserted like every element of a sequence.
LEMMA LayerInserted ==
  ASSUME NEW s \in Seq(AllLayers), NEW layer \in AllLayers, NEW n \in 1 .. Len(s) + 1
  PROVE  HasInserted(InsertAt(s, n, layer), s, n, layer)
BY InsertAtElements, SMT DEF HasInserted

\* Inserting into a group and inserting into its layers are the same.
LEMMA InsertedLayers ==
  ASSUME NEW group \in Seq(Points), Ordered(group), HasPriorities(group),
         NEW point \in Points, point.priority = Priority[point.volume]
  PROVE  LET layers == LayersOf(group)
             n == Cardinality({i \in DOMAIN layers : Rank(layers[i].volume) >= Rank(point.volume)})
         IN  LayersOf(Inserted(group, point)) = InsertAt(layers, n + 1, LayerOf(point))
<1> DEFINE k == LowerBound(group, point.priority)
           layers == LayersOf(group)
           n == Cardinality({i \in DOMAIN layers : Rank(layers[i].volume) >= Rank(point.volume)})
           new == Inserted(group, point)
           layer == LayerOf(point)
<1>1. point.volume \in Volumes /\ point.priority \in Int
  BY DEF Points
<1>2. n = Len(group) + 1 - k
  BY <1>1, LayersAbove
<1>3. k \in 1 .. Len(group) + 1 /\ Len(group) \in Nat
  BY <1>1, LowerBoundPlace
<1>4. new = InsertAt(group, k, point)
  BY Zenon DEF Inserted
<1> HIDE DEF k, n
<1>5. /\ InsertAt(group, k, point) \in Seq(Points)
      /\ Len(InsertAt(group, k, point)) = Len(group) + 1
      /\ \A i \in 1 .. Len(group) + 1 :
           InsertAt(group, k, point)[i]
             = IF i < k THEN group[i] ELSE IF i = k THEN point ELSE group[i - 1]
  BY <1>3, InsertAtElements
<1> HIDE DEF new
<1>6. /\ new \in Seq(Points) /\ Len(new) = Len(group) + 1
      /\ \A i \in 1 .. Len(group) + 1 :
           new[i] = IF i < k THEN group[i] ELSE IF i = k THEN point ELSE group[i - 1]
  BY <1>4, <1>5, Zenon
<1>7. /\ LayersOf(new) \in Seq(AllLayers) /\ Len(LayersOf(new)) = Len(group) + 1
      /\ \A i \in 1 .. Len(group) + 1 : LayersOf(new)[i] = LayerOf(new[Len(group) + 2 - i])
  <2>1. Len(new) + 1 = Len(group) + 2
    BY <1>3, <1>6
  <2>2. /\ LayersOf(new) \in Seq(AllLayers) /\ Len(LayersOf(new)) = Len(new)
        /\ \A i \in 1 .. Len(new) : LayersOf(new)[i] = LayerOf(new[Len(new) + 1 - i])
    BY <1>6, LayersOfGroup
  <2>3. ASSUME NEW i \in 1 .. Len(group) + 1
        PROVE  LayersOf(new)[i] = LayerOf(new[Len(group) + 2 - i])
    <3>1. i \in 1 .. Len(new) /\ Len(new) + 1 - i = Len(group) + 2 - i
      BY <1>3, <1>6
    <3>2. LayersOf(new)[i] = LayerOf(new[Len(new) + 1 - i])
      BY <2>2, <3>1
    <3> QED BY <3>1, <3>2
  <2> QED BY <2>2, <2>3, <1>6
<1>8. /\ layers \in Seq(AllLayers) /\ Len(layers) = Len(group)
      /\ \A i \in 1 .. Len(group) : layers[i] = LayerOf(group[Len(group) + 1 - i])
      /\ layer \in AllLayers
  BY LayersOfGroup DEF AllLayers
<1> HIDE DEF layers, layer
<1>9. n + 1 \in 1 .. Len(layers) + 1
  BY <1>2, <1>3, <1>8
<1>10. /\ InsertAt(layers, n + 1, layer) \in Seq(AllLayers)
       /\ Len(InsertAt(layers, n + 1, layer)) = Len(group) + 1
       /\ \A i \in 1 .. Len(group) + 1 :
            InsertAt(layers, n + 1, layer)[i]
              = IF i < n + 1 THEN layers[i] ELSE IF i = n + 1 THEN layer ELSE layers[i - 1]
  <2> DEFINE m == n + 1
  <2>0. m \in 1 .. Len(layers) + 1
    BY <1>9
  <2> HIDE DEF m
  <2>1. layers \in Seq(AllLayers) /\ layer \in AllLayers
    BY <1>8
  <2>2. HasInserted(InsertAt(layers, m, layer), layers, m, layer)
    BY <2>0, <2>1, LayerInserted
  <2> QED BY <1>8, <2>2 DEF m, HasInserted
<1>11. ASSUME NEW i \in 1 .. Len(group) + 1
       PROVE  LayersOf(new)[i]
                = IF i < n + 1 THEN layers[i] ELSE IF i = n + 1 THEN layer ELSE layers[i - 1]
  <2> DEFINE j == Len(group) + 2 - i
  <2>1. j \in 1 .. Len(group) + 1 /\ LayersOf(new)[i] = LayerOf(new[j])
    BY <1>3, <1>7
  <2>2. CASE i < n + 1
    <3>1. j > k /\ j - 1 = Len(group) + 1 - i /\ i \in 1 .. Len(group)
      BY <2>2, <1>2, <1>3
    <3>2. new[j] = group[Len(group) + 1 - i]
      BY <3>1, <2>1, <1>6, <1>3
    <3>3. LayersOf(new)[i] = layers[i]
      BY <3>1, <3>2, <2>1, <1>8
    <3> QED BY <2>2, <3>3
  <2>3. CASE i = n + 1
    <3>1. j = k
      BY <2>3, <1>2, <1>3
    <3>2. LayersOf(new)[i] = layer
      BY <3>1, <2>1, <1>6, <1>3 DEF layer
    <3> QED BY <2>3, <3>2, <1>2, <1>3
  <2>4. CASE i > n + 1
    <3>1. j < k /\ j = Len(group) + 1 - (i - 1) /\ i - 1 \in 1 .. Len(group)
      BY <2>4, <1>2, <1>3
    <3>2. new[j] = group[j]
      BY <3>1, <2>1, <1>6, <1>3
    <3>3. LayersOf(new)[i] = layers[i - 1]
      BY <3>1, <3>2, <2>1, <1>8
    <3> QED BY <2>4, <3>3, <1>2, <1>3
  <2> QED BY <2>2, <2>3, <2>4, <1>2, <1>3
<1>12. LayersOf(new) = InsertAt(layers, n + 1, layer)
  <2> DEFINE a == LayersOf(new)
             b == InsertAt(layers, n + 1, layer)
  <2>1. a \in Seq(AllLayers) /\ b \in Seq(AllLayers) /\ Len(a) = Len(b)
    BY <1>7, <1>10
  <2>2. \A i \in 1 .. Len(a) : a[i] = b[i]
    BY <1>7, <1>10, <1>11
  <2> HIDE DEF a, b
  <2>3. a = b
    BY <2>1, <2>2
  <2> QED BY <2>3 DEF a, b
<1> QED BY <1>12 DEF n, layers, layer, new

(***************************************************************************)
(* The steps.  What a thread does before it has looked at the volume that  *)
(* serves its call is a stutter, but for a value that it finds expired.    *)
(***************************************************************************)
LEMMA Stutters ==
  ASSUME UNCHANGED <<groups, index, stores, failed, clock, answer>>
  PROVE  UNCHANGED Layered!vars
<1>1. UNCHANGED <<KeysOf(index), LastAnswer>>
  BY DEF KeysOf, LastAnswer
<1>2. \A path : LayersAt(path)' = LayersAt(path)
  BY DEF LayersAt
<1> QED BY <1>1, <1>2 DEF Layered!vars

\* The layers are the same as long as the groups are.
LEMMA SameLayers ==
  ASSUME UNCHANGED <<groups, index>>
  PROVE  UNCHANGED Layers
<1>1. KeysOf(index)' = KeysOf(index)
  BY DEF KeysOf
<1>2. \A path : LayersAt(path)' = LayersAt(path)
  BY DEF LayersAt
<1> QED BY <1>1, <1>2 DEF Layers

\* The answer to the only caller is the last one.
LEMMA Answered ==
  ASSUME SingleCaller, WatchInv, NEW t \in Callers, NEW call, NEW code, NEW result, NEW position,
         answer' = [answer EXCEPT ![t] = Response(call, code, result, position)]
  PROVE  LastAnswer' = Layered!Answer(call, code, result)
<1>1. t = CHOOSE u \in Callers : TRUE
  BY PathsAreSequences
<1>2. answer'[t] = Response(call, code, result, position)
  BY DEF WatchInv, Threads
<1>3. LastAnswer' = [call |-> answer'[t].call, code |-> answer'[t].code, result |-> answer'[t].result]
  BY <1>1 DEF LastAnswer
<1> QED BY <1>2, <1>3 DEF Response, Layered!Answer

\* A layer may fail a call for the reasons its mount point has.
LEMMA LayerFails ==
  ASSUME SingleCaller, LayerInv, NEW call \in Calls, NEW point, MayFailAt(call, point)
  PROVE  Layered!MayFail(call, LayerOf(point))
<1> DEFINE outcomes == PointOutcomes(call, point)
<1>1. Layered!LayerOutcomes(call, LayerOf(point)) = outcomes
  BY LayersServe DEF LayerInv
<1>2. Adjusted(call, point).op \in Operations
  BY AdjustedCalls
<1>3. (point.volume \in failed) \in BOOLEAN
  OBVIOUS
<1>4. \E outcome \in outcomes : outcome.code # "kSuccess"
  BY <1>2, <1>3, FailsFor DEF PointOutcomes, VolumeOutcomes, MayFailAt
<1> QED BY <1>1, <1>4 DEF Layered!MayFail

\* What serves a call, or fails it at the end, is a layer under layers that may fail it.
LEMMA Performs ==
  ASSUME SingleCaller, GroupInv, LayerInv, NEW call \in Calls, IsMounted(call.key),
         NEW p \in DOMAIN Group(call.key),
         \A i \in DOMAIN Group(call.key) : i > p => MayFailAt(call, Group(call.key)[i]),
         NEW outcome \in PointOutcomes(call, Group(call.key)[p]),
         stores' = [stores EXCEPT ![Group(call.key)[p].volume] = outcome.store],
         \/ /\ outcome.code = "kSuccess"
            /\ LastAnswer' = Layered!Answer(call, "kSuccess", outcome.result)
         \/ /\ outcome.code # "kSuccess" /\ p = 1
            /\ LastAnswer' = Layered!Answer(call, "kKeyNotFound", Nothing)
  PROVE  Layered!Perform(call)
<1> DEFINE path == SubSeq(call.key, 1, PathLength(call.key))
           group == Group(call.key)
           i == Len(group) + 1 - p
<1>1. call.key \in Keys
  BY DEF Calls, Call
<1>2. Layered!OnTheWay(call.key) = PathLength(call.key)
  BY <1>1, TheWay DEF LayerInv
<1>3. /\ path \in KeysOf(index) /\ group = groups[index.trie[path] + 1]
      /\ group \in Seq(Points) /\ Len(group) \in Nat \ {0}
  BY GroupOfKey DEF LayerInv
<1> HIDE DEF path, group
<1>4. /\ Len(LayersAt(path)) = Len(group) /\ DOMAIN LayersAt(path) = 1 .. Len(group)
      /\ \A j \in 1 .. Len(group) : LayersAt(path)[j] = LayerOf(group[Len(group) + 1 - j])
  <2> DEFINE g == groups[index.trie[path] + 1]
  <2>1. /\ LayersAt(path) \in Seq({LayerOf(point) : point \in Points})
        /\ Len(LayersAt(path)) = Len(g)
        /\ \A j \in 1 .. Len(g) : LayersAt(path)[j] = LayerOf(g[Len(g) + 1 - j])
    BY <1>3, LayersAreGroups
  <2>2. g = group
    BY <1>3
  <2> HIDE DEF g
  <2>3. DOMAIN LayersAt(path) = 1 .. Len(LayersAt(path))
    BY <2>1
  <2> QED BY <2>1, <2>2, <2>3
<1>5. DOMAIN group = 1 .. Len(group) /\ p \in 1 .. Len(group)
  BY <1>3 DEF group
<1>6. i \in 1 .. Len(group) /\ Len(group) + 1 - i = p
  BY <1>3, <1>5
<1>7. LayersAt(path)[i] = LayerOf(group[p])
  BY <1>4, <1>6
<1>8. ASSUME NEW j \in 1 .. i - 1
      PROVE  Layered!MayFail(call, LayersAt(path)[j])
  <2>1. /\ j \in 1 .. Len(group) /\ Len(group) + 1 - j \in 1 .. Len(group)
        /\ Len(group) + 1 - j > p
    <3> DEFINE m == Len(group)
    <3>1. m \in Nat /\ p \in 1 .. m /\ j \in 1 .. (m + 1 - p) - 1
      BY <1>3, <1>5
    <3> HIDE DEF m
    <3>2. j \in 1 .. m /\ m + 1 - j \in 1 .. m /\ m + 1 - j > p
      BY ONLY <3>1
    <3> QED BY <3>2 DEF m
  <2>2. MayFailAt(call, group[Len(group) + 1 - j])
    BY <1>5, <2>1 DEF group
  <2>3. Layered!MayFail(call, LayerOf(group[Len(group) + 1 - j]))
    BY <2>2, LayerFails
  <2> QED BY <1>4, <2>1, <2>3
<1>9. outcome \in Layered!LayerOutcomes(call, LayersAt(path)[i])
  BY <1>7, LayersServe DEF LayerInv, group
<1>10. Layered!Take(LayersAt(path)[i], outcome)
  BY <1>7 DEF Layered!Take, LayerOf, group
<1>11. p = 1 => i = Len(LayersAt(path))
  BY <1>3, <1>4, <1>5
<1> HIDE DEF i
<1>12. \E n \in DOMAIN LayersAt(path) :
         /\ \A j \in 1 .. n - 1 : Layered!MayFail(call, LayersAt(path)[j])
         /\ \E o \in Layered!LayerOutcomes(call, LayersAt(path)[n]) :
              /\ Layered!Take(LayersAt(path)[n], o)
              /\ \/ /\ o.code = "kSuccess"
                    /\ LastAnswer' = Layered!Answer(call, "kSuccess", o.result)
                 \/ /\ o.code # "kSuccess" /\ n = Len(LayersAt(path))
                    /\ LastAnswer' = Layered!Answer(call, "kKeyNotFound", Nothing)
  BY <1>4, <1>6, <1>8, <1>9, <1>10, <1>11
<1>13. SubSeq(call.key, 1, Layered!OnTheWay(call.key)) = path
  BY <1>2 DEF path
<1> QED BY <1>3, <1>12, <1>13 DEF Layered!Perform

\* A step that serves a call, or fails it, is one of the layered store.
LEMMA PerformIsNext ==
  ASSUME NEW call \in Calls, NEW code, NEW result, Layered!Perform(call),
         UNCHANGED <<groups, index, failed, clock>>,
         LastAnswer' = Layered!Answer(call, code, result)
  PROVE  Layered!Next
<1>1. UNCHANGED Layers
  BY SameLayers
<1>2. call \in {c \in Layered!Calls : LastAnswer'.call = c}
  BY SameCalls DEF Layered!Answer
<1>3. \E c \in {c \in Layered!Calls : LastAnswer'.call = c} : Layered!Perform(c)
  BY <1>2
<1> QED BY <1>1, <1>3 DEF Layered!Next, Layers

\* A call that finds no group has failed; another one has only begun.
LEMMA EnterMaps ==
  ASSUME SingleCaller, RequestInv, WatchInv, LayerInv, NEW t \in Threads, Enter(t)
  PROVE  Layered!Next \/ UNCHANGED Layered!vars
<1> DEFINE call == request[t]
           path == SubSeq(call.key, 1, PathLength(call.key))
<1>1. t \in Callers /\ call \in Calls
  BY WaitingCallers DEF Enter, LayerInv
<1>2. UNCHANGED <<stores, failed, groups, index, clock>>
  BY DEF Enter
<1>3. CASE UNCHANGED answer
  BY <1>2, <1>3, Stutters
<1>4. CASE /\ ~IsMounted(call.key)
           /\ answer' = [answer EXCEPT ![t] = Response(call, "kCatalogNotFoundError", Nothing, 0)]
  <2>1. LastAnswer' = Layered!Answer(call, "kCatalogNotFoundError", Nothing)
    BY <1>1, <1>4, Answered
  <2>2. path \notin KeysOf(index)
    BY <1>4, UnmountedKey DEF LayerInv
  <2>3. call.key \in Keys
    BY <1>1 DEF Calls, Call
  <2>4. SubSeq(call.key, 1, Layered!OnTheWay(call.key)) = path
    BY <2>3, TheWay DEF LayerInv
  <2> HIDE DEF call, path
  <2>5. Layered!Perform(call)
    BY <1>2, <2>1, <2>2, <2>4 DEF Layered!Perform
  <2> QED BY <1>1, <1>2, <2>1, <2>5, PerformIsNext
<1> QED BY <1>3, <1>4 DEF Enter, Return

\* A visit serves the call, fails it, or leaves it for the next layer.
LEMMA VisitMaps ==
  ASSUME SingleCaller, GroupInv, WatchInv, LayerInv, NEW t \in Threads, Visit(t)
  PROVE  Layered!Next \/ UNCHANGED Layered!vars
<1> DEFINE call == request[t]
           point == Point(t)
           s == stores[point.volume]
<1>1. /\ t \in Callers /\ call \in Calls /\ IsMounted(call.key)
      /\ place[t] \in DOMAIN Group(call.key) /\ point = Group(call.key)[place[t]]
      /\ \A i \in DOMAIN Group(call.key) : i > place[t] => MayFailAt(call, Group(call.key)[i])
  BY DEF Visit, LayerInv, ScanInv, Scans, Point
<1>2. UNCHANGED <<failed, groups, index, clock>>
  BY DEF Visit
<1>3. PICK outcome \in PointOutcomes(call, point) :
        /\ stores' = [stores EXCEPT ![point.volume] = outcome.store]
        /\ \/ /\ outcome.code = "kSuccess"
              /\ answer' = [answer EXCEPT ![t] = Response(call, "kSuccess", outcome.result, place[t])]
           \/ /\ outcome.code # "kSuccess" /\ UNCHANGED answer
           \/ /\ outcome.code # "kSuccess" /\ place[t] = 1
              /\ answer' = [answer EXCEPT ![t] = Response(call, "kKeyNotFound", Nothing, 0)]
  BY DEF Visit, Return
<1>4. CASE /\ outcome.code = "kSuccess"
           /\ answer' = [answer EXCEPT ![t] = Response(call, "kSuccess", outcome.result, place[t])]
  <2>1. LastAnswer' = Layered!Answer(call, "kSuccess", outcome.result)
    BY <1>1, <1>4, Answered
  <2> HIDE DEF call, point
  <2>2. Layered!Perform(call)
    BY <1>1, <1>3, <1>4, <2>1, Performs
  <2> QED BY <1>1, <1>2, <2>1, <2>2, PerformIsNext
<1>5. CASE outcome.code # "kSuccess" /\ UNCHANGED answer
  <2>1. /\ point.volume \in Volumes
        /\ \/ outcome.store = s
           \/ \E key \in DOMAIN s : HasExpired(s, key, clock) /\ outcome.store = Without(s, key)
    BY <1>3, <1>5, VisitLooks DEF Visit
  <2>2. stores = [v \in Volumes |-> stores[v]]
    BY DEF LayerInv, StoresInv
  <2> HIDE DEF point
  <2>3. CASE outcome.store = s
    <3>1. stores' = stores
      BY <1>3, <2>1, <2>2, <2>3
    <3> QED BY <1>2, <1>5, <3>1, Stutters
  <2>4. CASE \E key \in DOMAIN s : HasExpired(s, key, clock) /\ outcome.store = Without(s, key)
    <3>1. PICK key \in DOMAIN s : HasExpired(s, key, clock) /\ outcome.store = Without(s, key)
      BY <2>4
    <3>2. stores' = [stores EXCEPT ![point.volume] = Without(s, key)]
      BY <1>3, <3>1
    <3>3. /\ Layered!HasExpired(s, key, clock) = HasExpired(s, key, clock)
          /\ Layered!Without(s, key) = Without(s, key)
      BY SameCalls
    <3>4. LastAnswer' = LastAnswer
      BY <1>5 DEF LastAnswer
    <3>5. Layered!Expire
      BY <2>1, <3>1, <3>2, <3>3, <3>4 DEF Layered!Expire
    <3>6. UNCHANGED Layers
      BY <1>2, SameLayers
    <3> QED BY <1>2, <3>5, <3>6 DEF Layered!Next, Layers
  <2> QED BY <2>1, <2>3, <2>4
<1>6. CASE /\ outcome.code # "kSuccess" /\ place[t] = 1
           /\ answer' = [answer EXCEPT ![t] = Response(call, "kKeyNotFound", Nothing, 0)]
  <2>1. LastAnswer' = Layered!Answer(call, "kKeyNotFound", Nothing)
    BY <1>1, <1>6, Answered
  <2> HIDE DEF call, point
  <2>2. Layered!Perform(call)
    BY <1>1, <1>3, <1>6, <2>1, Performs
  <2> QED BY <1>1, <1>2, <2>1, <2>2, PerformIsNext
<1> QED BY <1>3, <1>4, <1>5, <1>6

\* Layers are those of the groups that the index names, now and after a step.
LEMMA LayersAtAre ==
  ASSUME NEW path
  PROVE  /\ LayersAt(path) = LayersOf(groups[index.trie[path] + 1])
         /\ LayersAt(path)' = LayersOf(groups'[index'.trie[path] + 1])
BY DEF LayersAt, LayersOf, LayerOf

\* The group of a new path has one layer.
LEMMA FirstLayer ==
  ASSUME NEW point \in Points
  PROVE  LayersOf(<<point>>) = InsertAt(<<>>, 1, LayerOf(point))
<1> DEFINE layer == LayerOf(point)
           a == LayersOf(<<point>>)
           b == InsertAt(<<>>, 1, layer)
<1>1. <<point>> \in Seq(Points) /\ Len(<<point>>) = 1 /\ <<point>>[1] = point
  OBVIOUS
<1>2. layer \in AllLayers
  BY DEF AllLayers
<1>3. a \in Seq(AllLayers) /\ Len(a) = 1 /\ a[1] = layer
  <2>1. /\ a \in Seq(AllLayers) /\ Len(a) = Len(<<point>>)
        /\ \A i \in 1 .. Len(<<point>>) : a[i] = LayerOf(<<point>>[Len(<<point>>) + 1 - i])
    BY <1>1, LayersOfGroup
  <2> HIDE DEF a, layer
  <2>2. Len(a) = 1 /\ a[1] = LayerOf(<<point>>[1])
    BY <1>1, <2>1
  <2> QED BY <1>1, <2>1, <2>2 DEF layer
<1> HIDE DEF layer, a
<1>4. b \in Seq(AllLayers) /\ Len(b) = 1 /\ b[1] = layer
  <2>1. b = SubSeq(<<>>, 1, 0) \o <<layer>> \o SubSeq(<<>>, 1, 0)
    BY DEF InsertAt
  <2>2. SubSeq(<<>>, 1, 0) = <<>>
    OBVIOUS
  <2>3. b = <<layer>>
    BY <1>2, <2>1, <2>2
  <2>4. <<layer>> \in Seq(AllLayers) /\ Len(<<layer>>) = 1 /\ <<layer>>[1] = layer
    BY <1>2
  <2> HIDE DEF b
  <2> QED BY <2>3, <2>4
<1> HIDE DEF b
<1>5. a = b
  BY <1>3, <1>4
<1> QED BY <1>5 DEF a, b, layer

\* LayeredStore counts and inserts as Storage does.
LEMMA SameInsertion ==
  /\ \A S : Layered!Cardinality(S) = Cardinality(S)
  /\ \A s, i, e : Layered!InsertAt(s, i, e) = InsertAt(s, i, e)
<1>1. \A S : Layered!Cardinality(S) = Cardinality(S)
  BY DEF Layered!Cardinality, Cardinality
<1>2. \A s, i, e : Layered!InsertAt(s, i, e) = InsertAt(s, i, e)
  BY DEF Layered!InsertAt, InsertAt
<1> QED BY <1>1, <1>2

\* A mount under way is a mount of the layered store.
LEMMA MountMaps ==
  ASSUME SingleCaller, GroupInv, LayerInv, NEW path \in Paths, NEW volume \in Volumes,
         NEW catalog \in Catalogs, AddMountPoint(path, MountPoint(volume, catalog)),
         \E outcome \in HasCatalogOutcomes(stores[volume], catalog) : outcome.code = "kSuccess"
  PROVE  Layered!Mount(path, [volume |-> volume, catalog |-> catalog])
<1> DEFINE point == MountPoint(volume, catalog)
           layer == [volume |-> volume, catalog |-> catalog]
           id == Get(index, path)
           old == IF path \in KeysOf(index) THEN LayersAt(path) ELSE <<>>
           n == Cardinality({i \in DOMAIN old : Rank(old[i].volume) >= Rank(volume)})
           more == InsertAt(old, n + 1, layer)
<1>1. /\ point \in Points /\ point.priority = Priority[point.volume]
      /\ LayerOf(point) = layer /\ point.volume = volume
  <2>1. Priority[volume] \in Int /\ mounts \in Nat
    BY StorageAssumption DEF StorageAssumption, GroupInv
  <2> QED BY <2>1 DEF MountPoint, Points, LayerOf
<1> HIDE DEF point
<1>2. /\ path # <<>> /\ groups \in Seq(Seq(Points))
      /\ DOMAIN groups = 1 .. Len(groups) /\ Len(groups) \in Nat
  BY PathsAssumption DEF PathsAssumption, GroupInv
<1>3. \A p \in KeysOf(index) : index.trie[p] \in 0 .. Len(groups) - 1
  BY DEF GroupInv, IndexNamesGroups
<1>4. /\ KeysOf(index)' = KeysOf(index) \cup {path}
      /\ LayersAt(path)' = more
      /\ \A p \in KeysOf(index) : p # path => LayersAt(p)' = LayersAt(p)
  <2>1. CASE id = NonExistLeaf
    <3>1. index' = Insert(index, path, Len(groups)) /\ groups' = Append(groups, <<point>>)
      BY <2>1 DEF AddMountPoint, point
    <3>2. KeysOf(index)' = KeysOf(index) \cup {path}
      BY <1>2, <3>1, InsertedWay DEF LayerInv
    <3>3. path \notin KeysOf(index)
      BY <1>2, <2>1 DEF Get, KeysOf
    <3>4. /\ \A p \in KeysOf(index) : p # path => index'.trie[p] = index.trie[p]
          /\ index'.trie[path] = Len(groups)
      <4>1. path \in PathsTo(path)
        BY PathsAssumption DEF PathsAssumption
      <4>2. index'.trie = [p \in DOMAIN index.trie \cup PathsTo(path) |->
                             IF p = path THEN Len(groups)
                             ELSE IF p \in DOMAIN index.trie THEN index.trie[p] ELSE NonExistLeaf]
        BY <1>2, <3>1 DEF Insert
      <4> QED BY <4>1, <4>2 DEF KeysOf
    <3>5. /\ \A i \in 1 .. Len(groups) : groups'[i] = groups[i]
          /\ groups'[Len(groups) + 1] = <<point>>
      <4>1. <<point>> \in Seq(Points)
        BY <1>1
      <4> QED BY <1>2, <3>1, <4>1
    <3>6. LayersAt(path)' = InsertAt(<<>>, 1, layer)
      <4>1. LayersAt(path)' = LayersOf(<<point>>)
        BY <3>4, <3>5, LayersAtAre
      <4>2. LayersOf(<<point>>) = InsertAt(<<>>, 1, LayerOf(point))
        BY <1>1, FirstLayer
      <4> QED BY <1>1, <4>1, <4>2
    <3>7. old = <<>> /\ n + 1 = 1
      <4>1. old = <<>>
        BY <3>3
      <4> HIDE DEF old
      <4>2. {i \in DOMAIN old : Rank(old[i].volume) >= Rank(volume)} = {}
        BY <4>1
      <4>3. n = 0
        BY <4>2, FS_EmptySet
      <4> QED BY <4>1, <4>3
    <3>8. \A p \in KeysOf(index) : p # path => LayersAt(p)' = LayersAt(p)
      <4> SUFFICES ASSUME NEW p \in KeysOf(index), p # path PROVE LayersAt(p)' = LayersAt(p)
        OBVIOUS
      <4>1. index.trie[p] + 1 \in 1 .. Len(groups)
        BY <1>2, <1>3
      <4>2. groups'[index'.trie[p] + 1] = groups[index.trie[p] + 1]
        BY <3>4, <3>5, <4>1
      <4> QED BY <4>2, LayersAtAre
    <3> HIDE DEF old, n
    <3>9. LayersAt(path)' = more
      BY <3>6, <3>7
    <3> QED BY <3>2, <3>8, <3>9
  <2>2. CASE id # NonExistLeaf
    <3> DEFINE group == groups[id + 1]
               new == Inserted(group, point)
    <3>1. id + 1 \in DOMAIN groups
      BY <2>2, IdsOfGroups
    <3>2. groups' = [groups EXCEPT ![id + 1] = new] /\ UNCHANGED index
      BY <2>2 DEF AddMountPoint, point
    <3>3. path \in KeysOf(index) /\ id = index.trie[path]
      BY <2>2 DEF Get, KeysOf
    <3>4. KeysOf(index)' = KeysOf(index) \cup {path}
      BY <3>2, <3>3 DEF KeysOf
    <3>5. group \in Seq(Points) /\ Ordered(group) /\ HasPriorities(group)
      BY <1>2, <3>1 DEF GroupInv, LayerInv, PrioritiesInv, HasPriorities
    <3>6. LayersAt(path) = LayersOf(group) /\ LayersAt(path)' = LayersOf(new)
      <4>1. groups'[index'.trie[path] + 1] = new
        BY <1>2, <3>1, <3>2, <3>3
      <4>2. /\ LayersAt(path) = LayersOf(groups[index.trie[path] + 1])
            /\ LayersAt(path)' = LayersOf(groups'[index'.trie[path] + 1])
        BY LayersAtAre
      <4> QED BY <3>3, <4>1, <4>2
    <3>7. \A p \in KeysOf(index) : p # path => LayersAt(p)' = LayersAt(p)
      <4> SUFFICES ASSUME NEW p \in KeysOf(index), p # path PROVE LayersAt(p)' = LayersAt(p)
        OBVIOUS
      <4>1. index.trie[p] # index.trie[path]
        BY <3>3 DEF GroupInv, IndexNamesGroups
      <4>2. index.trie[p] + 1 \in 1 .. Len(groups) /\ index.trie[p] + 1 # id + 1
        <5>1. index.trie[p] \in 0 .. Len(groups) - 1 /\ id \in 0 .. Len(groups) - 1
          BY <1>3, <3>3
        <5>2. index.trie[p] # id
          BY <3>3, <4>1
        <5> HIDE DEF id
        <5> QED BY <1>2, <5>1, <5>2
      <4> HIDE DEF new, id
      <4>3. groups'[index'.trie[p] + 1] = groups[index.trie[p] + 1]
        BY <1>2, <3>1, <3>2, <4>2
      <4> QED BY <4>3, LayersAtAre
    <3> HIDE DEF id, group
    <3>8. LayersOf(new)
            = InsertAt(LayersOf(group),
                       Cardinality({i \in DOMAIN LayersOf(group) :
                                      Rank(LayersOf(group)[i].volume) >= Rank(volume)}) + 1,
                       layer)
      <4>1. LayersOf(Inserted(group, point))
              = InsertAt(LayersOf(group),
                         Cardinality({i \in DOMAIN LayersOf(group) :
                                        Rank(LayersOf(group)[i].volume) >= Rank(point.volume)}) + 1,
                         LayerOf(point))
        BY <1>1, <3>5, InsertedLayers
      <4> QED BY <1>1, <4>1
    <3>9. old = LayersOf(group)
      BY <3>3, <3>6
    <3> HIDE DEF old, new
    <3>10. LayersAt(path)' = more
      BY <3>6, <3>8, <3>9
    <3> QED BY <3>4, <3>7, <3>10
  <2> QED BY <2>1, <2>2
<1>5. Layers' = [p \in KeysOf(index) \cup {path} |-> IF p = path THEN more ELSE Layers[p]]
  <2> HIDE DEF more
  <2>1. Layers' = [p \in KeysOf(index) \cup {path} |-> LayersAt(p)']
    BY <1>4 DEF Layers
  <2> QED BY <1>4, <2>1 DEF Layers
<1>6. \E outcome \in Layered!HasCatalogOutcomes(stores[volume], catalog) : outcome.code = "kSuccess"
  BY SameCalls
<1>7. DOMAIN Layers = KeysOf(index) /\ \A p \in KeysOf(index) : Layers[p] = LayersAt(p)
  BY DEF Layers
<1>8. old = IF path \in DOMAIN Layers THEN Layers[path] ELSE <<>>
  BY <1>7
<1> HIDE DEF old, layer
<1>9. Layers' = [p \in DOMAIN Layers \cup {path} |->
                   IF p = path
                   THEN Layered!InsertAt(old, Layered!Cardinality({i \in DOMAIN old :
                                                   Rank(old[i].volume) >= Rank(volume)}) + 1, layer)
                   ELSE Layers[p]]
  BY <1>5, <1>7, SameInsertion
<1>10. layer.volume = volume /\ layer.catalog = catalog
  BY DEF layer
<1> QED BY <1>6, <1>8, <1>9, <1>10 DEF Layered!Mount, Layers, layer

\* A mount is one of the layered store, or changes nothing.
LEMMA MountStepMaps ==
  ASSUME SingleCaller, RequestInv, GroupInv, LayerInv, NEW t \in Threads, Mount(t)
  PROVE  Layered!Next \/ UNCHANGED Layered!vars
<1>1. UNCHANGED <<stores, failed, clock, answer>>
  BY DEF Mount
<1>2. LastAnswer' = LastAnswer
  BY <1>1 DEF LastAnswer
<1>3. PICK volume \in Volumes, path \in Paths, catalog \in Catalogs :
        \/ UNCHANGED <<groups, index>>
        \/ /\ \E outcome \in HasCatalogOutcomes(stores[volume], catalog) :
                outcome.code = "kSuccess"
           /\ AddMountPoint(path, MountPoint(volume, catalog))
  BY MountAsks
<1>4. CASE UNCHANGED <<groups, index>>
  BY <1>1, <1>4, Stutters
<1>5. CASE /\ \E outcome \in HasCatalogOutcomes(stores[volume], catalog) :
                outcome.code = "kSuccess"
           /\ AddMountPoint(path, MountPoint(volume, catalog))
  <2>1. Layered!Mount(path, [volume |-> volume, catalog |-> catalog])
    BY <1>5, MountMaps
  <2> QED BY <1>1, <1>2, <2>1 DEF Layered!Next
<1> QED BY <1>3, <1>4, <1>5

\* Every step of the storage is one of the layered store, or none.
LEMMA StepMaps ==
  ASSUME SingleCaller, RequestInv, GroupInv, WatchInv, LayerInv, [Next]_vars
  PROVE  Layered!Next \/ UNCHANGED Layered!vars
<1> DEFINE Maps == Layered!Next \/ UNCHANGED Layered!vars
<1>1. CASE \E t \in Threads : Enter(t)
  BY <1>1, EnterMaps
<1>2. CASE \E t \in Threads : Visit(t)
  BY <1>2, VisitMaps
<1>3. CASE \E t \in Threads : Mount(t)
  BY <1>3, MountStepMaps
<1>4. CASE \/ \E t \in Callers : BeginCall(t)
           \/ \E t \in Mounters : BeginMount(t)
           \/ \E t \in Threads : LockForMount(t)
           \/ UNCHANGED vars
  <2>1. UNCHANGED <<groups, index, stores, failed, clock, answer>>
    BY <1>4 DEF BeginCall, BeginMount, Begin, LockForMount, vars
  <2> QED BY <2>1, Stutters
<1>5. CASE Tick
  <2>1. /\ UNCHANGED <<groups, index, stores, failed, answer>>
        /\ clock' = clock + 1
    BY <1>5 DEF Tick
  <2>2. UNCHANGED Layers /\ LastAnswer' = LastAnswer
    BY <2>1, SameLayers DEF LastAnswer
  <2>3. Layered!Tick
    BY <2>1, <2>2 DEF Layered!Tick, Layers
  <2> QED BY <2>3 DEF Layered!Next
<1>6. CASE FailDevice
  <2>1. /\ UNCHANGED <<groups, index, stores, clock, answer>>
        /\ \E volume \in Volumes : failed' = failed \cup {volume}
    BY <1>6 DEF FailDevice
  <2>2. UNCHANGED Layers /\ LastAnswer' = LastAnswer
    BY <2>1, SameLayers DEF LastAnswer
  <2>3. Layered!FailDevice
    BY <2>1, <2>2 DEF Layered!FailDevice, Layers
  <2> QED BY <2>3 DEF Layered!Next
<1> QED BY <1>1, <1>2, <1>3, <1>4, <1>5, <1>6 DEF Next, Step

\* A storage without mount points is a store without layers.
LEMMA InitMaps == ASSUME SingleCaller, Init PROVE Layered!Init
<1>1. Layers = [path \in {} |-> <<>>]
  <2>1. KeysOf(index) = {}
    BY DEF Init, NewIndex, EmptyTrie, KeysOf
  <2> QED BY <2>1 DEF Layers
<1>2. LastAnswer = Layered!Answer(Nothing, "kSuccess", Nothing)
  <2>1. (CHOOSE t \in Callers : TRUE) \in Threads
    BY PathsAreSequences DEF Threads
  <2>2. answer[CHOOSE t \in Callers : TRUE] = NoResponse
    BY <2>1 DEF Init
  <2> QED BY <2>2 DEF LastAnswer, NoResponse, Response, Layered!Answer
<1>3. stores \in [Volumes -> InitialStores] /\ failed = {} /\ clock = 0
  BY DEF Init
<1> QED BY <1>1, <1>2, <1>3 DEF Layered!Init, Layers

\* To a single caller the storage is one that serves every call at once, by the uppermost
\* layer that does not fail it, whatever is mounted meanwhile by others, however far the
\* time goes and whatever devices fail (ImplementsLayeredStore).
THEOREM CallsAreServedAtOnce == ASSUME SingleCaller PROVE Spec => ImplementsLayeredStore
<1>1. Init => Layered!Init
  BY InitMaps
<1>2. (RequestInv /\ GroupInv) /\ WatchInv /\ LayerInv /\ [Next]_vars => [Layered!Next]_(Layered!vars)
  BY StepMaps
<1> QED BY <1>1, <1>2, GroupsAreSound, PlacesAreWatched, LayersHold, PTL
        DEF Spec, ImplementsLayeredStore, Layered!Spec
=============================================================================
