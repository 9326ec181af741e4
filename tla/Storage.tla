------------------------------- MODULE Storage -------------------------------
(***************************************************************************)
(* Storage (Storage.hpp): volumes mounted at paths, and calls of several   *)
(* threads on them.  Every volume is the key-value store that PVManager    *)
(* implements, and a call on one volume is a step, as it holds the mutex   *)
(* of its manager.  A call of Storage is more than one: it holds mutex_    *)
(* in shared mode and goes through the volumes that are mounted at a path. *)
(* Mount holds mutex_ alone.                                               *)
(*                                                                         *)
(* Keys and paths are sequences of characters.  The index over the paths   *)
(* of the mount points, virtual_storage_index_, is an InvertedIndex whose  *)
(* leaves are positions in virtual_storage_, counted from 0.               *)
(***************************************************************************)
EXTENDS InvertedIndex, StoreCalls, SequencesExt

CONSTANTS
  Callers,        \* threads that call the operations of IStorage
  Mounters,       \* threads that call Mount
  Volumes,        \* physical volumes, in files of their own
  Priority,       \* volume -> the priority in its header, an int32_t
  PrioritySize,   \* 2^32 in the code
  InitialStores,  \* what volumes can store before
  Paths,          \* where volumes are mounted
  Catalogs,       \* catalogs of volumes that are mounted
  MaxCalls,       \* bound: calls of IStorage
  MaxMounts,      \* bound: calls of Mount
  MaxClock,       \* bound: the time does not go further
  MaxFailures     \* bound: volumes whose device fails

ASSUME StorageAssumption ==
  /\ Priority \in [Volumes -> Int] /\ PrioritySize \in Nat \ {0}
  /\ NonExistLeaf \notin Nat
  /\ MaxCalls \in Nat /\ MaxMounts \in Nat /\ MaxClock \in Nat /\ MaxFailures \in Nat

\* paths are sequences, and not empty: Insert ignores the empty one, and what is mounted
\* there is never found
ASSUME PathsAssumption == \A path \in Paths : path # <<>> /\ path \in PathsTo(path)

VARIABLES
  stores,   \* volume -> what it stores
  failed,   \* volumes whose stream has failed
  groups,   \* virtual_storage_: a sequence of volume groups, those of mount points
  index,    \* virtual_storage_index_
  clock,    \* what std::time returns
  pc,       \* thread -> "idle"; "waiting" for mutex_; "scanning" with mutex_ shared;
            \* "mounting" with mutex_ to itself
  request,  \* thread -> the call it is in, Nothing while it is idle
  place,    \* thread -> the position in its group that a scanning thread looks at next
  answer,   \* thread -> what its last call of IStorage returned
  able,     \* thread -> positions of its group that could have served its call
            \* whenever it had looked at them
  calls,    \* calls of IStorage so far
  mounts    \* completed calls of Mount so far

vars == <<stores, failed, groups, index, clock, pc, request, place, answer, able, calls, mounts>>

Threads == Callers \cup Mounters

\* lower_bound compares priorities as uint32_t
Unsigned(priority) == priority % PrioritySize

\* mutant: priority_ is unsigned
MountPointUnsigned(volume, catalog) ==
  [volume |-> volume, catalog |-> catalog, priority |-> Unsigned(Priority[volume]), order |-> mounts]

\* a mount point; order, how many were mounted before it, is there for the properties
MountPoint(volume, catalog) ==
  [volume |-> volume, catalog |-> catalog, priority |-> Priority[volume], order |-> mounts]

MountCall(volume, path, catalog) ==
  [op |-> "Mount", volume |-> volume, path |-> path, catalog |-> catalog]

\* a thread calls IStorage or Mount, and no call is the absence of one
ASSUME ThreadsAssumption ==
  /\ Callers \cap Mounters = {} /\ IsFiniteSet(Mounters)
  /\ Nothing \notin Calls
  /\ \A volume \in Volumes, path \in Paths, catalog \in Catalogs :
       Nothing # MountCall(volume, path, catalog)

\* what a call of IStorage returns, and the position that served it, 0 for none
Response(call, code, result, position) ==
  [call |-> call, code |-> code, result |-> result, position |-> position]

NoResponse == Response(Nothing, "kSuccess", Nothing, 0)

\* a storage without mount points, and volumes with what they were given before
Init ==
  /\ stores \in [Volumes -> InitialStores]
  /\ failed = {}
  /\ groups = <<>> /\ index = NewIndex
  /\ clock = 0
  /\ pc = [t \in Threads |-> "idle"]
  /\ request = [t \in Threads |-> Nothing]
  /\ place = [t \in Threads |-> 0]
  /\ answer = [t \in Threads |-> NoResponse]
  /\ able = [t \in Threads |-> {}]
  /\ calls = 0 /\ mounts = 0

-----------------------------------------------------------------------------
(***************************************************************************)
(* getVolumeGroupRange: the part of the key that the index has nodes for   *)
(* must be a mounted path; what is behind it is looked up in the catalogs  *)
(* of the group, the last mount point first.                               *)
(***************************************************************************)
PathLength(key) == FindMaxSubKey(index, key)
GroupId(key) == Get(index, SubSeq(key, 1, PathLength(key)))
IsMounted(key) == GroupId(key) # NonExistLeaf
Group(key) == groups[GroupId(key) + 1]

\* mutant: the part of the key that led to the group is not taken off
AdjustedWhole(call, point) == [call EXCEPT !.key = point.catalog \o @]

\* the call on the volume of a mount point, for its catalog and the rest of the key
Adjusted(call, point) ==
  [call EXCEPT !.key = point.catalog \o SubSeq(@, PathLength(@) + 1, Len(@))]

\* what the manager of a volume may answer, and leave stored
VolumeOutcomes(volume, call) ==
  DeviceOutcomes(stores[volume], volume \in failed, clock, call)

PointOutcomes(call, point) == VolumeOutcomes(point.volume, Adjusted(call, point))

-----------------------------------------------------------------------------
(***************************************************************************)
(* The calls.                                                              *)
(***************************************************************************)
NoWriter == \A u \in Threads : pc[u] # "mounting"
NoReader == \A u \in Threads : pc[u] # "scanning"

Begin(t, call) ==
  /\ pc[t] = "idle"
  /\ pc' = [pc EXCEPT ![t] = "waiting"]
  /\ request' = [request EXCEPT ![t] = call]
  /\ UNCHANGED <<stores, failed, groups, index, clock, place, answer, mounts>>

BeginCall(t) ==
  /\ calls < MaxCalls
  /\ \E call \in Calls : Begin(t, call)
  /\ calls' = calls + 1

BeginMount(t) ==
  /\ mounts + Cardinality({u \in Mounters : pc[u] # "idle"}) < MaxMounts
  /\ \E volume \in Volumes, path \in Paths, catalog \in Catalogs :
       Begin(t, MountCall(volume, path, catalog))
  /\ UNCHANGED calls

\* a call ends; its lock of mutex_ goes with it
Leave(t) ==
  /\ pc' = [pc EXCEPT ![t] = "idle"]
  /\ request' = [request EXCEPT ![t] = Nothing]

Return(t, code, result, position) ==
  /\ Leave(t)
  /\ place' = [place EXCEPT ![t] = 0]
  /\ answer' = [answer EXCEPT ![t] = Response(request[t], code, result, position)]

IsWaiting(t) == pc[t] = "waiting" /\ request[t].op # "Mount"

\* mutant: mutex_ is not locked by calls
EnterUnlocked(t) ==
  /\ IsWaiting(t) /\ IsMounted(request[t].key)
  /\ pc' = [pc EXCEPT ![t] = "scanning"]
  /\ place' = [place EXCEPT ![t] = Len(Group(request[t].key))]
  /\ UNCHANGED <<request, answer, stores, failed, groups, index, clock, calls, mounts>>

\* shared_lock and getVolumeGroupRange
Enter(t) ==
  /\ IsWaiting(t) /\ NoWriter
  /\ \/ /\ IsMounted(request[t].key)
        /\ pc' = [pc EXCEPT ![t] = "scanning"]
        /\ place' = [place EXCEPT ![t] = Len(Group(request[t].key))]
        /\ UNCHANGED <<request, answer>>
     \/ /\ ~IsMounted(request[t].key)
        /\ Return(t, "kCatalogNotFoundError", Nothing, 0)
  /\ UNCHANGED <<stores, failed, groups, index, clock, calls, mounts>>

Point(t) == Group(request[t].key)[place[t]]

\* mutant: an error of the first volume is the answer
VisitFirst(t) ==
  /\ pc[t] = "scanning"
  /\ \E outcome \in PointOutcomes(request[t], Point(t)) :
       /\ stores' = [stores EXCEPT ![Point(t).volume] = outcome.store]
       /\ Return(t, outcome.code, outcome.result, IF outcome.code = "kSuccess" THEN place[t] ELSE 0)
  /\ UNCHANGED <<failed, groups, index, clock, calls, mounts>>

\* mutant: a volume that fails is tried again
VisitAgain(t) ==
  /\ pc[t] = "scanning"
  /\ \E outcome \in PointOutcomes(request[t], Point(t)) :
       /\ stores' = [stores EXCEPT ![Point(t).volume] = outcome.store]
       /\ IF outcome.code = "kSuccess" THEN Return(t, "kSuccess", outcome.result, place[t])
          ELSE UNCHANGED <<pc, request, place, answer>>
  /\ UNCHANGED <<failed, groups, index, clock, calls, mounts>>

\* one turn of the loop: the first volume that does not fail has the last word, and
\* whatever the failures were, kKeyNotFound is the answer after all of them
Visit(t) ==
  /\ pc[t] = "scanning"
  /\ \E outcome \in PointOutcomes(request[t], Point(t)) :
       /\ stores' = [stores EXCEPT ![Point(t).volume] = outcome.store]
       /\ \/ /\ outcome.code = "kSuccess"
             /\ Return(t, "kSuccess", outcome.result, place[t])
          \/ /\ outcome.code # "kSuccess" /\ place[t] > 1
             /\ place' = [place EXCEPT ![t] = @ - 1]
             /\ UNCHANGED <<pc, request, answer>>
          \/ /\ outcome.code # "kSuccess" /\ place[t] = 1
             /\ Return(t, "kKeyNotFound", Nothing, 0)
  /\ UNCHANGED <<failed, groups, index, clock, calls, mounts>>

-----------------------------------------------------------------------------
(***************************************************************************)
(* Mount.  The factory and the check of the catalog answer under the lock. *)
(***************************************************************************)
\* left.priority_ becomes a uint32_t, as the other operand is one
LowerBound(group, priority) ==
  CHOOSE n \in 1 .. Len(group) + 1 :
    /\ \A i \in 1 .. n - 1 : Unsigned(group[i].priority) < Unsigned(priority)
    /\ n <= Len(group) => Unsigned(group[n].priority) >= Unsigned(priority)

\* mutant: upper_bound
InsertLast(group, point) ==
  LET n == CHOOSE n \in 1 .. Len(group) + 1 :
             /\ \A i \in 1 .. n - 1 : Unsigned(group[i].priority) <= Unsigned(point.priority)
             /\ n <= Len(group) => Unsigned(group[n].priority) > Unsigned(point.priority)
  IN  InsertAt(group, n, point)

Inserted(group, point) == InsertAt(group, LowerBound(group, point.priority), point)

\* mutant: the id is the size after the new group is there
AddMountPointLate(path, point) ==
  LET id == Get(index, path)
  IN  IF id = NonExistLeaf
      THEN /\ index' = Insert(index, path, Len(groups) + 1)
           /\ groups' = Append(groups, <<point>>)
      ELSE UNCHANGED <<index, groups>>

\* addNewMountPoint
AddMountPoint(path, point) ==
  LET id == Get(index, path)
  IN  IF id = NonExistLeaf
      THEN /\ index' = Insert(index, path, Len(groups))
           /\ groups' = Append(groups, <<point>>)
      ELSE /\ groups' = [groups EXCEPT ![id + 1] = Inserted(@, point)]
           /\ UNCHANGED index

\* unique_lock, and the manager that the factory has or makes for the file, or its error
LockForMount(t) ==
  /\ pc[t] = "waiting" /\ request[t].op = "Mount"
  /\ NoWriter /\ NoReader
  /\ \/ /\ pc' = [pc EXCEPT ![t] = "mounting"]
        /\ UNCHANGED <<request, mounts>>
     \/ Leave(t) /\ mounts' = mounts + 1
  /\ UNCHANGED <<stores, failed, groups, index, clock, place, answer, calls>>

Mount(t) ==
  /\ pc[t] = "mounting"
  /\ LET call == request[t] IN
     \E outcome \in HasCatalogOutcomes(stores[call.volume], call.catalog) :
       \/ /\ outcome.code = "kSuccess"
          /\ AddMountPoint(call.path, MountPoint(call.volume, call.catalog))
       \/ /\ outcome.code # "kSuccess"
          /\ UNCHANGED <<groups, index>>
  /\ Leave(t) /\ mounts' = mounts + 1
  /\ UNCHANGED <<stores, failed, clock, place, answer, calls>>

-----------------------------------------------------------------------------
Tick ==
  /\ clock < MaxClock
  /\ clock' = clock + 1
  /\ UNCHANGED <<stores, failed, groups, index, pc, request, place, answer, calls, mounts>>

\* a stream that failed stays failed
FailDevice ==
  /\ Cardinality(failed) < MaxFailures
  /\ \E volume \in Volumes \ failed : failed' = failed \cup {volume}
  /\ UNCHANGED <<stores, groups, index, clock, pc, request, place, answer, calls, mounts>>

Step(t) == Enter(t) \/ Visit(t) \/ LockForMount(t) \/ Mount(t)

\* a volume that would serve the call if it were looked at now
Serves(call, point) == \A outcome \in PointOutcomes(call, point) : outcome.code = "kSuccess"

StillAble(t) == {i \in able[t] : Serves(request[t], Group(request[t].key)[i])}

\* able is a history of the calls under way
Watch ==
  able' = [t \in Threads |->
             IF pc'[t] # "scanning" THEN {}
             ELSE IF pc[t] = "scanning" THEN StillAble(t)
             ELSE 1 .. place'[t]]

Next ==
  /\ \/ \E t \in Callers : BeginCall(t)
     \/ \E t \in Mounters : BeginMount(t)
     \/ \E t \in Threads : Step(t)
     \/ Tick
     \/ FailDevice
  /\ Watch

Spec == Init /\ [][Next]_vars

(***************************************************************************)
(* A thread that can go on does at some time; no thread has to begin a     *)
(* call.  std::shared_mutex may let a thread wait as long as others come,  *)
(* so nothing is assumed of a thread whose turn is taken again and again.  *)
(***************************************************************************)
control == <<pc, place>>

FairSpec == Spec /\ \A t \in Threads : WF_control(Step(t))

(***************************************************************************)
(* A call throws: there is no memory for a copy of the key.  The handler   *)
(* turns the exception into a StorageErrorDescriptor.  Where the call is   *)
(* to return an expected, the descriptor is not wrapped as an unexpected:  *)
(* expected is constructed with a value, which is what the descriptor's    *)
(* operator bool gives, false, as a number.                                *)
(***************************************************************************)
ReturnsExpected(call) == call.op \in {"Get", "GetExpiredDate"}

FalseAsValue == "0, as the number false is"

OutOfMemory(t) ==
  /\ pc[t] = "scanning"
  /\ IF ReturnsExpected(request[t]) THEN Return(t, "kSuccess", FalseAsValue, 0)
     ELSE Return(t, "kMemoryNotEnough", Nothing, 0)
  /\ UNCHANGED <<stores, failed, groups, index, clock, calls, mounts>>

ThrowSpec == Init /\ [][Next \/ ((\E t \in Callers : OutOfMemory(t)) /\ Watch)]_vars

-----------------------------------------------------------------------------
(***************************************************************************)
(* Properties.                                                             *)
(***************************************************************************)
\* Every variable keeps its type.
TypeOK ==
  /\ DOMAIN stores = Volumes /\ failed \subseteq Volumes
  /\ \A id \in DOMAIN groups : \A i \in DOMAIN groups[id] :
       groups[id][i] \in [volume : Volumes, catalog : Catalogs, priority : {Priority[v] : v \in Volumes},
                          order : 0 .. MaxMounts]
  /\ pc \in [Threads -> {"idle", "waiting", "scanning", "mounting"}]
  /\ \A t \in Callers : pc[t] # "mounting" /\ request[t] \in Calls \cup {Nothing}
  /\ \A t \in Threads : pc[t] = "idle" <=> request[t] = Nothing
  /\ place \in [Threads -> 0 .. MaxMounts] /\ able \in [Threads -> SUBSET (1 .. MaxMounts)]
  /\ clock \in 0 .. MaxClock /\ calls \in 0 .. MaxCalls /\ mounts \in 0 .. MaxMounts

\* The index over the paths and the vector of groups agree: a mounted path has a group
\* of its own, every group a path and a volume to look at.  Between two operations
\* that change the one and the other nothing is checked, so a lost or doubled id is an
\* access behind the end of the vector.
IndexNamesGroups ==
  /\ {index.trie[p] : p \in KeysOf(index)} = 0 .. Len(groups) - 1
  /\ \A p, q \in KeysOf(index) : index.trie[p] = index.trie[q] => p = q
  /\ \A id \in DOMAIN groups : groups[id] # <<>>

\* "test_value_2 is in storage with a higher priority" (storage_tests.h:53), which
\* comes later in a group: whatever the order of the mounts, a group is sorted by the
\* priorities taken as unsigned numbers, and of equal ones the first mounted is last,
\* which is the first to be looked at.
GroupsOrdered ==
  \A id \in DOMAIN groups : \A i, j \in DOMAIN groups[id] :
    i < j => LET lower == groups[id][i]
                 upper == groups[id][j]
             IN  \/ Unsigned(lower.priority) < Unsigned(upper.priority)
                 \/ /\ Unsigned(lower.priority) = Unsigned(upper.priority)
                    /\ lower.order > upper.order

\* A call goes through its group by iterators: no step of another thread changes the
\* group, or which group the key leads to, while the call is under way.
RangesStay ==
  [][\A t \in Threads :
       pc[t] = "scanning" => \A key \in {request[t].key} : Group(key)' = Group(key)]_vars

\* A call is served by a volume at least as high as every volume that could have served
\* it all the time from the beginning of the call to its end, and fails only if there
\* is none, whatever the other threads, the clock and the devices do meanwhile.
ServedByBest ==
  [][\A t \in Callers :
       pc[t] = "scanning" /\ pc'[t] = "idle" =>
         \A i \in StillAble(t) : i <= answer'[t].position]_vars

\* "convert the exception to StorageErrorDescriptor" (ExceptionHandler.hpp:11): what a
\* call that throws returns is an error, so a call that reports success was served by
\* a volume.
SuccessIsServed ==
  \A t \in Callers :
    answer[t].call # Nothing /\ answer[t].code = "kSuccess" => answer[t].position # 0

\* No call, of IStorage or of Mount, waits for ever for a lock or goes through volumes
\* for ever, as long as the other threads do not begin calls for ever.
EveryCallReturns == \A t \in Threads : pc[t] # "idle" ~> pc[t] = "idle"

(***************************************************************************)
(* To a single caller the storage is one that serves every call at once.   *)
(***************************************************************************)
LayersAt(path) ==
  LET layer(point) == [volume |-> point.volume, catalog |-> point.catalog]
      group == groups[index.trie[path] + 1]
  IN  [i \in DOMAIN group |-> layer(group[Len(group) + 1 - i])]

LastAnswer == LET last == answer[CHOOSE t \in Callers : TRUE]
              IN  [call |-> last.call, code |-> last.code, result |-> last.result]

Rank(volume) == Unsigned(Priority[volume])

Layered == INSTANCE LayeredStore
             WITH layers <- [path \in KeysOf(index) |-> LayersAt(path)], answer <- LastAnswer

ImplementsLayeredStore == Layered!Spec
=============================================================================
