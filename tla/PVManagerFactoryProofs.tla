------------------------ MODULE PVManagerFactoryProofs ------------------------
(***************************************************************************)
(* PVManagerFactory for any threads, files and paths, and any number of    *)
(* calls, failures and processes: there is one manager for a file, it is   *)
(* the one that every call returns, and no volume is emptied.              *)
(***************************************************************************)
EXTENDS PVManagerFactory, TLAPS

Inside == {"looking", "loading", "making", "emptying", "initialising", "registering"}
Outside == {"idle", "locking", "checking", "finding"}

\* Who is inside has the lock, and a path.
LockInv ==
  /\ pc \in [Threads -> Inside \cup Outside]
  /\ request \in [Threads -> Paths \cup {Nothing}]
  /\ \A t \in Threads : pc[t] \in Inside => owner = t
  /\ \A t \in Threads : pc[t] # "idle" => request[t] \in Paths

\* Every manager is registered for its file or about to be, and who is about to
\* register one is the first to do so.
ManagerInv ==
  /\ built = [t \in Threads |-> built[t]]
  /\ \A k \in DOMAIN managers : managers[k] \in opened /\ managers[k].file = k
  /\ \A m \in opened :
       \/ m.file \in DOMAIN managers /\ managers[m.file] = m
       \/ \E t \in Threads : pc[t] = "registering" /\ built[t] = m
  /\ \A t \in Threads : pc[t] \in Inside \ {"looking"} => File(t) \notin DOMAIN managers
  /\ \A t \in Threads : pc[t] = "registering" => built[t] \in opened /\ built[t].file = File(t)

\* Only a file that was absent is emptied, and one that is open is there.
DeviceInv ==
  /\ device = [f \in Files |-> device[f]]
  /\ \A m \in opened : m.file \in Files /\ Exists(m.file)
  /\ \A t \in Threads : pc[t] = "emptying" => ~Exists(File(t))

\* An answer is what is registered.
AnswerInv ==
  /\ answer = [t \in Threads |-> answer[t]]
  /\ \A t \in Threads :
       answer[t].manager # Nothing =>
         /\ answer[t].path \in Paths
         /\ Canonical[answer[t].path] \in DOMAIN managers
         /\ managers[Canonical[answer[t].path]] = answer[t].manager

FactoryInv == LockInv /\ ManagerInv /\ DeviceInv /\ AnswerInv

LEMMA FilesOfPaths ==
  /\ \A path \in Paths : Canonical[path] \in Files
  /\ Nothing \notin Threads /\ Nothing \notin Paths
BY CanonicalAssumption DEF CanonicalAssumption

LEMMA InitialFactory == Init => FactoryInv
BY FilesOfPaths
   DEF Init, FactoryInv, LockInv, ManagerInv, DeviceInv, AnswerInv, NoAnswer, Answer, Inside, Outside

LEMMA LockStep == LockInv /\ [Next]_vars => LockInv'
<1> SUFFICES ASSUME LockInv, [Next]_vars PROVE LockInv'
  OBVIOUS
<1> USE FilesOfPaths DEF LockInv, Inside, Outside, Goes, Return, Throw
<1>1. ASSUME NEW t \in Threads, BeginCreate(t) \/ BeginGet(t) PROVE LockInv'
  <2>1. PICK path \in Paths, to \in {"locking", "checking"} :
          /\ request' = [request EXCEPT ![t] = path] /\ pc' = [pc EXCEPT ![t] = to]
          /\ UNCHANGED owner /\ pc[t] = "idle"
    BY <1>1 DEF BeginCreate, BeginGet, Begin
  <2> QED BY <2>1
<1>2. ASSUME NEW t \in Threads, Lock(t) PROVE LockInv'
  BY <1>2 DEF Lock
<1>3. ASSUME NEW t \in Threads, Look(t) PROVE LockInv'
  BY <1>3 DEF Look
<1>4. ASSUME NEW t \in Threads, Load(t) PROVE LockInv'
  BY <1>4 DEF Load, Construct
<1>5. ASSUME NEW t \in Threads, Make(t) PROVE LockInv'
  BY <1>5 DEF Make
<1>6. ASSUME NEW t \in Threads, CreateEmpty(t) PROVE LockInv'
  BY <1>6 DEF CreateEmpty
<1>7. ASSUME NEW t \in Threads, Initialise(t) PROVE LockInv'
  BY <1>7 DEF Initialise, Construct
<1>8. ASSUME NEW t \in Threads, Register(t) PROVE LockInv'
  BY <1>8 DEF Register
<1>9. ASSUME NEW t \in Threads, Check(t) PROVE LockInv'
  BY <1>9 DEF Check
<1>10. ASSUME NEW t \in Threads, Find(t) PROVE LockInv'
  BY <1>10 DEF Find
<1>11. ASSUME NEW t \in Threads, Use(t) PROVE LockInv'
  BY <1>11 DEF Use
<1>12. CASE Exit \/ Crash
  BY <1>12 DEF Exit, Crash, NextProcess
<1>13. CASE UNCHANGED vars
  BY <1>13 DEF vars
<1> QED BY <1>1, <1>2, <1>3, <1>4, <1>5, <1>6, <1>7, <1>8, <1>9, <1>10, <1>11, <1>12, <1>13
        DEF Next, Step

LEMMA ManagerStep == LockInv /\ ManagerInv /\ DeviceInv /\ [Next]_vars => ManagerInv'
<1> SUFFICES ASSUME LockInv, ManagerInv, DeviceInv, [Next]_vars PROVE ManagerInv'
  OBVIOUS
<1> USE FilesOfPaths DEF LockInv, ManagerInv, Inside, Outside, Goes, File
<1>1. ASSUME NEW t \in Threads, BeginCreate(t) \/ BeginGet(t) PROVE ManagerInv'
  <2>1. PICK path \in Paths, to \in {"locking", "checking"} :
          /\ request' = [request EXCEPT ![t] = path] /\ pc' = [pc EXCEPT ![t] = to]
          /\ UNCHANGED <<managers, opened, built>> /\ pc[t] = "idle"
    BY <1>1 DEF BeginCreate, BeginGet, Begin
  <2> QED BY <2>1
<1>2. ASSUME NEW t \in Threads, Lock(t) PROVE ManagerInv'
  <2>1. /\ \A u \in Threads \ {t} : pc'[u] = pc[u]
        /\ managers' = managers /\ opened' = opened /\ built' = built /\ request' = request
        /\ pc[t] = "locking" /\ pc'[t] = "looking"
    BY <1>2 DEF Lock
  <2>2. \A m \in opened' :
          \/ m.file \in DOMAIN managers' /\ managers'[m.file] = m
          \/ \E u \in Threads : pc'[u] = "registering" /\ built'[u] = m
    BY <2>1
  <2>3. \A u \in Threads : pc'[u] \in Inside \ {"looking"} => u # t /\ pc[u] \in Inside \ {"looking"}
    BY <2>1
  <2>4. built' = [u \in Threads |-> built'[u]]
    BY <2>1
  <2>5. \A u \in Threads : pc'[u] \in Inside \ {"looking"} => File(u)' \notin DOMAIN managers'
    BY <2>1, <2>3
  <2>6. \A u \in Threads : pc'[u] = "registering" => built'[u] \in opened' /\ built'[u].file = File(u)'
    BY <2>1, <2>3
  <2>7. \A k \in DOMAIN managers' : managers'[k] \in opened' /\ managers'[k].file = k
    BY <2>1
  <2> QED BY <2>2, <2>4, <2>5, <2>6, <2>7
<1>3. ASSUME NEW t \in Threads, pc[t] \in Inside \ {"registering"}, \E m : Return(t, m),
             UNCHANGED <<managers, opened>>
      PROVE ManagerInv'
  BY <1>3 DEF Return
<1>4. ASSUME NEW t \in Threads, pc[t] \in Inside \ {"looking", "registering"}, Construct(t),
             UNCHANGED managers
      PROVE ManagerInv'
  <2>1. \A u \in Threads : pc[u] \in Inside => u = t
    BY <1>4
  <2>2. PICK m : /\ m.file = File(t) /\ opened' = opened \cup {m}
                 /\ built' = [built EXCEPT ![t] = m]
                 /\ pc' = [pc EXCEPT ![t] = "registering"]
                 /\ UNCHANGED <<managers, request>>
    BY <1>4 DEF Construct, Manager
  <2>3. pc'[t] = "registering" /\ built'[t] = m
    BY <2>2
  <2>4. \A n \in opened' :
          \/ n.file \in DOMAIN managers' /\ managers'[n.file] = n
          \/ \E u \in Threads : pc'[u] = "registering" /\ built'[u] = n
    <3> SUFFICES ASSUME NEW n \in opened, ~(n.file \in DOMAIN managers /\ managers[n.file] = n)
                 PROVE n = m
      BY <2>2, <2>3
    <3>1. PICK u \in Threads : pc[u] = "registering" /\ built[u] = n
      OBVIOUS
    <3> QED BY <1>4, <2>1, <3>1
  <2>5. \A u \in Threads : pc'[u] \in Inside => u = t
    BY <2>1, <2>2
  <2>6. File(t)' = File(t) /\ File(t) \notin DOMAIN managers
    BY <1>4, <2>2
  <2> QED BY <2>2, <2>3, <2>4, <2>5, <2>6
<1>5. ASSUME NEW t \in Threads, Look(t) PROVE ManagerInv'
  <2>1. CASE /\ ~(Exists(File(t)) /\ IsRegistered(request[t]))
             /\ Goes(t, IF Exists(File(t)) THEN "loading" ELSE "making")
             /\ UNCHANGED <<managers, opened, request, built>>
    <3>1. File(t) \notin DOMAIN managers
      BY <1>5, <2>1 DEF Look, IsRegistered, Key, DeviceInv
    <3>2. /\ \A u \in Threads \ {t} : pc'[u] = pc[u]
          /\ pc[t] = "looking" /\ pc'[t] \in {"loading", "making"}
      BY <1>5, <2>1 DEF Look
    <3>3. \A u \in Threads : pc'[u] = "registering" <=> pc[u] = "registering"
      BY <3>2
    <3>4. \A u \in Threads : pc'[u] \in Inside \ {"looking"} => File(u)' \notin DOMAIN managers'
      BY <2>1, <3>1, <3>2
    <3> QED BY <2>1, <3>3, <3>4
  <2> QED BY <1>3, <1>5, <2>1 DEF Look, Throw
<1>6. ASSUME NEW t \in Threads, Load(t) PROVE ManagerInv'
  BY <1>3, <1>4, <1>6 DEF Load, Throw
<1>7. ASSUME NEW t \in Threads, Make(t) PROVE ManagerInv'
  BY <1>7 DEF Make, Return, Throw
<1>8. ASSUME NEW t \in Threads, CreateEmpty(t) PROVE ManagerInv'
  BY <1>8 DEF CreateEmpty
<1>9. ASSUME NEW t \in Threads, Initialise(t) PROVE ManagerInv'
  BY <1>3, <1>4, <1>9 DEF Initialise, Throw
<1>10. ASSUME NEW t \in Threads, Register(t) PROVE ManagerInv'
  <2>1. /\ pc[t] = "registering" /\ built[t].file = File(t) /\ built[t] \in opened
        /\ File(t) \notin DOMAIN managers
        /\ \A u \in Threads : pc[u] \in Inside => u = t
        /\ pc' = [pc EXCEPT ![t] = "idle"]
        /\ request' = [request EXCEPT ![t] = Nothing]
        /\ built' = [built EXCEPT ![t] = Nothing]
    BY <1>10 DEF Register, Return, Throw
  <2>2. \A u \in Threads : pc'[u] \notin Inside
    BY <2>1
  <2>3. CASE /\ managers' = [k \in DOMAIN managers \cup {Key(request[t])} |->
                             IF k = Key(request[t]) THEN built[t] ELSE managers[k]]
             /\ UNCHANGED opened
    <3>1. \A k \in DOMAIN managers' : managers'[k] \in opened' /\ managers'[k].file = k
      BY <2>1, <2>3 DEF Key
    <3>2. \A m \in opened' : m.file \in DOMAIN managers' /\ managers'[m.file] = m
      <4> SUFFICES ASSUME NEW m \in opened PROVE m.file \in DOMAIN managers' /\ managers'[m.file] = m
        BY <2>3
      <4>1. CASE m.file \in DOMAIN managers /\ managers[m.file] = m
        BY <2>1, <2>3, <4>1 DEF Key
      <4>2. CASE \E u \in Threads : pc[u] = "registering" /\ built[u] = m
        BY <2>1, <2>3, <4>2 DEF Key
      <4> QED BY <4>1, <4>2
    <3>3. built' = [u \in Threads |-> built'[u]]
      BY <2>1
    <3> QED BY <2>2, <3>1, <3>2, <3>3
  <2>4. CASE opened' = opened \ {built[t]} /\ UNCHANGED managers
    BY <2>1, <2>2, <2>4
  <2> QED BY <1>10, <2>3, <2>4 DEF Register
<1>11. ASSUME NEW t \in Threads, Check(t) \/ Find(t) PROVE ManagerInv'
  BY <1>11 DEF Check, Find, Return
<1>12. ASSUME NEW t \in Threads, Use(t) PROVE ManagerInv'
  BY <1>12 DEF Use
<1>13. CASE Exit \/ Crash
  BY <1>13 DEF Exit, Crash, NextProcess
<1>14. CASE UNCHANGED vars
  BY <1>14 DEF vars
<1> QED BY <1>1, <1>2, <1>5, <1>6, <1>7, <1>8, <1>9, <1>10, <1>11, <1>12, <1>13, <1>14
        DEF Next, Step

LEMMA DeviceStep == LockInv /\ ManagerInv /\ DeviceInv /\ [Next]_vars => DeviceInv'
<1> SUFFICES ASSUME LockInv, ManagerInv, DeviceInv, [Next]_vars PROVE DeviceInv'
  OBVIOUS
<1> USE FilesOfPaths DEF LockInv, DeviceInv, Inside, Outside, Goes, File, Exists
<1>1. ASSUME NEW t \in Threads, BeginCreate(t) \/ BeginGet(t) PROVE DeviceInv'
  <2>1. PICK path \in Paths, to \in {"locking", "checking"} :
          /\ request' = [request EXCEPT ![t] = path] /\ pc' = [pc EXCEPT ![t] = to]
          /\ UNCHANGED <<device, opened>> /\ pc[t] = "idle"
    BY <1>1 DEF BeginCreate, BeginGet, Begin
  <2> QED BY <2>1
<1>2. ASSUME NEW t \in Threads, Lock(t) \/ Use(t) \/ Check(t) \/ Find(t) PROVE DeviceInv'
  BY <1>2 DEF Lock, Use, Check, Find, Return
<1>3. ASSUME NEW t \in Threads, Look(t) \/ Make(t) PROVE DeviceInv'
  BY <1>3 DEF Look, Make, Return, Throw
<1>4. ASSUME NEW t \in Threads, Load(t) PROVE DeviceInv'
  <2>1. \A u \in Threads : pc'[u] = "emptying" => pc[u] = "emptying" /\ request'[u] = request[u]
    BY <1>4 DEF Load, Construct, Return, Throw
  <2>2. \A m \in opened' : m.file \in Files /\ Exists(m.file)
    BY <1>4 DEF Load, Construct, Manager, Return, Throw
  <2> QED BY <1>4, <2>1, <2>2 DEF Load
<1>5. ASSUME NEW t \in Threads, Register(t) PROVE DeviceInv'
  BY <1>5 DEF Register, Return, Throw
<1>6. ASSUME NEW t \in Threads, CreateEmpty(t) \/ Initialise(t) PROVE DeviceInv'
  <2>1. \A u \in Threads : pc[u] = "emptying" => u = t
    BY <1>6 DEF CreateEmpty, Initialise
  <2>2. pc'[t] # "emptying" /\ \A u \in Threads : u # t => pc'[u] = pc[u]
    BY <1>6 DEF CreateEmpty, Initialise, Construct, Return, Throw
  <2>3. device' = [f \in Files |-> device'[f]]
    BY <1>6 DEF CreateEmpty, Initialise
  <2>4. \A f \in Files : Exists(f) => Exists(f)'
    BY <1>6 DEF CreateEmpty, Initialise
  <2>5. \A m \in opened : m.file \in Files /\ Exists(m.file)'
    BY <2>4
  <2>6. \A m \in opened' : m.file \in Files /\ Exists(m.file)'
    BY <1>6, <2>5 DEF CreateEmpty, Initialise, Construct, Manager, Throw, Return
  <2> QED BY <2>1, <2>2, <2>3, <2>6
<1>7. CASE Exit \/ Crash
  BY <1>7 DEF Exit, Crash, NextProcess
<1>8. CASE UNCHANGED vars
  BY <1>8 DEF vars
<1> QED BY <1>1, <1>2, <1>3, <1>4, <1>5, <1>6, <1>7, <1>8 DEF Next, Step

LEMMA AnswerStep == LockInv /\ ManagerInv /\ AnswerInv /\ [Next]_vars => AnswerInv'
<1> SUFFICES ASSUME LockInv, ManagerInv, AnswerInv, [Next]_vars PROVE AnswerInv'
  OBVIOUS
<1> USE FilesOfPaths DEF LockInv, AnswerInv, Inside, Outside, Answer
<1>1. ASSUME UNCHANGED <<managers, answer>> PROVE AnswerInv'
  BY <1>1
<1>2. ASSUME NEW t \in Threads, Return(t, Nothing), UNCHANGED managers PROVE AnswerInv'
  BY <1>2 DEF Return
<1>3. ASSUME NEW t \in Threads, Look(t) PROVE AnswerInv'
  <2>1. CASE Return(t, managers[Key(request[t])]) /\ IsRegistered(request[t]) /\ UNCHANGED managers
    BY <1>3, <2>1 DEF Return, Look, IsRegistered, Key
  <2> QED BY <1>1, <1>2, <1>3, <2>1 DEF Look, Throw
<1>4. ASSUME NEW t \in Threads, Find(t) PROVE AnswerInv'
  BY <1>4 DEF Find, Return, IsRegistered, Key
<1>5. ASSUME NEW t \in Threads, Register(t) PROVE AnswerInv'
  <2>1. File(t) \notin DOMAIN managers /\ request[t] \in Paths /\ File(t) = Canonical[request[t]]
    BY <1>5 DEF Register, ManagerInv, File
  <2>2. CASE /\ managers' = [k \in DOMAIN managers \cup {Key(request[t])} |->
                             IF k = Key(request[t]) THEN built[t] ELSE managers[k]]
             /\ Return(t, built[t])
    BY <2>1, <2>2 DEF Return, Key
  <2> QED BY <1>2, <1>5, <2>2 DEF Register, Throw
<1>6. CASE Exit \/ Crash
  BY <1>6 DEF Exit, Crash, NextProcess, NoAnswer
<1>7. ASSUME NEW t \in Threads,
             BeginCreate(t) \/ BeginGet(t) \/ Lock(t) \/ CreateEmpty(t) \/ Use(t)
      PROVE AnswerInv'
  BY <1>1, <1>7 DEF BeginCreate, BeginGet, Begin, Lock, CreateEmpty, Use
<1>8. ASSUME NEW t \in Threads, Load(t) \/ Make(t) \/ Initialise(t) \/ Check(t) PROVE AnswerInv'
  BY <1>1, <1>2, <1>8 DEF Load, Make, Initialise, Check, Construct, Throw
<1>9. CASE UNCHANGED vars
  BY <1>1, <1>9 DEF vars
<1> QED BY <1>3, <1>4, <1>5, <1>6, <1>7, <1>8, <1>9 DEF Next, Step

LEMMA FactoryInvariant == Spec => []FactoryInv
<1>1. FactoryInv /\ [Next]_vars => FactoryInv'
  BY LockStep, ManagerStep, DeviceStep, AnswerStep DEF FactoryInv
<1> QED BY InitialFactory, <1>1, PTL DEF Spec

-----------------------------------------------------------------------------
\* Create under its lock, over canonical paths: there are never two managers with a file
\* open, whatever paths lead to it and however many threads ask (PVManagerFactory.hpp:12).
THEOREM OneManager == Spec => []OneManagerPerFile
<1>1. FactoryInv => OneManagerPerFile
  <2> SUFFICES ASSUME LockInv, ManagerInv, NEW m \in opened, NEW n \in opened, m.file = n.file
               PROVE m = n
    BY DEF FactoryInv, OneManagerPerFile
  <2>1. \A t \in Threads : pc[t] = "registering" => built[t].file \notin DOMAIN managers
    BY DEF ManagerInv, Inside
  <2>2. \A t, u \in Threads : pc[t] = "registering" /\ pc[u] = "registering" => t = u
    BY DEF LockInv, Inside
  <2> QED BY <2>1, <2>2 DEF ManagerInv
<1> QED BY <1>1, FactoryInvariant, PTL

\* What Create and GetPVManager returned stays what they return, for every path to the file.
THEOREM AnswersAreValid == Spec => []AnswersStayValid
<1>1. FactoryInv => AnswersStayValid
  BY DEF FactoryInv, ManagerInv, AnswerInv, AnswersStayValid, IsRegistered, Key
<1> QED BY <1>1, FactoryInvariant, PTL

\* CreateEmpty is reached for files that are absent only (PVManager.hpp:61), under the lock.
THEOREM NoVolumeIsTruncated == Spec => NothingIsTruncated
<1> DEFINE Kept == \A f \in Files : device[f] \in {"fresh", "volume"} => device'[f] # "empty"
<1>1. FactoryInv /\ [Next]_vars => Kept
  <2> SUFFICES ASSUME DeviceInv, [Next]_vars, NEW f \in Files, device[f] \in {"fresh", "volume"}
               PROVE device'[f] # "empty"
    BY DEF FactoryInv
  <2> USE DEF DeviceInv
  <2>1. ASSUME NEW t \in Threads, CreateEmpty(t) PROVE device'[f] # "empty"
    BY <2>1 DEF CreateEmpty, File, Exists
  <2>2. ASSUME NEW t \in Threads, Initialise(t) PROVE device'[f] # "empty"
    BY <2>2 DEF Initialise
  <2>3. CASE Exit \/ Crash
    BY <2>3 DEF Exit, Crash
  <2>4. CASE UNCHANGED device
    BY <2>4
  <2> QED BY <2>1, <2>2, <2>3, <2>4
          DEF Next, Step, BeginCreate, BeginGet, Begin, Lock, Look, Load, Make, Register, Check,
              Find, Use, vars
<1> QED BY <1>1, FactoryInvariant, PTL DEF Spec, NothingIsTruncated

(***************************************************************************)
(* The types.  Of the managers TypeInv says more than TypeOK: what was     *)
(* changed is registered, so the one that an exception destroys was not, and *)
(* a thread that is not about to register a manager has built none.        *)
(***************************************************************************)
States == {"absent", "empty", "fresh", "volume"}

TypeInv ==
  /\ device \in [Files -> States]
  /\ DOMAIN managers \subseteq Files /\ opened \subseteq [id : 1 .. made, file : Files]
  /\ \A m \in changed : m.file \in DOMAIN managers /\ managers[m.file] = m
  /\ \A t \in Threads : pc[t] = "idle" => request[t] = Nothing
  /\ \A t \in Threads : pc[t] # "registering" => built[t] = Nothing
  /\ made \in Nat /\ owner \in Threads \cup {Nothing}
  /\ calls \in 0 .. MaxCalls /\ failures \in 0 .. MaxFailures /\ processes \in 1 .. MaxProcesses

\* What a file is: a step of a thread makes it empty or fresh, the end of a process a volume.
LEMMA DevicesStep == TypeInv /\ [Next]_vars => device' \in [Files -> States]
<1> SUFFICES ASSUME TypeInv, [Next]_vars PROVE device' \in [Files -> States]
  OBVIOUS
<1> USE DEF TypeInv, States
<1>1. ASSUME NEW t \in Threads, Initialise(t) \/ CreateEmpty(t) PROVE device' \in [Files -> States]
  <2>1. UNCHANGED device \/ \E to \in States : device' = [device EXCEPT ![File(t)] = to]
    BY <1>1 DEF Initialise, CreateEmpty
  <2> QED BY <2>1
<1>2. CASE Exit \/ Crash
  BY <1>2 DEF Exit, Crash
<1>3. CASE UNCHANGED device
  BY <1>3
<1> QED BY <1>1, <1>2, <1>3
        DEF Next, Step, BeginCreate, BeginGet, Begin, Lock, Look, Load, Make, Register, Check,
            Find, Use, vars

\* A thread that has come back has neither a path nor a manager.
LEMMA ThreadsStep ==
  LockInv /\ ManagerInv /\ TypeInv /\ [Next]_vars =>
    /\ \A t \in Threads : pc'[t] = "idle" => request'[t] = Nothing
    /\ \A t \in Threads : pc'[t] # "registering" => built'[t] = Nothing
    /\ owner' \in Threads \cup {Nothing}
<1> DEFINE Kept == /\ \A t \in Threads : pc'[t] = "idle" => request'[t] = Nothing
                   /\ \A t \in Threads : pc'[t] # "registering" => built'[t] = Nothing
                   /\ owner' \in Threads \cup {Nothing}
<1> SUFFICES ASSUME LockInv, ManagerInv, TypeInv, [Next]_vars PROVE Kept
  OBVIOUS
<1>1. /\ \A t \in Threads : pc[t] = "idle" => request[t] = Nothing
      /\ \A t \in Threads : pc[t] # "registering" => built[t] = Nothing
      /\ owner \in Threads \cup {Nothing}
      /\ DOMAIN pc = Threads /\ DOMAIN request = Threads /\ DOMAIN built = Threads
  BY DEF TypeInv, LockInv, ManagerInv
<1>2. ASSUME NEW t \in Threads, NEW m, Return(t, m) PROVE Kept
  BY <1>1, <1>2 DEF Return, Goes
<1>3. ASSUME NEW t \in Threads, NEW to, to \notin {"idle"}, pc[t] # "registering", Goes(t, to),
             UNCHANGED <<request, built>>, owner' \in {owner, t}
      PROVE  Kept
  BY <1>1, <1>3 DEF Goes
<1>4. ASSUME NEW t \in Threads, BeginCreate(t) \/ BeginGet(t) PROVE Kept
  BY <1>1, <1>4 DEF BeginCreate, BeginGet, Begin, Goes
<1>5. ASSUME NEW t \in Threads, Construct(t), pc[t] # "registering" PROVE Kept
  BY <1>1, <1>5 DEF Construct, Goes
<1>6. ASSUME NEW t \in Threads, Lock(t) \/ CreateEmpty(t) PROVE Kept
  BY <1>3, <1>6 DEF Lock, CreateEmpty
<1>7. ASSUME NEW t \in Threads, Look(t) \/ Make(t) \/ Check(t) PROVE Kept
  BY <1>2, <1>3, <1>7 DEF Look, Make, Check, Throw
<1>8. ASSUME NEW t \in Threads, Load(t) \/ Initialise(t) PROVE Kept
  BY <1>2, <1>5, <1>8 DEF Load, Initialise, Throw
<1>9. ASSUME NEW t \in Threads, Register(t) \/ Find(t) PROVE Kept
  BY <1>2, <1>9 DEF Register, Find, Throw
<1>10. CASE Exit \/ Crash
  BY <1>10 DEF Exit, Crash, NextProcess
<1>11. CASE UNCHANGED <<pc, request, built, owner>>
  BY <1>1, <1>11
<1> QED BY <1>4, <1>6, <1>7, <1>8, <1>9, <1>10, <1>11 DEF Next, Step, Use, vars

\* Managers are made, registered, used and destroyed.
LEMMA ManagersStep ==
  LockInv /\ ManagerInv /\ AnswerInv /\ TypeInv /\ [Next]_vars =>
    /\ DOMAIN managers' \subseteq Files /\ opened' \subseteq [id : 1 .. made', file : Files]
    /\ \A m \in changed' : m.file \in DOMAIN managers' /\ managers'[m.file] = m
    /\ made' \in Nat
<1> DEFINE Kept == /\ DOMAIN managers' \subseteq Files
                   /\ opened' \subseteq [id : 1 .. made', file : Files]
                   /\ \A m \in changed' : m.file \in DOMAIN managers' /\ managers'[m.file] = m
                   /\ made' \in Nat
<1> SUFFICES ASSUME LockInv, ManagerInv, AnswerInv, TypeInv, [Next]_vars PROVE Kept
  OBVIOUS
<1>1. ASSUME UNCHANGED <<managers, opened, changed, made>> PROVE Kept
  BY <1>1 DEF TypeInv
<1>2. ASSUME NEW t \in Threads, Load(t) \/ Initialise(t) PROVE Kept
  <2>1. CASE Construct(t)
    <3>1. request[t] \in Paths /\ File(t) \in Files
      BY <1>2, FilesOfPaths DEF Load, Initialise, LockInv, File
    <3>2. made' = made + 1 /\ opened' = opened \cup {[id |-> made + 1, file |-> File(t)]}
          /\ UNCHANGED <<managers, changed>>
      BY <1>2, <2>1 DEF Construct, Manager, Load, Initialise
    <3>3. opened' \subseteq [id : 1 .. made', file : Files]
      <4>1. made \in Nat /\ opened \subseteq [id : 1 .. made, file : Files]
        BY DEF TypeInv
      <4>2. \A n \in 1 .. made : n \in 1 .. made + 1
        BY <4>1
      <4>3. made + 1 \in 1 .. made + 1
        BY <4>1
      <4> QED BY <3>1, <3>2, <4>1, <4>2, <4>3
    <3> QED BY <3>2, <3>3 DEF TypeInv
  <2> QED BY <1>1, <1>2, <2>1 DEF Load, Initialise
<1>3. ASSUME NEW t \in Threads, Register(t) PROVE Kept
  <2>1. request[t] \in Paths /\ Key(request[t]) \in Files
    BY <1>3, FilesOfPaths DEF Register, LockInv, Key
  <2>2. /\ pc[t] = "registering" /\ Key(request[t]) \notin DOMAIN managers
        /\ UNCHANGED <<changed, made>> /\ opened' \subseteq opened
    BY <1>3 DEF Register, ManagerInv, File, Key, Inside
  <2>3. \A m \in changed : m.file \in DOMAIN managers /\ managers[m.file] = m
    BY DEF TypeInv
  <2>4. /\ DOMAIN managers' \subseteq DOMAIN managers \cup {Key(request[t])}
        /\ \A k \in DOMAIN managers : k \in DOMAIN managers' /\ managers'[k] = managers[k]
    BY <1>3, <2>2 DEF Register
  <2> QED BY <2>1, <2>2, <2>3, <2>4 DEF TypeInv
<1>4. ASSUME NEW t \in Threads, Use(t) PROVE Kept
  <2>1. \E k \in DOMAIN managers : managers[k] = answer[t].manager /\ managers[k].file = k
    BY <1>4 DEF Use, AnswerInv, ManagerInv
  <2> QED BY <1>4, <2>1 DEF Use, TypeInv
<1>5. CASE Exit \/ Crash
  BY <1>5 DEF Exit, Crash, NextProcess, TypeInv
<1> QED BY <1>1, <1>2, <1>3, <1>4, <1>5
        DEF Next, Step, BeginCreate, BeginGet, Begin, Lock, Look, Make, CreateEmpty, Check, Find, vars

\* Calls, failures and processes are counted up to their bounds.
LEMMA CountersStep ==
  TypeInv /\ [Next]_vars =>
    calls' \in 0 .. MaxCalls /\ failures' \in 0 .. MaxFailures /\ processes' \in 1 .. MaxProcesses
<1> SUFFICES ASSUME TypeInv, [Next]_vars
             PROVE  /\ calls' \in 0 .. MaxCalls /\ failures' \in 0 .. MaxFailures
                    /\ processes' \in 1 .. MaxProcesses
  OBVIOUS
<1>1. MaxCalls \in Nat /\ MaxFailures \in Nat /\ MaxProcesses \in Nat
  BY CanonicalAssumption DEF CanonicalAssumption
<1>2. /\ calls' = calls \/ (calls < MaxCalls /\ calls' = calls + 1)
      /\ failures' = failures \/ (failures < MaxFailures /\ failures' = failures + 1)
      /\ processes' = processes \/ (processes < MaxProcesses /\ processes' = processes + 1)
  BY DEF Throw, BeginCreate, BeginGet, Begin, Next, Step, Lock, Look, Load, Make,
         CreateEmpty, Initialise, Register, Check, Find, Use, Exit, Crash, NextProcess, vars
<1> QED BY <1>1, <1>2 DEF TypeInv

LEMMA TypesAreKept == Spec => []TypeInv
<1>1. Init => TypeInv
  BY CanonicalAssumption DEF CanonicalAssumption, Init, TypeInv, States
<1>2. FactoryInv /\ TypeInv /\ [Next]_vars => TypeInv'
  <2> SUFFICES ASSUME FactoryInv, TypeInv, [Next]_vars PROVE TypeInv'
    OBVIOUS
  <2>1. LockInv /\ ManagerInv /\ AnswerInv
    BY DEF FactoryInv
  <2> QED BY <2>1, DevicesStep, ThreadsStep, ManagersStep, CountersStep DEF TypeInv
<1> QED BY <1>1, <1>2, FactoryInvariant, PTL DEF Spec

\* Every manager that is open has an id that was given and a file that there is; those
\* that were changed are open; a thread has a path during a call and a manager while it
\* registers it (TypeOK).
THEOREM FactoryTypes == Spec => []TypeOK
<1>1. FactoryInv /\ TypeInv => TypeOK
  <2> SUFFICES ASSUME FactoryInv, TypeInv PROVE TypeOK
    OBVIOUS
  <2>1. changed \subseteq opened
    BY DEF FactoryInv, ManagerInv, TypeInv
  <2>2. \A t \in Threads : pc[t] = "idle" <=> request[t] \notin Paths
    BY FilesOfPaths DEF FactoryInv, LockInv, TypeInv
  <2>3. \A t \in Threads : pc[t] = "registering" <=> built[t] \in opened
    <3>1. Nothing \notin opened
      <4>1. made \in Nat /\ opened \subseteq [id : 1 .. made, file : Files]
        BY DEF TypeInv
      <4>2. opened \subseteq [id : Nat, file : Files]
        BY <4>1
      <4> QED BY <4>2, CanonicalAssumption DEF CanonicalAssumption
    <3> QED BY <3>1 DEF FactoryInv, ManagerInv, TypeInv
  <2> QED BY <2>1, <2>2, <2>3 DEF TypeInv, TypeOK, States
<1> QED BY <1>1, FactoryInvariant, TypesAreKept, PTL
=============================================================================
