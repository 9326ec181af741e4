--------------------------- MODULE PVManagerFactory ---------------------------
(***************************************************************************)
(* PVManagerFactory: "one PVManager for one PV file because of thread-     *)
(* safety" (PVManagerFactory.hpp:12).  Threads ask for the manager of a    *)
(* path, several paths can lead to a file, and processes that end, one way *)
(* or the other, leave files to the next one.                              *)
(*                                                                         *)
(* Of a file the factory sees whether it can be loaded: "absent"; "empty", *)
(* created and without a header; "fresh", with a header that leads to no   *)
(* index; "volume", with the index that a close() has saved.               *)
(***************************************************************************)
EXTENDS Integers, FiniteSets

CONSTANTS
  Threads, Files, Paths,
  Canonical,      \* path -> the file that fs::canonical leads to
  Nothing,        \* no manager, no thread, no request
  MaxCalls,       \* bound: calls of Create and GetPVManager
  MaxFailures,    \* bound: exceptions of the device or the file system
  MaxProcesses    \* bound: processes

ASSUME CanonicalAssumption ==
  /\ Canonical \in [Paths -> Files]
  /\ Nothing \notin Threads \cup Paths \cup [id : Nat, file : Files]
  /\ MaxCalls \in Nat /\ MaxFailures \in Nat /\ MaxProcesses \in Nat \ {0}

VARIABLES
  device,     \* file -> what is there
  managers,   \* managers_: canonical path -> manager
  opened,     \* the PVManager objects that there are
  changed,    \* those whose index was changed
  made,       \* number of PVManager objects so far, in all processes
  owner,      \* the thread that has locked factory_mutex_, or Nothing
  pc,         \* thread -> what it does next
  request,    \* thread -> the path it was called with
  built,      \* thread -> the manager that it is about to register
  answer,     \* thread -> what its last call in this process returned
  calls, failures, processes

vars == <<device, managers, opened, changed, made, owner, pc, request, built, answer,
          calls, failures, processes>>

Manager(id, file) == [id |-> id, file |-> file]
Answer(path, manager) == [path |-> path, manager |-> manager]
NoAnswer == Answer(Nothing, Nothing)

Init ==
  /\ device = [f \in Files |-> "absent"]
  /\ managers = [f \in {} |-> Nothing] /\ opened = {} /\ changed = {} /\ made = 0
  /\ owner = Nothing
  /\ pc = [t \in Threads |-> "idle"]
  /\ request = [t \in Threads |-> Nothing]
  /\ built = [t \in Threads |-> Nothing]
  /\ answer = [t \in Threads |-> NoAnswer]
  /\ calls = 0 /\ failures = 0 /\ processes = 1

-----------------------------------------------------------------------------
File(t) == Canonical[request[t]]
Exists(file) == device[file] # "absent"

\* mutant: managers are registered under the path as it was given
KeyAsGiven(path) == path

\* managers_ is over canonical paths
Key(path) == Canonical[path]
IsRegistered(path) == Key(path) \in DOMAIN managers

Goes(t, to) == pc' = [pc EXCEPT ![t] = to]

\* the call ends, and the lock with it, if it has it
Return(t, manager) ==
  /\ Goes(t, "idle")
  /\ request' = [request EXCEPT ![t] = Nothing]
  /\ built' = [built EXCEPT ![t] = Nothing]
  /\ answer' = [answer EXCEPT ![t] = Answer(request[t], manager)]
  /\ owner' = IF owner = t THEN Nothing ELSE owner

\* mutant: an exception leaves factory_mutex_ locked
ThrowLocked(t) ==
  /\ failures < MaxFailures
  /\ failures' = failures + 1
  /\ Goes(t, "idle")
  /\ request' = [request EXCEPT ![t] = Nothing]
  /\ built' = [built EXCEPT ![t] = Nothing]
  /\ answer' = [answer EXCEPT ![t] = Answer(request[t], Nothing)]
  /\ UNCHANGED owner

\* an exception becomes an error
Throw(t) ==
  /\ failures < MaxFailures
  /\ failures' = failures + 1
  /\ Return(t, Nothing)

Begin(t, path, to) ==
  /\ pc[t] = "idle" /\ calls < MaxCalls
  /\ calls' = calls + 1
  /\ request' = [request EXCEPT ![t] = path]
  /\ Goes(t, to)
  /\ UNCHANGED <<device, managers, opened, changed, made, owner, built, answer, failures, processes>>

(***************************************************************************)
(* Create.  A request for a version that is not supported is turned down   *)
(* before anything else and changes nothing, so all are for one that is.   *)
(***************************************************************************)
BeginCreate(t) == \E path \in Paths : Begin(t, path, "locking")

\* mutant: there is no lock
LockNothing(t) ==
  /\ pc[t] = "locking"
  /\ Goes(t, "looking")
  /\ UNCHANGED <<device, managers, opened, changed, made, owner, request, built, answer, calls,
                 failures, processes>>

Lock(t) ==
  /\ pc[t] = "locking" /\ owner = Nothing
  /\ owner' = t
  /\ Goes(t, "looking")
  /\ UNCHANGED <<device, managers, opened, changed, made, request, built, answer, calls,
                 failures, processes>>

\* Exists, Canonical and find
Look(t) ==
  /\ pc[t] = "looking"
  /\ \/ /\ Exists(File(t)) /\ IsRegistered(request[t])
        /\ Return(t, managers[Key(request[t])])
        /\ UNCHANGED failures
     \/ /\ Goes(t, IF Exists(File(t)) THEN "loading" ELSE "making")
        /\ ~(Exists(File(t)) /\ IsRegistered(request[t]))
        /\ UNCHANGED <<owner, request, built, answer, failures>>
     \/ Throw(t)
  /\ UNCHANGED <<device, managers, opened, changed, made, calls, processes>>

\* there is a new manager for the file of the call
Construct(t) ==
  LET manager == Manager(made + 1, File(t))
  IN  /\ made' = made + 1
      /\ opened' = opened \cup {manager}
      /\ built' = [built EXCEPT ![t] = manager]
      /\ Goes(t, "registering")
      /\ UNCHANGED <<owner, request, answer>>

\* PVManager::Load: only a volume with an index is one
Load(t) ==
  /\ pc[t] = "loading"
  /\ \/ /\ device[File(t)] = "volume"
        /\ Construct(t)
        /\ UNCHANGED failures
     \/ /\ device[File(t)] # "volume"
        /\ Return(t, Nothing)
        /\ UNCHANGED <<made, opened, failures>>
     \/ Throw(t) /\ UNCHANGED <<made, opened>>
  /\ UNCHANGED <<device, managers, changed, calls, processes>>

\* PVManager::Create looks whether the file exists once more
Make(t) ==
  /\ pc[t] = "making"
  /\ \/ /\ Goes(t, IF Exists(File(t)) THEN "loading" ELSE "emptying")
        /\ UNCHANGED <<owner, request, built, answer, failures>>
     \/ Throw(t)
  /\ UNCHANGED <<device, managers, opened, changed, made, calls, processes>>

\* an ofstream for the path: the file is created, or loses what it has.  Errors of the
\* stream are not looked at; they show when the volume is opened.
CreateEmpty(t) ==
  /\ pc[t] = "emptying"
  /\ \/ device' = [device EXCEPT ![File(t)] = "empty"] /\ UNCHANGED failures
     \/ failures < MaxFailures /\ failures' = failures + 1 /\ UNCHANGED device
  /\ Goes(t, "initialising")
  /\ UNCHANGED <<managers, opened, changed, made, owner, request, built, answer, calls, processes>>

\* the constructor, and SaveStartEntries without an index
Initialise(t) ==
  /\ pc[t] = "initialising"
  /\ \/ /\ Exists(File(t))
        /\ device' = [device EXCEPT ![File(t)] = "fresh"]
        /\ Construct(t)
        /\ UNCHANGED failures
     \/ /\ ~Exists(File(t))
        /\ Return(t, Nothing)
        /\ UNCHANGED <<device, made, opened, failures>>
     \/ Throw(t) /\ UNCHANGED <<device, made, opened>>
  /\ UNCHANGED <<managers, changed, calls, processes>>

\* managers_[...] = ..., or an exception on the way there, and the manager is destroyed:
\* its index is unchanged, and close() leaves the file as it is
Register(t) ==
  /\ pc[t] = "registering"
  /\ \/ /\ managers' = [k \in DOMAIN managers \cup {Key(request[t])} |->
                          IF k = Key(request[t]) THEN built[t] ELSE managers[k]]
        /\ Return(t, built[t])
        /\ UNCHANGED <<opened, failures>>
     \/ /\ Throw(t)
        /\ opened' = opened \ {built[t]}
        /\ UNCHANGED managers
  /\ UNCHANGED <<device, changed, made, calls, processes>>

(***************************************************************************)
(* GetPVManager looks for the file before it takes the lock.               *)
(***************************************************************************)
BeginGet(t) == \E path \in Paths : Begin(t, path, "checking")

Check(t) ==
  /\ pc[t] = "checking"
  /\ \/ /\ Exists(File(t))
        /\ Goes(t, "finding")
        /\ UNCHANGED <<owner, request, built, answer>>
     \/ ~Exists(File(t)) /\ Return(t, Nothing)
  /\ UNCHANGED <<device, managers, opened, changed, made, calls, failures, processes>>

Find(t) ==
  /\ pc[t] = "finding" /\ owner = Nothing
  /\ Return(t, IF IsRegistered(request[t]) THEN managers[Key(request[t])] ELSE Nothing)
  /\ UNCHANGED <<device, managers, opened, changed, made, calls, failures, processes>>

-----------------------------------------------------------------------------
(***************************************************************************)
(* Users of a manager, and the end of a process.                           *)
(***************************************************************************)
Use(t) ==
  /\ pc[t] = "idle" /\ answer[t].manager # Nothing
  /\ changed' = changed \cup {answer[t].manager}
  /\ UNCHANGED <<device, managers, opened, made, owner, pc, request, built, answer, calls,
                 failures, processes>>

\* nothing of a process outlives it but the files
NextProcess ==
  /\ processes < MaxProcesses
  /\ processes' = processes + 1
  /\ managers' = [f \in {} |-> Nothing] /\ opened' = {} /\ changed' = {}
  /\ owner' = Nothing
  /\ pc' = [t \in Threads |-> "idle"]
  /\ request' = [t \in Threads |-> Nothing]
  /\ built' = [t \in Threads |-> Nothing]
  /\ answer' = [t \in Threads |-> NoAnswer]
  /\ UNCHANGED <<made, calls, failures>>

\* a file whose manager has an index to save
IsChanged(file) == \E manager \in changed : manager.file = file

\* the managers are closed
Exit ==
  /\ \A t \in Threads : pc[t] = "idle"
  /\ device' = [f \in Files |-> IF IsChanged(f) THEN "volume" ELSE device[f]]
  /\ NextProcess

\* or some are, and one of them half: its old index is deleted and the new one not there
Crash ==
  /\ device' \in [Files -> {"absent", "empty", "fresh", "volume"}]
  /\ \A f \in Files :
       device'[f] \in {device[f]} \cup (IF IsChanged(f) THEN {"fresh", "volume"} ELSE {})
  /\ NextProcess

Step(t) ==
  \/ Lock(t) \/ Look(t) \/ Load(t) \/ Make(t) \/ CreateEmpty(t) \/ Initialise(t) \/ Register(t)
  \/ Check(t) \/ Find(t)

Next ==
  \/ \E t \in Threads : BeginCreate(t) \/ BeginGet(t) \/ Step(t) \/ Use(t)
  \/ Exit
  \/ Crash

Spec == Init /\ [][Next]_vars

(***************************************************************************)
(* A thread that can go on does at some time; whether it begins a call or  *)
(* uses a manager, and when the process ends, is up to others.  std::mutex *)
(* may give a thread the lock after any number of others.                  *)
(***************************************************************************)
FairSpec == Spec /\ \A t \in Threads : WF_vars(Step(t))

-----------------------------------------------------------------------------
(***************************************************************************)
(* Properties.                                                             *)
(***************************************************************************)
\* Every variable keeps its type.
TypeOK ==
  /\ device \in [Files -> {"absent", "empty", "fresh", "volume"}]
  /\ DOMAIN managers \subseteq Files /\ opened \subseteq [id : 1 .. made, file : Files]
  /\ changed \subseteq opened
  /\ \A t \in Threads : pc[t] = "idle" <=> request[t] \notin Paths
  /\ \A t \in Threads : pc[t] = "registering" <=> built[t] \in opened
  /\ made \in Nat /\ owner \in Threads \cup {Nothing}
  /\ calls \in 0 .. MaxCalls /\ failures \in 0 .. MaxFailures /\ processes \in 1 .. MaxProcesses

\* "one PVManager for one PV file because of thread-safety" (PVManagerFactory.hpp:12):
\* whatever paths lead to a file and however calls interleave and fail, there are never
\* two managers with the file open, not even while one is being made.
OneManagerPerFile == \A m, n \in opened : m.file = n.file => m = n

\* What a call returned stays the manager that later calls get for the file, by every
\* path to it, until the process ends; it is never replaced, and never one that is gone.
AnswersStayValid ==
  \A t \in Threads :
    answer[t].manager # Nothing =>
      /\ answer[t].manager \in opened
      /\ answer[t].manager.file = Canonical[answer[t].path]
      /\ \A path \in Paths :
           Canonical[path] = Canonical[answer[t].path] =>
             IsRegistered(path) /\ managers[Key(path)] = answer[t].manager

\* A file that has the header of a volume is never emptied again: CreateEmpty would do
\* so, to a volume that is in use as well, were it not for the two looks at the file
\* and the lock around them.
NothingIsTruncated ==
  [][\A f \in Files : device[f] \in {"fresh", "volume"} => device'[f] # "empty"]_vars

\* A call comes back, if the process does not end before, as long as the other threads
\* do not begin calls for ever.
EveryCallReturns == \A t \in Threads : pc[t] # "idle" ~> pc[t] = "idle"
=============================================================================
