---------------------------- MODULE KeyValueStore ----------------------------
(***************************************************************************)
(* What a storage promises (IStorage.hpp): values by key, each with an     *)
(* expiry date or none, and an answer to every call.                       *)
(***************************************************************************)
EXTENDS StoreCalls

VARIABLES
  store,     \* key -> [value, expires]
  clock,     \* the time
  answer     \* what the last call returned

vars == <<store, clock, answer>>

Answer(call, outcome) ==
  [call |-> call.op, key |-> call.key, code |-> outcome.code, result |-> outcome.result]

NoAnswer == [call |-> "none", key |-> "none", code |-> "kSuccess", result |-> Nothing]

Init == store = EmptyStore /\ clock = 0 /\ answer = NoAnswer

Perform(call) ==
  \E outcome \in Outcomes(store, clock, call) :
    /\ answer' = Answer(call, outcome)
    /\ store' = outcome.store
    /\ UNCHANGED clock

Tick == clock' = clock + 1 /\ UNCHANGED <<store, answer>>

\* the calls that the answer a step gives can belong to
Answered == {call \in Calls : answer'.call = call.op /\ answer'.key = call.key}

Next == (\E call \in Answered : Perform(call)) \/ Tick

Spec == Init /\ [][Next]_vars
=============================================================================
