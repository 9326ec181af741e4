----------------------------- MODULE MCPVManager -----------------------------
(***************************************************************************)
(* PVManager with a key, a key behind it that has the first as a catalog,  *)
(* and offsets that are as good as one another.                            *)
(***************************************************************************)
EXTENDS PVManager, TLC

TwoKeys == {<<"a">>, <<"a", "b">>}

\* a number narrower than its field, and a value that is stored in chunks
NumberAndString ==
  {[type |-> "kInt8", bits |-> 1], [type |-> "kString", bytes |-> Nothing]}
TwoNumbers == {[type |-> "kInt16", bits |-> 3], [type |-> "kDouble", bits |-> 200]}
OneNumber == {v \in NumberAndString : v.type = "kInt8"}
OneString == NumberAndString \ OneNumber

AnyOffset == Permutations(Offsets)
=============================================================================
