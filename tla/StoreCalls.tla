------------------------------ MODULE StoreCalls ------------------------------
(***************************************************************************)
(* The calls of IStorage on one volume: from what the volume stores and    *)
(* the time, what a call answers and what it leaves stored.                *)
(*                                                                         *)
(* A store is a function from keys to a value and an expiry date, or       *)
(* NoDate.  A value whose date has passed is there until Get or HasKey     *)
(* come across it.                                                         *)
(***************************************************************************)
EXTENDS Integers, Sequences

CONSTANTS
  Keys,              \* keys, and catalogs, of the callers
  Values,            \* values of the callers
  Dates,             \* expiry dates of the callers
  NoDate,            \* the expiry date of a value that was given none
  Nothing,           \* the argument, or the result, of a call that has none
  KeptDate(_),       \* the date that is kept for one that is set
  ReturnedDate(_)    \* the date that is returned for one that is kept

Call(op, key, argument) == [op |-> op, key |-> key, argument |-> argument]

Calls ==
  {Call("Put", k, v) : k \in Keys, v \in Values}
    \cup {Call("SetExpiredDate", k, d) : k \in Keys, d \in Dates}
    \cup {Call(op, k, Nothing) :
            op \in {"Get", "HasKey", "HasCatalog", "Delete", "GetExpiredDate"}, k \in Keys}

Outcome(code, result, s) == [code |-> code, result |-> result, store |-> s]
Success(result, s) == Outcome("kSuccess", result, s)
Failure(code, s) == Outcome(code, Nothing, s)

EmptyStore == [k \in {} |-> Nothing]
IsStored(s, key) == key \in DOMAIN s
HasExpired(s, key, now) == s[key].expires # NoDate /\ s[key].expires < now
IsFound(s, key, now) == IsStored(s, key) /\ ~HasExpired(s, key, now)

With(s, key, value) ==
  [k \in DOMAIN s \cup {key} |-> IF k = key THEN [value |-> value, expires |-> NoDate] ELSE s[k]]
Without(s, key) == [k \in DOMAIN s \ {key} |-> s[k]]

\* a key that is there is never overwritten, not even an expired one
PutOutcome(s, key, value) ==
  IF IsStored(s, key) THEN Failure("kKeyAlreadyCreated", s)
  ELSE Success(Nothing, With(s, key, value))

GetOutcome(s, key, now) ==
  IF IsFound(s, key, now) THEN Success(s[key].value, s)
  ELSE Failure("kKeyNotFound", Without(s, key))

HasKeyOutcome(s, key, now) ==
  IF IsFound(s, key, now) THEN Success(Nothing, s)
  ELSE Failure("kKeyNotFound", Without(s, key))

DeleteOutcome(s, key) ==
  IF IsStored(s, key) THEN Success(Nothing, Without(s, key)) ELSE Failure("kKeyNotFound", s)

SetExpiredDateOutcome(s, key, date) ==
  IF IsStored(s, key) THEN Success(Nothing, [s EXCEPT ![key].expires = KeptDate(date)])
  ELSE Failure("kKeyNotFound", s)

GetExpiredDateOutcome(s, key) ==
  IF ~IsStored(s, key) THEN Failure("kKeyNotFound", s)
  ELSE IF s[key].expires = NoDate THEN Failure("kKeyDoesntExpired", s)
  ELSE Success(ReturnedDate(s[key].expires), s)

\* a catalog above a stored key is found; one above no key may be found as well,
\* since nodes outlive their keys and one common character is enough
HasCatalogOutcomes(s, catalog) ==
  LET isAbove(k) == Len(catalog) <= Len(k) /\ SubSeq(k, 1, Len(catalog)) = catalog
  IN  IF catalog = <<>> THEN {Failure("kKeyNotFound", s)}
      ELSE IF \E k \in DOMAIN s : isAbove(k) THEN {Success(Nothing, s)}
      ELSE {Success(Nothing, s), Failure("kKeyNotFound", s)}

\* what a call may answer and leave
Outcomes(s, now, call) ==
  CASE call.op = "Put"            -> {PutOutcome(s, call.key, call.argument)}
    [] call.op = "Get"            -> {GetOutcome(s, call.key, now)}
    [] call.op = "HasKey"         -> {HasKeyOutcome(s, call.key, now)}
    [] call.op = "HasCatalog"     -> HasCatalogOutcomes(s, call.key)
    [] call.op = "Delete"         -> {DeleteOutcome(s, call.key)}
    [] call.op = "SetExpiredDate" -> {SetExpiredDateOutcome(s, call.key, call.argument)}
    [] call.op = "GetExpiredDate" -> {GetExpiredDateOutcome(s, call.key)}

\* the same on a device that may have failed: the calls that read or write an entry
\* fail, the ones that the index can answer go on
DeviceError == "kDeviceReadError or kDeviceWriteError"

NeedsDevice(s, call) ==
  IF call.op = "Put" THEN ~IsStored(s, call.key)
  ELSE call.op # "HasCatalog" /\ IsStored(s, call.key)

DeviceOutcomes(s, hasFailed, now, call) ==
  IF hasFailed /\ NeedsDevice(s, call) THEN {Failure(DeviceError, s)} ELSE Outcomes(s, now, call)
=============================================================================
