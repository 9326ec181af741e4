----------------------------- MODULE EntryStore -----------------------------
(***************************************************************************)
(* What PVEntriesManager promises its caller: a store of entries, each     *)
(* named by the offset that creating it returned, that do not affect one   *)
(* another and outlive the session that created them.                      *)
(***************************************************************************)
EXTENDS Integers

CONSTANTS
  Offsets,    \* the names an entry can have
  Values,     \* the values an entry can store
  Times,      \* the expiry dates it can be given
  NoDate      \* the expiry date of an entry that was given none

VARIABLE entries    \* offset -> [value, expires], expires is NoDate without a date

Init == entries = <<>>

\* CreateNewEntryValue: the name is one that no entry has
Create(offset, value) ==
  entries' = [o \in DOMAIN entries \cup {offset} |->
                IF o = offset THEN [value |-> value, expires |-> NoDate] ELSE entries[o]]

\* DeleteEntry
Delete(offset) == entries' = [o \in DOMAIN entries \ {offset} |-> entries[o]]

\* SetEntryExpiredDate
SetExpiredDate(offset, time) == entries' = [entries EXCEPT ![offset].expires = time]

\* the names that a step gives
NewNames == (DOMAIN entries' \cap Offsets) \ DOMAIN entries

Next ==
  \/ \E offset \in NewNames, value \in Values : Create(offset, value)
  \/ \E offset \in DOMAIN entries :
       \/ Delete(offset)
       \/ \E time \in Times : SetExpiredDate(offset, time)

Spec == Init /\ [][Next]_entries
=============================================================================
