------------------------------ MODULE PVManager ------------------------------
(***************************************************************************)
(* PVManager (PVManager.hpp): a key-value storage on one physical volume.  *)
(* The index says at which offset the value of a key is stored; it is an   *)
(* entry of the volume itself, whose offset the header of the volume       *)
(* names, and it is read when the volume is loaded and written when the    *)
(* manager is destroyed.                                                   *)
(*                                                                         *)
(* Entries are those of EntryStore, which PVEntriesManager implements as   *)
(* long as its entries keep apart: an operation on one of them is a step.  *)
(* manager_guard_mutex_ makes every call one step as well.  close()        *)
(* consists of several operations, and the program may stop between them.  *)
(***************************************************************************)
EXTENDS IndexSerialization, EntriesTypeConverter, Time

CONSTANTS
  Keys,        \* keys, and catalogs, of the callers
  Values,      \* values of the callers: [type, bits] or [type, bytes]
  Behind,      \* what can lie in memory behind a number
  Dates,       \* expiry dates of the callers, as time_t
  Offsets,     \* offsets an entry can have
  NoOffset,    \* offset_traits::NonExistValue()
  NoDate,      \* the state of an entry has no kIsExpired
  Nothing,     \* the result of a call that returns an error code alone
  MaxClock,    \* bound: the time does not go further
  MaxCrashes   \* bound: crashes, and failures of the device, in one behaviour

VARIABLES
  entries,      \* the entries on the device: offset -> [value, expires]
  header,       \* inverted_index_offset_ of the PVHeader on the device
  index,        \* inverted_index_
  indexOffset,  \* inverted_index_offset_
  session,      \* "open"; in close(): "deleted" with the old index entry deleted,
                \* "created" with the new one created; "closed"
  clock,        \* what std::time returns
  answer,       \* what the last call returned
  durable,      \* entries that PVEntriesManager keeps through a crash
  kept,         \* what was stored at the last completed close() and not touched
                \* since, nothing once the next one begins: key -> [value, expires]
  failed,       \* the stream of the session has failed: FileDevice::IsOpen() is false
  crashes       \* crashes so far

vars == <<entries, header, index, indexOffset, session, clock, answer, durable, kept,
          failed, crashes>>

ASSUME PVManagerAssumption ==
  /\ Keys \subseteq Seq(STRING) /\ IsFiniteSet(Keys) /\ Behind \subseteq Nat
  /\ \A v \in Values :
       \/ v \in Numbers
       \/ v.type \in ComplexTypes /\ v = [type |-> v.type, bytes |-> v.bytes]
  /\ Dates \subseteq Int
  /\ NoDate \notin Nat \cup [high : 0 .. HighSize - 1, low : 0 .. LowSize - 1]
  /\ NonExistLeaf \notin Offsets /\ NoOffset \notin Offsets
  /\ MaxClock \in Nat /\ MaxCrashes \in Nat

Entries == INSTANCE EntryStore WITH Values <- Values, Times <- Dates

Answer(call, key, code, result) == [call |-> call, key |-> key, code |-> code, result |-> result]
Answers(call, key, code, result) == answer' = Answer(call, key, code, result)

\* PVManager::Create on a device that did not exist
Init ==
  /\ entries = [o \in {} |-> Nothing]
  /\ header = NoOffset
  /\ index = NewIndex /\ indexOffset = NoOffset
  /\ session = "open"
  /\ clock = 0
  /\ answer = Answer("none", "none", "kSuccess", Nothing)
  /\ durable = entries
  /\ kept = [k \in {} |-> Nothing]
  /\ failed = FALSE
  /\ crashes = 0

Without(f, x) == [y \in DOMAIN f \ {x} |-> f[y]]

-----------------------------------------------------------------------------
(***************************************************************************)
(* Operations on entries.  After a crash the free lists are those of the   *)
(* last save: they may lead to entries that were stored since, whose       *)
(* offset CreateNewEntryValue then returns again.                          *)
(***************************************************************************)
FreeOffsets == Offsets \ (IF crashes = 0 THEN DOMAIN entries ELSE DOMAIN durable)

CreateEntry(offset, value) == offset \in FreeOffsets /\ Entries!Create(offset, value)

CreateUserEntry(offset, value) ==
  \E behind \in Behind : CreateEntry(offset, EntryOf(value, behind))

DeleteEntry(offset) ==
  /\ Entries!Delete(offset)
  /\ durable' = Without(durable, offset)

SetEntryExpiredDate(offset, date) ==
  /\ Entries!SetExpiredDate(offset, date)
  /\ durable' = IF offset \in DOMAIN durable
                THEN [durable EXCEPT ![offset].expires = date] ELSE durable

\* a header that is none of a user's types makes the calls throw kCorruptedHeaderError
IsEntry(offset) == offset \in DOMAIN entries

\* setEntryExpiredDate takes the flag from a chunked value that reading it requires
IsReadable(offset) ==
  entries[offset].value.type \in ComplexTypes => entries[offset].expires = NoDate

IsEntryExpired(offset) ==
  entries[offset].expires # NoDate /\ IsExpired(entries[offset].expires, clock)

-----------------------------------------------------------------------------
(***************************************************************************)
(* The calls.  Offset is what the index has for the key.                   *)
(***************************************************************************)
Offset(key) == Get(index, key)
Found(key) == Offset(key) # NonExistLeaf

Fails(call, key, code) ==
  /\ Answers(call, key, code, Nothing)
  /\ UNCHANGED <<entries, index, durable, kept>>

\* a stream that failed throws kDeviceReadError or kDeviceWriteError at every use
DeviceError == "kDeviceReadError or kDeviceWriteError"

NotStored(call, key) == ~Found(key) /\ Fails(call, key, "kKeyNotFound")

\* the entry is read before anything else is done with it
Throws(call, key) ==
  /\ Found(key)
  /\ \/ failed /\ Fails(call, key, DeviceError)
     \/ ~failed /\ ~IsEntry(Offset(key)) /\ Fails(call, key, "kCorruptedHeaderError")

Reaches(key) == Found(key) /\ ~failed /\ IsEntry(Offset(key))

\* an entry is deleted and its key with it
Erase(key) ==
  /\ DeleteEntry(Offset(key))
  /\ index' = Delete(index, key)
  /\ kept' = Without(kept, key)

PutKey(key, value) ==
  \/ /\ HasKey(index, key)
     /\ Fails("Put", key, "kKeyAlreadyCreated")
  \/ /\ ~HasKey(index, key) /\ failed
     /\ Fails("Put", key, DeviceError)
  \/ /\ ~HasKey(index, key) /\ ~failed
     /\ Answers("Put", key, "kSuccess", Nothing)
     /\ \E offset \in Offsets :
          CreateUserEntry(offset, value) /\ index' = Insert(index, key, offset)
     /\ UNCHANGED <<durable, kept>>

\* Get and HasKey: an expired value is deleted on the way
Expires(call, key) ==
  /\ Reaches(key) /\ IsEntryExpired(Offset(key))
  /\ Answers(call, key, "kKeyNotFound", Nothing)
  /\ Erase(key)

GetKey(key) ==
  \/ NotStored("Get", key) \/ Throws("Get", key) \/ Expires("Get", key)
  \/ /\ Reaches(key) /\ ~IsEntryExpired(Offset(key))
     /\ IF IsReadable(Offset(key))
        THEN Answers("Get", key, "kSuccess", UserValue(entries[Offset(key)].value))
        ELSE Answers("Get", key, "kCorruptedHeaderError", Nothing)
     /\ UNCHANGED <<entries, index, durable, kept>>

HasKeyCall(key) ==
  \/ NotStored("HasKey", key) \/ Throws("HasKey", key) \/ Expires("HasKey", key)
  \/ /\ Reaches(key) /\ ~IsEntryExpired(Offset(key))
     /\ Answers("HasKey", key, "kSuccess", Nothing)
     /\ UNCHANGED <<entries, index, durable, kept>>

HasCatalog(key) ==
  /\ Answers("HasCatalog", key,
             IF FindMaxSubKey(index, key) = 0 THEN "kKeyNotFound" ELSE "kSuccess", Nothing)
  /\ UNCHANGED <<entries, index, durable, kept>>

DeleteKey(key) ==
  \/ NotStored("Delete", key) \/ Throws("Delete", key)
  \/ /\ Reaches(key)
     /\ Answers("Delete", key, "kSuccess", Nothing)
     /\ Erase(key)

SetExpiredDate(key, date) ==
  \/ NotStored("SetExpiredDate", key) \/ Throws("SetExpiredDate", key)
  \/ /\ Reaches(key)
     /\ Answers("SetExpiredDate", key, "kSuccess", Nothing)
     /\ SetEntryExpiredDate(Offset(key), TimeOf(date))
     /\ kept' = Without(kept, key)
     /\ UNCHANGED index

GetExpiredDate(key) ==
  \/ NotStored("GetExpiredDate", key) \/ Throws("GetExpiredDate", key)
  \/ /\ Reaches(key)
     /\ IF entries[Offset(key)].expires = NoDate
        THEN Answers("GetExpiredDate", key, "kKeyDoesntExpired", Nothing)
        ELSE Answers("GetExpiredDate", key, "kSuccess", GetTime(entries[Offset(key)].expires))
     /\ UNCHANGED <<entries, index, durable, kept>>

Call ==
  /\ session = "open"
  /\ \E key \in Keys :
       \/ \E value \in Values : PutKey(key, value)
       \/ GetKey(key) \/ HasKeyCall(key) \/ DeleteKey(key)
       \/ HasCatalog(key) \/ GetExpiredDate(key)
       \/ \E date \in Dates : SetExpiredDate(key, date)
  /\ UNCHANGED <<header, indexOffset, session, clock, failed, crashes>>

Tick ==
  /\ clock < MaxClock
  /\ clock' = clock + 1
  /\ UNCHANGED <<entries, header, index, indexOffset, session, answer, durable, kept, failed, crashes>>

-----------------------------------------------------------------------------
(***************************************************************************)
(* close(), called by the destructor, and Load.                            *)
(***************************************************************************)
\* the objects of the session are gone
Forgotten == index' = NewIndex /\ indexOffset' = NoOffset /\ session' = "closed"

\* what a save makes the device keep; nothing is known of free lists after a crash
Saved ==
  /\ durable' = IF crashes = 0 THEN entries ELSE [o \in {} |-> Nothing]
  /\ kept' = IF crashes = 0 THEN [k \in KeysOf(index) |-> entries[Get(index, k)]]
             ELSE [k \in {} |-> Nothing]

\* mutant: the entry of the last index stays on the device
KeepOldIndex ==
  /\ session = "open" /\ ~failed /\ index.changed
  /\ session' = "deleted"
  /\ UNCHANGED <<entries, header, index, indexOffset, clock, answer, durable, kept, failed, crashes>>

\* a changed index: the entry of the last one is deleted first
DeleteOldIndex ==
  /\ session = "open" /\ ~failed /\ index.changed
  /\ session' = "deleted"
  /\ IF indexOffset = NoOffset THEN UNCHANGED <<entries, durable>>
     ELSE IsEntry(indexOffset) /\ DeleteEntry(indexOffset)
  /\ kept' = [k \in {} |-> Nothing]
  /\ UNCHANGED <<header, index, indexOffset, clock, answer, failed, crashes>>

\* the serialized index is a ByteVector, stored as any blob is
SerializedIndex ==
  [type |-> "kBlob",
   bytes |-> Serialize(index.trie, CHOOSE place \in Places(index.trie) : TRUE)]

\* mutant: the offset of the new entry is not taken over
IndexWithoutOffset ==
  /\ session = "deleted"
  /\ session' = "created"
  /\ \E offset \in Offsets :
       CreateEntry(offset, SerializedIndex)
  /\ UNCHANGED <<header, index, indexOffset, clock, answer, durable, kept, failed, crashes>>

CreateNewIndex ==
  /\ session = "deleted"
  /\ session' = "created"
  /\ \E offset \in Offsets :
       /\ CreateEntry(offset, SerializedIndex)
       /\ indexOffset' = offset
  /\ UNCHANGED <<header, index, clock, answer, durable, kept, failed, crashes>>

SaveStartEntries ==
  /\ session = "created" \/ (session = "open" /\ ~failed /\ ~index.changed)
  /\ header' = indexOffset
  /\ Saved /\ Forgotten
  /\ UNCHANGED <<entries, clock, answer, failed, crashes>>

\* what is at the offset of the index is a blob, and no user's value
IsIndex(offset) ==
  /\ IsEntry(offset)
  /\ entries[offset].value.type = "kBlob" /\ entries[offset].value \notin Values

\* Load, or else one of its exceptions and no manager at all
Load ==
  /\ session = "closed"
  /\ IsIndex(header)
  /\ session' = "open"
  /\ index' = [trie |-> Deserialize(entries[header].value.bytes), changed |-> FALSE]
  /\ indexOffset' = header
  /\ UNCHANGED <<entries, header, clock, answer, durable, kept, failed, crashes>>

Next == Call \/ Tick \/ DeleteOldIndex \/ CreateNewIndex \/ SaveStartEntries \/ Load

Spec == Init /\ [][Next]_vars

\* the program stops, or close() catches an exception and leaves it at that, as it
\* does when the device has failed
Crash ==
  /\ failed \/ crashes < MaxCrashes
  /\ session # "closed"
  /\ crashes' = IF failed THEN crashes ELSE crashes + 1
  /\ failed' = FALSE
  /\ Forgotten
  /\ UNCHANGED <<entries, header, clock, answer, durable, kept>>

(***************************************************************************)
(* The device fails during a call: the stream stays failed, the exception  *)
(* leaves the call before it changes the index, and what the call was to   *)
(* do with the entry may be done or not.                                   *)
(***************************************************************************)
FailingCall(op, key) ==
  /\ session = "open" /\ ~failed /\ crashes < MaxCrashes
  /\ failed' = TRUE /\ crashes' = crashes + 1
  /\ Answers(op, key, DeviceError, Nothing)
  /\ kept' = Without(kept, key)
  /\ UNCHANGED <<header, index, indexOffset, session, clock>>

PutFails(key) ==
  /\ ~HasKey(index, key) /\ FailingCall("Put", key)
  /\ \/ UNCHANGED entries
     \/ \E offset \in Offsets, value \in Values : CreateUserEntry(offset, value)
  /\ UNCHANGED durable

DeleteFails(op, key) ==
  /\ Reaches(key) /\ FailingCall(op, key)
  /\ op = "Delete" \/ IsEntryExpired(Offset(key))
  /\ DeleteEntry(Offset(key)) \/ UNCHANGED <<entries, durable>>

SetExpiredDateFails(key, date) ==
  /\ Reaches(key) /\ FailingCall("SetExpiredDate", key)
  /\ \/ SetEntryExpiredDate(Offset(key), TimeOf(date))
     \/ UNCHANGED <<entries, durable>>

ReadFails(op, key) ==
  /\ Reaches(key) /\ FailingCall(op, key)
  /\ UNCHANGED <<entries, durable>>

DeviceFails ==
  \E key \in Keys :
    \/ PutFails(key)
    \/ \E op \in {"Get", "HasKey", "Delete"} : DeleteFails(op, key)
    \/ \E op \in {"Get", "HasKey", "GetExpiredDate"} : ReadFails(op, key)
    \/ \E date \in Dates : SetExpiredDateFails(key, date)

CrashSpec == Init /\ [][Next \/ Crash \/ DeviceFails]_vars

-----------------------------------------------------------------------------
(***************************************************************************)
(* Properties.                                                             *)
(***************************************************************************)
\* Every variable keeps its type.
TypeOK ==
  /\ DOMAIN entries \subseteq Offsets
  /\ \A o \in DOMAIN entries :
       entries[o].expires \in {NoDate} \cup [high : 0 .. HighSize - 1, low : 0 .. LowSize - 1]
  /\ header \in Offsets \cup {NoOffset} /\ indexOffset \in Offsets \cup {NoOffset}
  /\ \A p \in DOMAIN index.trie : index.trie[p] \in Offsets \cup {NonExistLeaf}
  /\ session \in {"open", "deleted", "created", "closed"}
  /\ clock \in 0 .. MaxClock /\ crashes \in 0 .. MaxCrashes /\ failed \in BOOLEAN
  /\ DOMAIN durable \subseteq Offsets /\ DOMAIN kept \subseteq Keys

\* the index that the header of the volume leads to
SavedTrie == IF IsIndex(header) THEN Deserialize(entries[header].value.bytes) ELSE EmptyTrie

\* the index of the open session, or the one that a session would load
CurrentIndex ==
  IF session = "closed" THEN [trie |-> SavedTrie, changed |-> FALSE] ELSE index

\* the offset that the session, or the header of a closed volume, has of its index
CurrentIndexOffset ==
  IF session = "closed" THEN {header} \ {NoOffset}
  ELSE IF session = "deleted" THEN {} ELSE {indexOffset} \ {NoOffset}

\* Every entry of the volume belongs to exactly one key or is the index: no two
\* keys share an entry, no key's value is freed with the index or by another key,
\* and nothing that was stored is left behind without a name.
EntriesAreOwned ==
  LET current == CurrentIndex
      keys == KeysOf(current)
      offsets == {Get(current, k) : k \in keys}
  IN  /\ \A k, l \in keys : k # l => Get(current, k) # Get(current, l)
      /\ DOMAIN entries = offsets \cup CurrentIndexOffset
      /\ offsets \cap CurrentIndexOffset = {}
      /\ \A o \in DOMAIN entries : IsIndex(o) <=> o \in CurrentIndexOffset

\* A crash outside of close() loses no key that was there at the end of the last
\* session and was not touched since, whatever the session that crashed and the ones
\* after it do: the header leads to an index, and the index to the entry with the
\* value and the date.  (A crash in close() may leave a header that leads to nothing.)
KeysSurvive ==
  LET saved == SavedTrie
  IN  \A k \in DOMAIN kept :
        /\ IsIndex(header)
        /\ k \in DOMAIN saved /\ IsEntry(saved[k])
        /\ entries[saved[k]] = kept[k]

\* A volume is a key-value store: its keys are those of the index, their values and
\* dates are in the entries.  What it stores while it is closed is what it stored when
\* close() ended (kept), and Load must bring back just that.
StoredTime(date) == IF date = NoDate THEN NoDate ELSE date.high * LowSize + date.low

StoredKeys ==
  LET stored == IF session = "closed" THEN kept
                ELSE [k \in KeysOf(index) |-> entries[Get(index, k)]]
  IN  [k \in DOMAIN stored |-> [value |-> UserValue(stored[k].value),
                               expires |-> StoredTime(stored[k].expires)]]

\* dates behind the last one of 48 bits, and before 1970, are kept as the last one
KeptTime(date) == IF date \in 0 .. DateSize - 1 THEN date ELSE DateSize - 1

\* the upper field of a date comes back at another place
ReturnedTime(time) == GetTime([high |-> time \div LowSize, low |-> time % LowSize])

Volume == INSTANCE KeyValueStore
            WITH store <- StoredKeys, KeptDate <- KeptTime, ReturnedDate <- ReturnedTime

ImplementsKeyValueStore == Volume!Spec

-----------------------------------------------------------------------------
(***************************************************************************)
(* What comments and tests of the code say, and some state contradicts.    *)
(***************************************************************************)
\* "creates new or loads an existing PV from the device" (PVManagerFactory.hpp:14):
\* the volume that a session closed can be loaded again.
ClosedIsLoadable == session = "closed" => IsIndex(header)
=============================================================================
