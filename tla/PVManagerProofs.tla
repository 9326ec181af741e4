---------------------------- MODULE PVManagerProofs ----------------------------
(***************************************************************************)
(* A volume keeps its entries apart, loses no value that a session closed, *)
(* and is a key-value store, for any keys, values, offsets and crashes.    *)
(***************************************************************************)
EXTENDS PVManager, IndexSerializationProofs, EntriesTypeConverterProofs, TimeProofs

DateFields == [high : 0 .. HighSize - 1, low : 0 .. LowSize - 1]

\* the index of a volume: leaves are offsets, and only keys have one
IsVolumeIndex(trie) ==
  /\ IsTrie(trie)
  /\ \A p \in DOMAIN trie :
       /\ trie[p] \in Offsets \cup {NonExistLeaf}
       /\ trie[p] # NonExistLeaf => p \in Keys

\* what an entry can have as its value
IsUserEntry(value) == \E v \in Values : \E behind \in Behind : value = EntryOf(v, behind)
IsIndexEntry(value) == value.type = "kBlob" /\ IsVolumeIndex(Deserialize(value.bytes))

IsEntryRecord(entry) ==
  /\ entry = [value |-> entry.value, expires |-> entry.expires]
  /\ entry.expires \in {NoDate} \cup DateFields
  /\ IsUserEntry(entry.value) \/ IsIndexEntry(entry.value)

EntriesTyped ==
  /\ DOMAIN entries \subseteq Offsets
  /\ \A o \in DOMAIN entries : IsEntryRecord(entries[o])

TypeInv ==
  /\ EntriesTyped /\ IsVolumeIndex(index.trie)
  /\ header \in Offsets \cup {NoOffset} /\ indexOffset \in Offsets \cup {NoOffset}
  /\ session \in {"open", "deleted", "created", "closed"}
  /\ clock \in 0 .. MaxClock /\ crashes \in 0 .. MaxCrashes
  /\ failed \in BOOLEAN /\ (failed => crashes > 0)
  /\ DOMAIN durable \subseteq Offsets /\ DOMAIN kept \subseteq Keys

\* Every key has an entry of its own, which is not the index, and a volume without
\* the empty key has no other entries but those of own, which are indexes.
IndexEntries(ents) ==
  {o \in DOMAIN ents : ents[o].value.type = "kBlob" /\ ents[o].value \notin Values}

Owns(ents, idx, own) ==
  /\ \A k, l \in KeysOf(idx) : k # l => Get(idx, k) # Get(idx, l)
  /\ \A k \in KeysOf(idx) : Get(idx, k) \in DOMAIN ents \ (own \cup IndexEntries(ents))
  /\ own \subseteq IndexEntries(ents)
  /\ <<>> \notin Keys =>
       \A o \in DOMAIN ents : o \in own \/ \E k \in KeysOf(idx) : Get(idx, k) = o

\* an index is what its entry is read back as
IndexIsIn(offset) ==
  IsIndex(offset) /\ Deserialize(entries[offset].value.bytes) = index.trie

\* An index that is not changed, or was written, is the one of its entry.
OwnedInv ==
  crashes = 0 =>
    /\ Owns(entries, CurrentIndex, CurrentIndexOffset)
    /\ session = "open" /\ ~index.changed =>
         IF indexOffset = NoOffset THEN KeysOf(index) = {} ELSE IndexIsIn(indexOffset)
    /\ session = "created" => indexOffset # NoOffset /\ IndexIsIn(indexOffset)

\* The names that lead to what is kept: the header to the index, and the index to an
\* entry that no other key names, all of them out of reach of what a crash frees.
LeadsTo(trie, k, root, saved) ==
  /\ k \in DOMAIN trie /\ trie[k] = saved[k]
  /\ \A l \in DOMAIN trie : trie[l] # root /\ (l # k => trie[l] # saved[k])

IsKept(k) ==
  /\ IsIndex(header) /\ header \in DOMAIN durable
  /\ LeadsTo(SavedTrie, k, header, SavedTrie)
  /\ IsEntry(SavedTrie[k]) /\ SavedTrie[k] \in DOMAIN durable
  /\ entries[SavedTrie[k]] = kept[k]
  /\ \/ session = "closed"
     \/ session = "open" /\ indexOffset = header /\ LeadsTo(index.trie, k, header, SavedTrie)

KeptInv == \A k \in DOMAIN kept : IsKept(k)

(***************************************************************************)
(* Values and dates.                                                       *)
(***************************************************************************)
\* What a user stored is never taken for an index.
LEMMA UserEntriesAreNoIndexes ==
  ASSUME NEW value, IsUserEntry(value), value.type = "kBlob"
  PROVE  value \in Values
<1>1. PICK v \in Values : \E behind \in Behind : value = EntryOf(v, behind)
  BY DEF IsUserEntry
<1>2. PICK behind \in Behind : value = EntryOf(v, behind)
  BY <1>1
<1>3. CASE v \in Numbers
  <2>1. v.type \notin ComplexTypes /\ v.type # "kBlob"
    BY <1>3 DEF Numbers, NumberTypes, Simple4Types, Simple8Types, ComplexTypes,
         OneByteTypes, TwoByteTypes, FourByteTypes, EightByteTypes
  <2>2. value.type = v.type
    BY <1>2, <2>1 DEF EntryOf
  <2> QED BY <2>1, <2>2
<1>4. CASE v.type \in ComplexTypes /\ v = [type |-> v.type, bytes |-> v.bytes]
  <2>1. value = v
    BY <1>2, <1>4 DEF EntryOf
  <2> QED BY <2>1
<1> QED BY <1>3, <1>4, PVManagerAssumption DEF PVManagerAssumption

LEMMA DatesHaveFields ==
  ASSUME NEW date \in Int
  PROVE  TimeOf(date) \in DateFields
<1>1. HighSize \in Nat /\ HighSize >= 2 /\ LowSize \in Nat /\ LowSize >= 1
  BY HighSizeAssumption, SizesOfFields
<1>2. CASE date < 0 \/ date >= DateSize
  BY <1>1, <1>2 DEF TimeOf, Forever, DateFields
<1>3. CASE ~(date < 0 \/ date >= DateSize)
  <2> DEFINE H == HighSize
             L == LowSize
  <2>1. date \in 0 .. DateSize - 1
    BY <1>3, SizesOfFields
  <2>2. PICK h \in Nat, a \in 0 .. L - 1 : TimeOf(date) = [high |-> h, low |-> a] /\ date = L * h + a
    BY <2>1, FieldsOfDate
  <2>3. date < L * H
    <3>1. HighSize * LowSize = LowSize * HighSize
      BY <1>1
    <3> QED BY <2>1, <3>1, SizesOfFields
  <2>4. H \in Nat /\ L \in Nat
    BY <1>1
  <2> HIDE DEF H, L
  <2>5. h < H
    <3>1. CASE H < h
      <4>1. L * H + a < L * h + a
        BY <2>2, <2>4, <3>1, UpperFieldDecides
      <4>2. L * H \in Nat /\ L * h \in Nat
        BY <2>2, <2>4
      <4> QED BY <2>2, <2>3, <2>4, <4>1, <4>2
    <3>2. CASE H = h
      <4>1. L * H \in Nat /\ L * h = L * H
        BY <2>2, <2>4, <3>2
      <4> QED BY <2>2, <2>3, <2>4, <4>1
    <3> QED BY <2>2, <2>4, <3>1, <3>2
  <2> QED BY <2>2, <2>4, <2>5 DEF DateFields, H, L
<1> QED BY <1>2, <1>3

(***************************************************************************)
(* What the operations make of the entries and of the index.               *)
(***************************************************************************)
LEMMA Created ==
  ASSUME NEW offset, NEW value, CreateEntry(offset, value)
  PROVE  /\ offset \in FreeOffsets /\ offset \in Offsets
         /\ DOMAIN entries' = DOMAIN entries \cup {offset}
         /\ entries'[offset] = [value |-> value, expires |-> NoDate]
         /\ \A o \in DOMAIN entries \ {offset} : entries'[o] = entries[o]
BY DEF CreateEntry, Entries!Create, FreeOffsets

LEMMA Deleted ==
  ASSUME NEW offset, DeleteEntry(offset)
  PROVE  /\ DOMAIN entries' = DOMAIN entries \ {offset}
         /\ \A o \in DOMAIN entries' : entries'[o] = entries[o]
         /\ DOMAIN durable' = DOMAIN durable \ {offset}
BY DEF DeleteEntry, Entries!Delete, Without

LEMMA Redated ==
  ASSUME NEW offset \in DOMAIN entries, NEW date, SetEntryExpiredDate(offset, date),
         EntriesTyped
  PROVE  /\ DOMAIN entries' = DOMAIN entries
         /\ entries'[offset] = [value |-> entries[offset].value, expires |-> date]
         /\ \A o \in DOMAIN entries \ {offset} : entries'[o] = entries[o]
         /\ \A o \in DOMAIN entries : entries'[o].value = entries[o].value
         /\ DOMAIN durable' = DOMAIN durable
<1>1. entries' = [entries EXCEPT ![offset].expires = date]
  BY DEF SetEntryExpiredDate, Entries!SetExpiredDate
<1>2. entries[offset] = [value |-> entries[offset].value, expires |-> entries[offset].expires]
  BY DEF EntriesTyped, IsEntryRecord
<1>3. entries'[offset] = [entries[offset] EXCEPT !.expires = date]
  BY <1>1
<1>4. entries'[offset] = [value |-> entries[offset].value, expires |-> date]
  BY <1>2, <1>3
<1>5. DOMAIN durable' = DOMAIN durable
  BY DEF SetEntryExpiredDate
<1> QED BY <1>1, <1>4, <1>5

\* a key of a volume that is found has an offset, and is not empty
LEMMA FoundKeys ==
  ASSUME TypeInv, NEW key, Found(key)
  PROVE  key \in KeysOf(index) /\ key # <<>> /\ key \in Path /\ key \in Keys
         /\ Offset(key) = index.trie[key] /\ Offset(key) \in Offsets
<1>1. IsTrie(index.trie)
  BY DEF TypeInv, IsVolumeIndex
<1>2. key \in KeysOf(index)
  BY <1>1, KeysHaveLeaves DEF Found, Offset
<1>3. index.trie[key] # NonExistLeaf /\ key \in DOMAIN index.trie
  BY <1>2 DEF KeysOf
<1>4. Offset(key) = index.trie[key] /\ key # <<>> /\ key \in Path
  BY <1>1, <1>2, KeysHaveLeaves DEF Offset
<1> QED BY <1>2, <1>3, <1>4 DEF TypeInv, IsVolumeIndex

LEMMA KeysArePaths == \A key \in Keys : key \in Path
BY PVManagerAssumption DEF PVManagerAssumption, Path

\* Put of a key that is not empty, and of the empty key
LEMMA Inserted ==
  ASSUME IsVolumeIndex(index.trie), NEW key \in Keys, NEW offset \in Offsets,
         index' = Insert(index, key, offset)
  PROVE  /\ IsVolumeIndex(index'.trie)
         /\ key = <<>> => index' = index
         /\ key # <<>> =>
              /\ index'.changed = TRUE
              /\ \A k : Get(index', k) = IF k = key THEN offset ELSE Get(index, k)
              /\ KeysOf(index') = KeysOf(index) \cup {key}
              /\ DOMAIN index.trie \subseteq DOMAIN index'.trie /\ key \in DOMAIN index'.trie
              /\ \A p \in DOMAIN index'.trie :
                   index'.trie[p] = IF p = key THEN offset
                                    ELSE IF p \in DOMAIN index.trie THEN index.trie[p]
                                    ELSE NonExistLeaf
<1>1. CASE key = <<>>
  <2>1. index' = index
    BY <1>1 DEF Insert
  <2> QED BY <1>1, <2>1
<1>2. CASE key # <<>>
  <2> DEFINE new == Insert(index, key, offset)
  <2>1. key \in Path /\ IsTrie(index.trie) /\ offset # NonExistLeaf
    BY KeysArePaths, PVManagerAssumption DEF IsVolumeIndex, PVManagerAssumption
  <2>2. /\ IsTrie(new.trie) /\ new.changed = TRUE
        /\ DOMAIN new.trie = DOMAIN index.trie \cup PathsTo(key)
        /\ \A k : Get(new, k) = IF k = key THEN offset ELSE Get(index, k)
        /\ offset # NonExistLeaf => KeysOf(new) = KeysOf(index) \cup {key}
    BY ONLY <1>2, <2>1, InsertAddsKey
  <2>3. \A p \in DOMAIN new.trie :
          new.trie[p] = IF p = key THEN offset
                        ELSE IF p \in DOMAIN index.trie THEN index.trie[p] ELSE NonExistLeaf
    BY <1>2 DEF Insert
  <2>4. key \in PathsTo(key)
    BY <2>1, PathsToKey
  <2> HIDE DEF new
  <2>5. IsVolumeIndex(new.trie)
    BY <2>2, <2>3 DEF IsVolumeIndex
  <2>6. index' = new
    BY DEF new
  <2> QED BY <1>2, <2>1, <2>2, <2>3, <2>4, <2>5, <2>6
<1> QED BY <1>1, <1>2

LEMMA Removed ==
  ASSUME IsVolumeIndex(index.trie), NEW key \in Path, key # <<>>,
         index' = Delete(index, key)
  PROVE  /\ IsVolumeIndex(index'.trie) /\ index'.changed = TRUE
         /\ \A k : Get(index', k) = IF k = key THEN NonExistLeaf ELSE Get(index, k)
         /\ KeysOf(index') = KeysOf(index) \ {key}
         /\ DOMAIN index'.trie = DOMAIN index.trie
         /\ \A p \in DOMAIN index'.trie :
              index'.trie[p] = IF p = key THEN NonExistLeaf ELSE index.trie[p]
<1> DEFINE new == Delete(index, key)
<1>1. IsTrie(index.trie)
  BY DEF IsVolumeIndex
<1>2. /\ IsTrie(new.trie) /\ new.changed = TRUE
      /\ DOMAIN new.trie = DOMAIN index.trie
      /\ \A k : Get(new, k) = IF k = key THEN NonExistLeaf ELSE Get(index, k)
      /\ KeysOf(new) = KeysOf(index) \ {key}
  BY <1>1, DeleteRemovesKey
<1>3. \A p \in DOMAIN new.trie :
        new.trie[p] = IF p = key THEN NonExistLeaf ELSE index.trie[p]
  BY DEF Delete
<1> HIDE DEF new
<1>4. IsVolumeIndex(new.trie)
  BY <1>2, <1>3 DEF IsVolumeIndex
<1>5. index' = new
  BY DEF new
<1> QED BY <1>2, <1>3, <1>4, <1>5

(***************************************************************************)
(* What a call does, and one during which the device fails.                *)
(***************************************************************************)
NoEffect == UNCHANGED <<entries, index, durable, kept>>

Puts(key) ==
  /\ ~HasKey(index, key)
  /\ \E offset \in Offsets : \E value \in Values :
       CreateUserEntry(offset, value) /\ index' = Insert(index, key, offset)
  /\ UNCHANGED <<durable, kept>>

Erases(key) == Reaches(key) /\ Erase(key)

Redates(key) ==
  /\ Reaches(key)
  /\ \E date \in Dates : SetEntryExpiredDate(Offset(key), TimeOf(date))
  /\ kept' = Without(kept, key)
  /\ UNCHANGED index

\* the device fails before, or after, the entry is created or deleted
LosesNothing(key) == UNCHANGED <<entries, index, durable>> /\ kept' = Without(kept, key)

LosesNew(key) ==
  /\ \E offset \in Offsets : \E value \in Values : CreateUserEntry(offset, value)
  /\ UNCHANGED <<index, durable>> /\ kept' = Without(kept, key)

LosesOld(key) ==
  /\ Reaches(key) /\ DeleteEntry(Offset(key))
  /\ UNCHANGED index /\ kept' = Without(kept, key)

LEMMA CallEffects ==
  ASSUME Call
  PROVE  /\ session = "open"
         /\ UNCHANGED <<header, indexOffset, session, clock, failed, crashes>>
         /\ NoEffect \/ (\E key \in Keys : Puts(key) \/ Erases(key) \/ Redates(key))
<1>1. /\ session = "open"
      /\ UNCHANGED <<header, indexOffset, session, clock, failed, crashes>>
  BY DEF Call
<1>2. PICK key \in Keys :
       \/ \E value \in Values : PutKey(key, value)
       \/ GetKey(key) \/ HasKeyCall(key) \/ DeleteKey(key)
       \/ HasCatalog(key) \/ GetExpiredDate(key)
       \/ \E date \in Dates : SetExpiredDate(key, date)
  BY DEF Call
<1> DEFINE Effect == NoEffect \/ Puts(key) \/ Erases(key) \/ Redates(key)
<1>3. ASSUME NEW call, NEW code, Fails(call, key, code) PROVE NoEffect
  BY <1>3 DEF Fails, NoEffect
<1>4. ASSUME NEW call, NotStored(call, key) \/ Throws(call, key) PROVE NoEffect
  BY <1>3, <1>4 DEF NotStored, Throws
<1>5. ASSUME NEW call, Expires(call, key) PROVE Erases(key)
  BY <1>5 DEF Expires, Erases
<1>6. ASSUME NEW value \in Values, PutKey(key, value) PROVE Effect
  BY <1>3, <1>6 DEF PutKey, Puts
<1>7. ASSUME GetKey(key) PROVE Effect
  BY <1>4, <1>5, <1>7 DEF GetKey, NoEffect
<1>8. ASSUME HasKeyCall(key) PROVE Effect
  BY <1>4, <1>5, <1>8 DEF HasKeyCall, NoEffect
<1>9. ASSUME DeleteKey(key) PROVE Effect
  BY <1>4, <1>9 DEF DeleteKey, Erases
<1>10. ASSUME HasCatalog(key) PROVE Effect
  BY <1>10 DEF HasCatalog, NoEffect
<1>11. ASSUME GetExpiredDate(key) PROVE Effect
  BY <1>4, <1>11 DEF GetExpiredDate, NoEffect
<1>12. ASSUME NEW date \in Dates, SetExpiredDate(key, date) PROVE Effect
  BY <1>4, <1>12 DEF SetExpiredDate, Redates
<1>13. Effect
  <2> HIDE DEF Effect
  <2> QED BY <1>2, <1>6, <1>7, <1>8, <1>9, <1>10, <1>11, <1>12
<1> QED BY <1>1, <1>13

LEMMA FailureEffects ==
  ASSUME DeviceFails
  PROVE  /\ session = "open" /\ UNCHANGED <<header, indexOffset, session, clock>>
         /\ failed' = TRUE /\ crashes < MaxCrashes /\ crashes' = crashes + 1
         /\ \E key \in Keys : LosesNothing(key) \/ LosesNew(key) \/ LosesOld(key) \/ Redates(key)
<1> DEFINE Failing == /\ session = "open" /\ UNCHANGED <<header, indexOffset, session, clock>>
                      /\ failed' = TRUE /\ crashes < MaxCrashes /\ crashes' = crashes + 1
           Lost == \E key \in Keys :
                     LosesNothing(key) \/ LosesNew(key) \/ LosesOld(key) \/ Redates(key)
<1>1. ASSUME NEW op, NEW key, FailingCall(op, key)
      PROVE  Failing /\ UNCHANGED index /\ kept' = Without(kept, key)
  BY <1>1 DEF FailingCall
<1>2. ASSUME NEW key \in Keys, PutFails(key) PROVE Failing /\ Lost
  BY <1>1, <1>2 DEF PutFails, LosesNothing, LosesNew
<1>3. ASSUME NEW key \in Keys, NEW op, DeleteFails(op, key) PROVE Failing /\ Lost
  BY <1>1, <1>3 DEF DeleteFails, LosesNothing, LosesOld
<1>4. ASSUME NEW key \in Keys, NEW op, ReadFails(op, key) PROVE Failing /\ Lost
  BY <1>1, <1>4 DEF ReadFails, LosesNothing
<1>5. ASSUME NEW key \in Keys, NEW date \in Dates, SetExpiredDateFails(key, date) PROVE Failing /\ Lost
  BY <1>1, <1>5 DEF SetExpiredDateFails, LosesNothing, Redates
<1> HIDE DEF Failing, Lost
<1>6. Failing /\ Lost
  BY <1>2, <1>3, <1>4, <1>5 DEF DeviceFails
<1> QED BY <1>6 DEF Failing, Lost

(***************************************************************************)
(* Types.                                                                  *)
(***************************************************************************)
LEMMA TypesAreOK == TypeInv => TypeOK
BY DEF TypeInv, TypeOK, EntriesTyped, IsEntryRecord, IsVolumeIndex, DateFields

LEMMA EmptyIsVolumeIndex == IsVolumeIndex(EmptyTrie) /\ KeysOf(NewIndex) = {}
BY EmptyIsTrie DEF IsVolumeIndex, NewIndex, KeysOf, EmptyTrie

LEMMA InitialTypes == Init => TypeInv
<1> SUFFICES ASSUME Init PROVE TypeInv
  OBVIOUS
<1>1. EntriesTyped
  BY DEF Init, EntriesTyped
<1>2. IsVolumeIndex(index.trie)
  BY EmptyIsVolumeIndex DEF Init, NewIndex
<1>3. clock \in 0 .. MaxClock /\ crashes \in 0 .. MaxCrashes
  BY PVManagerAssumption DEF Init, PVManagerAssumption
<1> QED BY <1>1, <1>2, <1>3 DEF Init, TypeInv

LEMMA CreatedTypes ==
  ASSUME EntriesTyped, NEW offset, NEW value, CreateEntry(offset, value),
         IsUserEntry(value) \/ IsIndexEntry(value)
  PROVE  EntriesTyped'
<1>1. IsEntryRecord([value |-> value, expires |-> NoDate])
  BY DEF IsEntryRecord
<1>2. /\ offset \in Offsets /\ DOMAIN entries' = DOMAIN entries \cup {offset}
      /\ entries'[offset] = [value |-> value, expires |-> NoDate]
      /\ \A o \in DOMAIN entries \ {offset} : entries'[o] = entries[o]
  BY Created
<1> QED BY <1>1, <1>2 DEF EntriesTyped

LEMMA DeletedTypes ==
  ASSUME EntriesTyped, NEW offset, DeleteEntry(offset)
  PROVE  EntriesTyped'
BY Deleted DEF EntriesTyped

LEMMA RedatedTypes ==
  ASSUME EntriesTyped, NEW offset \in DOMAIN entries, NEW date \in Dates,
         SetEntryExpiredDate(offset, TimeOf(date))
  PROVE  EntriesTyped'
<1> DEFINE fields == TimeOf(date)
<1>1. fields \in DateFields
  BY DatesHaveFields, PVManagerAssumption DEF PVManagerAssumption
<1>2. /\ DOMAIN entries' = DOMAIN entries
      /\ entries'[offset] = [value |-> entries[offset].value, expires |-> fields]
      /\ \A o \in DOMAIN entries \ {offset} : entries'[o] = entries[o]
  BY Redated
<1> HIDE DEF fields
<1>3. IsEntryRecord(entries'[offset])
  BY <1>1, <1>2 DEF EntriesTyped, IsEntryRecord
<1> QED BY <1>2, <1>3 DEF EntriesTyped

LEMMA UserEntriesTyped ==
  ASSUME EntriesTyped, NEW offset, NEW value \in Values, CreateUserEntry(offset, value)
  PROVE  /\ EntriesTyped'
         /\ \E entry : IsUserEntry(entry) /\ CreateEntry(offset, entry)
<1>1. PICK behind \in Behind : CreateEntry(offset, EntryOf(value, behind))
  BY DEF CreateUserEntry
<1>2. IsUserEntry(EntryOf(value, behind))
  BY DEF IsUserEntry
<1> QED BY <1>1, <1>2, CreatedTypes

LEMMA CallTypes ==
  ASSUME TypeInv, Call
  PROVE  TypeInv'
<1>1. UNCHANGED <<header, indexOffset, session, clock, failed, crashes>>
  BY CallEffects
<1>2. CASE NoEffect
  BY <1>1, <1>2 DEF NoEffect, TypeInv, EntriesTyped
<1>3. ASSUME NEW key \in Keys, Puts(key) PROVE TypeInv'
  <2>1. PICK offset \in Offsets : \E value \in Values :
          CreateUserEntry(offset, value) /\ index' = Insert(index, key, offset)
    BY <1>3 DEF Puts
  <2>2. EntriesTyped'
    BY <2>1, UserEntriesTyped DEF TypeInv
  <2>3. IsVolumeIndex(index'.trie)
    BY <2>1, Inserted DEF TypeInv
  <2>4. UNCHANGED <<durable, kept>>
    BY <1>3 DEF Puts
  <2> QED BY <1>1, <2>2, <2>3, <2>4 DEF TypeInv
<1>4. ASSUME NEW key \in Keys, Erases(key) PROVE TypeInv'
  <2>1. /\ DeleteEntry(Offset(key)) /\ index' = Delete(index, key) /\ kept' = Without(kept, key)
        /\ Found(key)
    BY <1>4 DEF Erases, Erase, Reaches
  <2>2. EntriesTyped' /\ DOMAIN durable' \subseteq Offsets
    BY <2>1, DeletedTypes, Deleted DEF TypeInv
  <2>3. IsVolumeIndex(index'.trie)
    BY <2>1, FoundKeys, Removed DEF TypeInv
  <2>4. DOMAIN kept' \subseteq Keys
    BY <2>1 DEF Without, TypeInv
  <2> QED BY <1>1, <2>2, <2>3, <2>4 DEF TypeInv
<1>5. ASSUME NEW key \in Keys, Redates(key) PROVE TypeInv'
  <2>1. PICK date \in Dates : SetEntryExpiredDate(Offset(key), TimeOf(date))
    BY <1>5 DEF Redates
  <2>2. Offset(key) \in DOMAIN entries /\ UNCHANGED index /\ kept' = Without(kept, key)
    BY <1>5 DEF Redates, Reaches, IsEntry
  <2>3. EntriesTyped' /\ DOMAIN durable' = DOMAIN durable
    BY <2>1, <2>2, RedatedTypes, Redated DEF TypeInv
  <2>4. DOMAIN kept' \subseteq Keys
    BY <2>2 DEF Without, TypeInv
  <2> QED BY <1>1, <2>2, <2>3, <2>4 DEF TypeInv
<1> QED BY <1>2, <1>3, <1>4, <1>5, CallEffects

LEMMA FailureTypes ==
  ASSUME TypeInv, DeviceFails
  PROVE  TypeInv'
<1>1. /\ UNCHANGED <<header, indexOffset, session, clock>>
      /\ failed' = TRUE /\ crashes' \in 0 .. MaxCrashes /\ crashes' > 0
  BY FailureEffects, PVManagerAssumption DEF TypeInv, PVManagerAssumption
<1>2. PICK key \in Keys :
        LosesNothing(key) \/ LosesNew(key) \/ LosesOld(key) \/ Redates(key)
  BY FailureEffects
<1>3. UNCHANGED index /\ kept' = Without(kept, key)
  BY <1>2 DEF LosesNothing, LosesNew, LosesOld, Redates
<1>4. DOMAIN kept' \subseteq Keys
  BY <1>3 DEF Without, TypeInv
<1>5. EntriesTyped' /\ DOMAIN durable' \subseteq Offsets
  <2>1. CASE LosesNothing(key)
    BY <2>1 DEF LosesNothing, TypeInv, EntriesTyped
  <2>2. CASE LosesNew(key)
    BY <2>2, UserEntriesTyped DEF LosesNew, TypeInv
  <2>3. CASE LosesOld(key)
    BY <2>3, DeletedTypes, Deleted DEF LosesOld, TypeInv
  <2>4. CASE Redates(key)
    <3>1. PICK date \in Dates : SetEntryExpiredDate(Offset(key), TimeOf(date))
      BY <2>4 DEF Redates
    <3>2. Offset(key) \in DOMAIN entries
      BY <2>4 DEF Redates, Reaches, IsEntry
    <3> QED BY <3>1, <3>2, RedatedTypes, Redated DEF TypeInv
  <2> QED BY <1>2, <2>1, <2>2, <2>3, <2>4
<1> QED BY <1>1, <1>3, <1>4, <1>5 DEF TypeInv

\* What close() writes is read back as the index it was.
LEMMA SerializedIndexComesBack ==
  ASSUME IsTrie(index.trie)
  PROVE  /\ SerializedIndex.type = "kBlob" /\ Deserialize(SerializedIndex.bytes) = index.trie
         /\ \E place \in Places(index.trie) :
              SerializedIndex = [type |-> "kBlob", bytes |-> Serialize(index.trie, place)]
<1> DEFINE place == CHOOSE p \in Places(index.trie) : TRUE
<1>1. place \in Places(index.trie)
  BY PlacesExist
<1>2. SerializedIndex = [type |-> "kBlob", bytes |-> Serialize(index.trie, place)]
  BY DEF SerializedIndex
<1> HIDE DEF place
<1>3. Deserialize(Serialize(index.trie, place)) = index.trie
  BY <1>1, TriesComeBack
<1> QED BY <1>1, <1>2, <1>3

\* An entry that is an index can be loaded.
LEMMA IndexesAreVolumeIndexes ==
  ASSUME EntriesTyped, NEW offset, IsIndex(offset)
  PROVE  IsVolumeIndex(Deserialize(entries[offset].value.bytes))
<1>1. IsUserEntry(entries[offset].value) \/ IsIndexEntry(entries[offset].value)
  BY DEF EntriesTyped, IsEntryRecord, IsIndex, IsEntry
<1> QED BY <1>1, UserEntriesAreNoIndexes DEF IsIndex, IsIndexEntry

LEMMA DeleteOldIndexTypes ==
  ASSUME TypeInv, DeleteOldIndex
  PROVE  TypeInv'
<1>1. /\ session' = "deleted" /\ DOMAIN kept' = {}
      /\ UNCHANGED <<header, index, indexOffset, clock, failed, crashes>>
  BY DEF DeleteOldIndex
<1>2. EntriesTyped' /\ DOMAIN durable' \subseteq Offsets
  <2>1. CASE UNCHANGED <<entries, durable>>
    BY <2>1 DEF TypeInv, EntriesTyped
  <2>2. CASE DeleteEntry(indexOffset)
    BY <2>2, DeletedTypes, Deleted DEF TypeInv
  <2> QED BY <2>1, <2>2 DEF DeleteOldIndex
<1> QED BY <1>1, <1>2 DEF TypeInv

LEMMA CreateNewIndexTypes ==
  ASSUME TypeInv, CreateNewIndex
  PROVE  TypeInv'
<1>1. /\ session' = "created"
      /\ UNCHANGED <<header, index, clock, durable, kept, failed, crashes>>
  BY DEF CreateNewIndex
<1>2. PICK offset \in Offsets : CreateEntry(offset, SerializedIndex) /\ indexOffset' = offset
  BY DEF CreateNewIndex
<1>3. IsIndexEntry(SerializedIndex)
  BY SerializedIndexComesBack DEF IsIndexEntry, TypeInv, IsVolumeIndex
<1>4. EntriesTyped'
  BY <1>2, <1>3, CreatedTypes DEF TypeInv
<1> QED BY <1>1, <1>2, <1>4 DEF TypeInv

LEMMA SaveTypes ==
  ASSUME TypeInv, SaveStartEntries
  PROVE  TypeInv'
<1>1. /\ header' = indexOffset /\ UNCHANGED <<entries, clock, failed, crashes>>
      /\ index' = NewIndex /\ indexOffset' = NoOffset /\ session' = "closed"
  BY DEF SaveStartEntries, Forgotten
<1>2. IsVolumeIndex(index'.trie)
  BY <1>1, EmptyIsVolumeIndex DEF NewIndex
<1>3. KeysOf(index) \subseteq Keys
  BY DEF TypeInv, IsVolumeIndex, KeysOf
<1>4. DOMAIN durable' \subseteq Offsets /\ DOMAIN kept' \subseteq Keys
  BY <1>3 DEF SaveStartEntries, Saved, TypeInv, EntriesTyped
<1> QED BY <1>1, <1>2, <1>4 DEF TypeInv, EntriesTyped

LEMMA LoadTypes ==
  ASSUME TypeInv, Load
  PROVE  TypeInv'
<1>1. IsVolumeIndex(index'.trie)
  BY IndexesAreVolumeIndexes DEF Load, TypeInv
<1> QED BY <1>1 DEF Load, TypeInv, EntriesTyped

LEMMA CrashTypes ==
  ASSUME TypeInv, Crash
  PROVE  TypeInv'
<1>1. IsVolumeIndex(index'.trie)
  BY EmptyIsVolumeIndex DEF Crash, Forgotten, NewIndex
<1>2. crashes' \in 0 .. MaxCrashes
  BY PVManagerAssumption DEF Crash, TypeInv, PVManagerAssumption
<1> QED BY <1>1, <1>2 DEF Crash, Forgotten, TypeInv, EntriesTyped

LEMMA TypeStep == TypeInv /\ [Next \/ Crash \/ DeviceFails]_vars => TypeInv'
<1> SUFFICES ASSUME TypeInv, [Next \/ Crash \/ DeviceFails]_vars PROVE TypeInv'
  OBVIOUS
<1>1. CASE Tick
  BY <1>1, PVManagerAssumption DEF Tick, TypeInv, EntriesTyped, PVManagerAssumption
<1>2. CASE UNCHANGED vars
  BY <1>2 DEF vars, TypeInv, EntriesTyped
<1> QED BY <1>1, <1>2, CallTypes, DeleteOldIndexTypes, CreateNewIndexTypes, SaveTypes,
        LoadTypes, CrashTypes, FailureTypes DEF Next

LEMMA TypesAlways == CrashSpec => []TypeInv
BY InitialTypes, TypeStep, PTL DEF CrashSpec

\* Every step of a volume is one of a volume that may crash.
LEMMA NoCrashIsNeeded == Spec => CrashSpec
<1>1. [Next]_vars => [Next \/ Crash \/ DeviceFails]_vars
  OBVIOUS
<1> QED BY <1>1, PTL DEF Spec, CrashSpec

\* The type invariant holds of a volume whatever its callers do, and whatever crashes
\* and failures of the device come between: an index that is loaded has offsets of
\* entries as its leaves, and keys of callers, whatever was freed or overwritten.
THEOREM VolumeTypes == CrashSpec => []TypeOK
BY TypesAlways, TypesAreOK, PTL

(***************************************************************************)
(* Who owns the entries: for any entries e that become f.                  *)
(***************************************************************************)
LEMMA IndexEntriesAreIndexes == \A o : IsIndex(o) <=> o \in IndexEntries(entries)
BY DEF IsIndex, IsEntry, IndexEntries

LEMMA OwnsCreated ==
  ASSUME NEW e, NEW f, NEW idx, NEW new, NEW own, NEW key, NEW offset,
         Owns(e, idx, own), offset \notin DOMAIN e, DOMAIN f = DOMAIN e \cup {offset},
         \A o \in DOMAIN e : f[o] = e[o], offset \notin IndexEntries(f),
         key \notin KeysOf(idx), KeysOf(new) = KeysOf(idx) \cup {key},
         \A k : Get(new, k) = IF k = key THEN offset ELSE Get(idx, k)
  PROVE  Owns(f, new, own)
<1>1. IndexEntries(f) = IndexEntries(e)
  BY DEF IndexEntries
<1>2. \A k, l \in KeysOf(new) : k # l => Get(new, k) # Get(new, l)
  BY DEF Owns
<1>3. \A k \in KeysOf(new) : Get(new, k) \in DOMAIN f \ (own \cup IndexEntries(f))
  BY <1>1 DEF Owns, IndexEntries
<1>4. <<>> \notin Keys =>
        \A o \in DOMAIN f : o \in own \/ \E k \in KeysOf(new) : Get(new, k) = o
  BY DEF Owns
<1> QED BY <1>1, <1>2, <1>3, <1>4 DEF Owns

LEMMA OwnsDeleted ==
  ASSUME NEW e, NEW f, NEW idx, NEW new, NEW own, NEW key \in KeysOf(idx),
         Owns(e, idx, own), DOMAIN f = DOMAIN e \ {Get(idx, key)},
         \A o \in DOMAIN f : f[o] = e[o], KeysOf(new) = KeysOf(idx) \ {key},
         \A k \in KeysOf(new) : Get(new, k) = Get(idx, k)
  PROVE  Owns(f, new, own)
<1>1. IndexEntries(f) = IndexEntries(e) \ {Get(idx, key)}
  BY DEF IndexEntries
<1>2. Get(idx, key) \notin own
  BY DEF Owns
<1> QED BY <1>1, <1>2 DEF Owns

\* the values stay, and who has them
LEMMA OwnsRedated ==
  ASSUME NEW e, NEW f, NEW idx, NEW new, NEW own,
         Owns(e, idx, own), DOMAIN f = DOMAIN e, \A o \in DOMAIN e : f[o].value = e[o].value,
         KeysOf(new) = KeysOf(idx), \A k \in KeysOf(new) : Get(new, k) = Get(idx, k)
  PROVE  Owns(f, new, own)
<1>1. IndexEntries(f) = IndexEntries(e)
  BY DEF IndexEntries
<1> QED BY <1>1 DEF Owns

\* Put of the empty key stores a value that no key leads to
LEMMA OwnsLeaked ==
  ASSUME NEW e, NEW f, NEW idx, NEW own, NEW offset,
         Owns(e, idx, own), offset \notin DOMAIN e, DOMAIN f = DOMAIN e \cup {offset},
         \A o \in DOMAIN e : f[o] = e[o], offset \notin IndexEntries(f), <<>> \in Keys
  PROVE  Owns(f, idx, own)
<1>1. IndexEntries(f) = IndexEntries(e)
  BY DEF IndexEntries
<1> QED BY <1>1 DEF Owns

LEMMA OwnsIndexDeleted ==
  ASSUME NEW e, NEW f, NEW idx, NEW offset,
         Owns(e, idx, {offset}), DOMAIN f = DOMAIN e \ {offset}, \A o \in DOMAIN f : f[o] = e[o]
  PROVE  Owns(f, idx, {})
<1>1. IndexEntries(f) = IndexEntries(e) \ {offset}
  BY DEF IndexEntries
<1> QED BY <1>1 DEF Owns

LEMMA OwnsIndexCreated ==
  ASSUME NEW e, NEW f, NEW idx, NEW offset,
         Owns(e, idx, {}), offset \notin DOMAIN e, DOMAIN f = DOMAIN e \cup {offset},
         \A o \in DOMAIN e : f[o] = e[o], offset \in IndexEntries(f)
  PROVE  Owns(f, idx, {offset})
<1>1. IndexEntries(f) = IndexEntries(e) \cup {offset}
  BY DEF IndexEntries
<1>2. \A k \in KeysOf(idx) : Get(idx, k) \in DOMAIN e \ IndexEntries(e)
  BY DEF Owns
<1> QED BY <1>1, <1>2 DEF Owns

(***************************************************************************)
(* No blob of a user is, byte for byte, what some index is serialized to:  *)
(* nothing on the device would tell the two apart.                         *)
(***************************************************************************)
NoBlobIsAnIndex ==
  \A v \in Values : \A trie : IsVolumeIndex(trie) =>
    \A place \in Places(trie) : v # [type |-> "kBlob", bytes |-> Serialize(trie, place)]

LEMMA InitialOwned == Init => OwnedInv
<1> SUFFICES ASSUME Init PROVE OwnedInv
  OBVIOUS
<1>1. index = NewIndex /\ KeysOf(index) = {} /\ indexOffset = NoOffset /\ session = "open"
      /\ DOMAIN entries = {}
  BY EmptyIsVolumeIndex DEF Init
<1>2. CurrentIndex = index /\ CurrentIndexOffset = {}
  BY <1>1 DEF CurrentIndex, CurrentIndexOffset
<1> QED BY <1>1, <1>2 DEF OwnedInv, Owns

\* before the first crash an entry is created where there is none
LEMMA CreatedApart ==
  ASSUME crashes = 0, NEW offset, NEW value, CreateEntry(offset, value)
  PROVE  offset \notin DOMAIN entries
BY Created DEF FreeOffsets

LEMMA UserEntryIsNoIndex ==
  ASSUME NEW offset, NEW entry, CreateEntry(offset, entry), IsUserEntry(entry)
  PROVE  offset \notin IndexEntries(entries')
<1>1. entries'[offset] = [value |-> entry, expires |-> NoDate]
  BY Created
<1>2. entries'[offset].value = entry
  BY <1>1
<1> QED BY <1>2, UserEntriesAreNoIndexes DEF IndexEntries

LEMMA PutOwned ==
  ASSUME TypeInv, crashes = 0, NEW key \in Keys, Puts(key), NEW own,
         Owns(entries, index, own)
  PROVE  /\ Owns(entries', index', own) /\ (index' = index \/ index'.changed)
         /\ \A o \in DOMAIN entries : o \in DOMAIN entries' /\ entries'[o] = entries[o]
<1>1. PICK offset \in Offsets : \E value \in Values :
        CreateUserEntry(offset, value) /\ index' = Insert(index, key, offset)
  BY DEF Puts
<1>2. PICK entry : IsUserEntry(entry) /\ CreateEntry(offset, entry)
  BY <1>1, UserEntriesTyped DEF TypeInv
<1>3. /\ offset \notin DOMAIN entries /\ DOMAIN entries' = DOMAIN entries \cup {offset}
      /\ \A o \in DOMAIN entries : entries'[o] = entries[o]
      /\ offset \notin IndexEntries(entries')
  BY <1>2, Created, CreatedApart, UserEntryIsNoIndex
<1>4. CASE key = <<>>
  <2>1. index' = index
    BY <1>1, <1>4, Inserted DEF TypeInv
  <2>2. <<>> \in Keys
    BY <1>4
  <2>3. Owns(entries', index, own)
    BY <1>3, <2>2, OwnsLeaked
  <2> QED BY <1>3, <2>1, <2>3
<1>5. CASE key # <<>>
  <2>1. /\ index'.changed = TRUE /\ KeysOf(index') = KeysOf(index) \cup {key}
        /\ \A k : Get(index', k) = IF k = key THEN offset ELSE Get(index, k)
    BY <1>1, <1>5, Inserted DEF TypeInv
  <2>2. key \notin KeysOf(index)
    BY KeysHaveLeaves DEF Puts, HasKey, TypeInv, IsVolumeIndex
  <2>3. Owns(entries', index', own)
    BY <1>3, <2>1, <2>2, OwnsCreated
  <2> QED BY <1>3, <2>1, <2>3
<1> QED BY <1>4, <1>5

LEMMA EraseOwned ==
  ASSUME TypeInv, NEW key \in Keys, Erases(key), NEW own, Owns(entries, index, own)
  PROVE  Owns(entries', index', own) /\ index'.changed
<1>1. DeleteEntry(Offset(key)) /\ index' = Delete(index, key) /\ Found(key)
  BY DEF Erases, Erase, Reaches
<1>2. key \in KeysOf(index) /\ key # <<>> /\ key \in Path
  BY <1>1, FoundKeys
<1>3. /\ DOMAIN entries' = DOMAIN entries \ {Get(index, key)}
      /\ \A o \in DOMAIN entries' : entries'[o] = entries[o]
  BY <1>1, Deleted DEF Offset
<1>4. /\ index'.changed = TRUE /\ KeysOf(index') = KeysOf(index) \ {key}
      /\ \A k \in KeysOf(index') : Get(index', k) = Get(index, k)
  BY <1>1, <1>2, Removed DEF TypeInv
<1> QED BY <1>2, <1>3, <1>4, OwnsDeleted

LEMMA RedateOwned ==
  ASSUME TypeInv, NEW key \in Keys, Redates(key), NEW own, Owns(entries, index, own)
  PROVE  /\ Owns(entries', index', own) /\ index' = index
         /\ DOMAIN entries' = DOMAIN entries
         /\ \A o \in DOMAIN entries : entries'[o].value = entries[o].value
<1>1. PICK date \in Dates : SetEntryExpiredDate(Offset(key), TimeOf(date))
  BY DEF Redates
<1>2. Offset(key) \in DOMAIN entries /\ index' = index
  BY DEF Redates, Reaches, IsEntry
<1>3. /\ DOMAIN entries' = DOMAIN entries
      /\ \A o \in DOMAIN entries : entries'[o].value = entries[o].value
  BY <1>1, <1>2, Redated DEF TypeInv
<1>4. Owns(entries', index, own)
  BY <1>3, OwnsRedated
<1> QED BY <1>2, <1>3, <1>4

LEMMA CallOwned ==
  ASSUME TypeInv, OwnedInv, Call
  PROVE  OwnedInv'
<1> SUFFICES ASSUME crashes' = 0 PROVE OwnedInv'
  BY DEF OwnedInv
<1>1. /\ session = "open" /\ session' = "open" /\ crashes = 0
      /\ header' = header /\ indexOffset' = indexOffset
  BY CallEffects
<1> DEFINE mine == {indexOffset} \ {NoOffset}
<1>2. /\ CurrentIndex = index /\ CurrentIndex' = index'
      /\ CurrentIndexOffset = mine /\ CurrentIndexOffset' = mine
  BY <1>1 DEF CurrentIndex, CurrentIndexOffset
<1>3. PICK own : own = mine
  OBVIOUS
<1>4. Owns(entries, index, own)
  BY <1>1, <1>2, <1>3 DEF OwnedInv
<1> HIDE DEF mine
<1>5. SUFFICES /\ Owns(entries', index', own)
               /\ ~index'.changed =>
                    /\ index' = index
                    /\ \A o \in DOMAIN entries :
                         o \in DOMAIN entries' /\ entries'[o].value = entries[o].value
  <2>1. ASSUME ~index'.changed
        PROVE  IF indexOffset = NoOffset THEN KeysOf(index') = {} ELSE IndexIsIn(indexOffset)'
    <3>1. /\ index' = index
          /\ \A o \in DOMAIN entries :
               o \in DOMAIN entries' /\ entries'[o].value = entries[o].value
      BY <1>5, <2>1
    <3>2. IF indexOffset = NoOffset THEN KeysOf(index) = {} ELSE IndexIsIn(indexOffset)
      BY <1>1, <2>1, <3>1 DEF OwnedInv
    <3> QED BY <1>1, <3>1, <3>2 DEF IndexIsIn, IsIndex, IsEntry
  <2> QED BY <1>1, <1>2, <1>3, <1>5, <2>1 DEF OwnedInv
<1>6. CASE NoEffect
  BY <1>4, <1>6 DEF NoEffect
<1>7. ASSUME NEW key \in Keys, Puts(key)
      PROVE  /\ Owns(entries', index', own)
             /\ index' = index \/ index'.changed
             /\ \A o \in DOMAIN entries : o \in DOMAIN entries' /\ entries'[o] = entries[o]
  BY <1>1, <1>4, <1>7, PutOwned
<1>8. ASSUME NEW key \in Keys, Erases(key) PROVE Owns(entries', index', own) /\ index'.changed
  BY <1>4, <1>8, EraseOwned
<1>9. ASSUME NEW key \in Keys, Redates(key)
      PROVE  /\ Owns(entries', index', own) /\ index' = index
             /\ DOMAIN entries' = DOMAIN entries
             /\ \A o \in DOMAIN entries : entries'[o].value = entries[o].value
  BY <1>4, <1>9, RedateOwned
<1> QED BY <1>6, <1>7, <1>8, <1>9, CallEffects

LEMMA DeleteOldIndexOwned ==
  ASSUME TypeInv, OwnedInv, DeleteOldIndex
  PROVE  OwnedInv'
<1> SUFFICES ASSUME crashes = 0 PROVE OwnedInv'
  BY DEF OwnedInv, DeleteOldIndex
<1>1. session = "open" /\ session' = "deleted" /\ index' = index /\ indexOffset' = indexOffset
  BY DEF DeleteOldIndex
<1>2. /\ CurrentIndex = index /\ CurrentIndex' = index' /\ CurrentIndexOffset' = {}
      /\ CurrentIndexOffset = {indexOffset} \ {NoOffset}
  BY <1>1 DEF CurrentIndex, CurrentIndexOffset
<1>3. Owns(entries, index, {indexOffset} \ {NoOffset})
  BY <1>2 DEF OwnedInv
<1>4. Owns(entries', index, {})
  <2>1. CASE indexOffset = NoOffset
    <3>1. entries' = entries /\ {indexOffset} \ {NoOffset} = {}
      BY <2>1 DEF DeleteOldIndex
    <3> QED BY <1>3, <3>1
  <2>2. CASE indexOffset # NoOffset
    <3>1. DeleteEntry(indexOffset) /\ {indexOffset} \ {NoOffset} = {indexOffset}
      BY <2>2 DEF DeleteOldIndex
    <3>2. /\ DOMAIN entries' = DOMAIN entries \ {indexOffset}
          /\ \A o \in DOMAIN entries' : entries'[o] = entries[o]
      BY <3>1, Deleted
    <3> QED BY <1>3, <3>1, <3>2, OwnsIndexDeleted
  <2> QED BY <2>1, <2>2
<1> QED BY <1>1, <1>2, <1>4 DEF OwnedInv

LEMMA CreateNewIndexOwned ==
  ASSUME NoBlobIsAnIndex, TypeInv, OwnedInv, CreateNewIndex
  PROVE  OwnedInv'
<1> SUFFICES ASSUME crashes = 0 PROVE OwnedInv'
  BY DEF OwnedInv, CreateNewIndex
<1>1. session = "deleted" /\ session' = "created" /\ index' = index
  BY DEF CreateNewIndex
<1>2. PICK offset \in Offsets : CreateEntry(offset, SerializedIndex) /\ indexOffset' = offset
  BY DEF CreateNewIndex
<1>3. offset # NoOffset
  BY PVManagerAssumption DEF PVManagerAssumption
<1>4. /\ CurrentIndex = index /\ CurrentIndex' = index'
      /\ CurrentIndexOffset = {} /\ CurrentIndexOffset' = {offset}
  BY <1>1, <1>2, <1>3 DEF CurrentIndex, CurrentIndexOffset
<1>5. /\ offset \notin DOMAIN entries /\ DOMAIN entries' = DOMAIN entries \cup {offset}
      /\ \A o \in DOMAIN entries : entries'[o] = entries[o]
      /\ entries'[offset] = [value |-> SerializedIndex, expires |-> NoDate]
  BY <1>2, Created, CreatedApart
<1>6. entries'[offset].value = SerializedIndex
  BY <1>5
<1>7. /\ SerializedIndex.type = "kBlob" /\ Deserialize(SerializedIndex.bytes) = index.trie
      /\ SerializedIndex \notin Values
  BY SerializedIndexComesBack DEF TypeInv, IsVolumeIndex, NoBlobIsAnIndex
<1>8. offset \in IndexEntries(entries')
  BY <1>5, <1>6, <1>7 DEF IndexEntries
<1>9. Owns(entries', index, {offset})
  <2>1. Owns(entries, index, {})
    BY <1>4 DEF OwnedInv
  <2> QED BY <1>5, <1>8, <2>1, OwnsIndexCreated
<1>10. IndexIsIn(indexOffset)'
  BY <1>1, <1>2, <1>5, <1>6, <1>7 DEF IndexIsIn, IsIndex, IsEntry
<1> QED BY <1>1, <1>2, <1>3, <1>4, <1>9, <1>10 DEF OwnedInv

\* what the header leads to is an index, or nothing
LEMMA SavedTrieType ==
  ASSUME EntriesTyped
  PROVE  IsVolumeIndex(SavedTrie)
BY IndexesAreVolumeIndexes, EmptyIsVolumeIndex DEF SavedTrie

\* when close() ends the header leads to the index of the session, if it has keys
LEMMA SavedIndex ==
  ASSUME TypeInv, OwnedInv, SaveStartEntries, crashes = 0
  PROVE  /\ \A k : Get(CurrentIndex', k) = Get(index, k)
         /\ KeysOf(CurrentIndex') = KeysOf(index)
         /\ Owns(entries, index, {indexOffset} \ {NoOffset})
         /\ SavedTrie' = index.trie \/ (KeysOf(index) = {} /\ SavedTrie' = EmptyTrie)
         /\ KeysOf(index) # {} => IsIndex(indexOffset)
<1>1. /\ session \in {"open", "created"} /\ session' = "closed"
      /\ header' = indexOffset /\ entries' = entries
      /\ session = "open" => ~index.changed
  BY DEF SaveStartEntries, Forgotten
<1>2. CurrentIndex = index /\ CurrentIndexOffset = {indexOffset} \ {NoOffset}
  BY <1>1 DEF CurrentIndex, CurrentIndexOffset
<1>3. CurrentIndex' = [trie |-> SavedTrie', changed |-> FALSE]
  BY <1>1 DEF CurrentIndex
<1>4. CASE IndexIsIn(indexOffset)
  <2>1. SavedTrie' = index.trie /\ IsIndex(indexOffset)
    BY <1>1, <1>4 DEF SavedTrie, IndexIsIn, IsIndex, IsEntry
  <2>2. CurrentIndex'.trie = index.trie
    BY <1>3, <2>1
  <2>3. /\ \A k : Get(CurrentIndex', k) = Get(index, k)
        /\ KeysOf(CurrentIndex') = KeysOf(index)
    BY <2>2 DEF Get, KeysOf
  <2> QED BY <1>2, <2>1, <2>3 DEF OwnedInv
<1>5. CASE indexOffset = NoOffset /\ KeysOf(index) = {}
  <2>1. ~IsIndex(indexOffset)
    BY <1>5, PVManagerAssumption DEF IsIndex, IsEntry, TypeInv, EntriesTyped, PVManagerAssumption
  <2>2. SavedTrie' = EmptyTrie
    BY <1>1, <2>1 DEF SavedTrie, IsIndex, IsEntry
  <2>3. CurrentIndex' = NewIndex
    BY <1>3, <2>2 DEF NewIndex
  <2>4. IsTrie(index.trie) /\ IsTrie(NewIndex.trie) /\ KeysOf(NewIndex) = {}
    BY EmptyIsVolumeIndex DEF TypeInv, IsVolumeIndex, NewIndex
  <2>5. \A k : Get(NewIndex, k) = NonExistLeaf /\ Get(index, k) = NonExistLeaf
    BY <1>5, <2>4, KeysHaveLeaves
  <2> QED BY <1>2, <1>5, <2>2, <2>3, <2>4, <2>5 DEF OwnedInv
<1> QED BY <1>1, <1>4, <1>5 DEF OwnedInv

LEMMA SaveOwned ==
  ASSUME TypeInv, OwnedInv, SaveStartEntries
  PROVE  OwnedInv'
<1> SUFFICES ASSUME crashes = 0 PROVE OwnedInv'
  BY DEF OwnedInv, SaveStartEntries
<1>1. session' = "closed" /\ header' = indexOffset /\ entries' = entries
  BY DEF SaveStartEntries, Forgotten
<1>2. CurrentIndexOffset' = {indexOffset} \ {NoOffset}
  BY <1>1 DEF CurrentIndexOffset
<1>3. PICK own : own = {indexOffset} \ {NoOffset}
  OBVIOUS
<1>4. Owns(entries, CurrentIndex', own)
  BY <1>3, SavedIndex, OwnsRedated
<1> QED BY <1>1, <1>2, <1>3, <1>4 DEF OwnedInv

LEMMA LoadOwned ==
  ASSUME TypeInv, OwnedInv, Load
  PROVE  OwnedInv'
<1> SUFFICES ASSUME crashes = 0 PROVE OwnedInv'
  BY DEF OwnedInv, Load
<1>1. /\ session = "closed" /\ session' = "open" /\ IsIndex(header)
      /\ index' = [trie |-> SavedTrie, changed |-> FALSE]
      /\ indexOffset' = header /\ entries' = entries /\ header' = header
  BY DEF Load, SavedTrie
<1>2. CurrentIndex = index' /\ CurrentIndex' = index'
  BY <1>1 DEF CurrentIndex
<1>3. CurrentIndexOffset' = CurrentIndexOffset
  BY <1>1 DEF CurrentIndexOffset
<1>4. header # NoOffset
  BY <1>1, PVManagerAssumption DEF IsIndex, IsEntry, TypeInv, EntriesTyped, PVManagerAssumption
<1>5. IndexIsIn(indexOffset)'
  BY <1>1 DEF IndexIsIn, SavedTrie, IsIndex, IsEntry
<1> QED BY <1>1, <1>2, <1>3, <1>4, <1>5 DEF OwnedInv

LEMMA OwnedStep ==
  NoBlobIsAnIndex =>
    (TypeInv /\ OwnedInv /\ [Next \/ Crash \/ DeviceFails]_vars => OwnedInv')
<1> SUFFICES ASSUME NoBlobIsAnIndex, TypeInv, OwnedInv, [Next \/ Crash \/ DeviceFails]_vars
             PROVE  OwnedInv'
  OBVIOUS
<1> USE DEF CurrentIndex, CurrentIndexOffset, SavedTrie, IndexIsIn, IsIndex, IsEntry
<1>1. CASE Tick
  BY <1>1 DEF Tick, OwnedInv
<1>2. CASE UNCHANGED vars
  BY <1>2 DEF vars, OwnedInv
<1>3. CASE Crash
  <2>1. crashes' # 0
    BY <1>3 DEF Crash, TypeInv
  <2> QED BY <2>1 DEF OwnedInv
<1>4. CASE DeviceFails
  <2>1. crashes' # 0
    BY <1>4, FailureEffects DEF TypeInv
  <2> QED BY <2>1 DEF OwnedInv
<1> QED BY <1>1, <1>2, <1>3, <1>4, CallOwned, DeleteOldIndexOwned, CreateNewIndexOwned,
        SaveOwned, LoadOwned DEF Next

LEMMA OwnedAlways == NoBlobIsAnIndex => (CrashSpec => []OwnedInv)
<1> SUFFICES ASSUME NoBlobIsAnIndex PROVE CrashSpec => []OwnedInv
  OBVIOUS
<1>1. TypeInv /\ OwnedInv /\ [Next \/ Crash \/ DeviceFails]_vars => OwnedInv'
  BY OwnedStep
<1> QED BY <1>1, InitialOwned, TypesAlways, PTL DEF CrashSpec

\* a volume of Spec has no crashes and no failures
NothingFailed == crashes = 0 /\ ~failed

LEMMA NothingFails == Spec => []NothingFailed
<1>1. Init => NothingFailed
  BY DEF Init, NothingFailed
<1>2. NothingFailed /\ [Next]_vars => NothingFailed'
  BY CallEffects DEF Next, Tick, DeleteOldIndex, CreateNewIndex, SaveStartEntries, Load, vars,
     NothingFailed
<1> QED BY <1>1, <1>2, PTL DEF Spec

\* Whatever the keys but the empty one, which has no node for its offset, and whatever
\* the values but serialized indexes: an entry of a volume belongs to one key or is
\* the index, and no key's entry is freed or overwritten with another's, by the calls,
\* by the deletions of expired values, or by any number of sessions.
THEOREM NoEntryIsLost ==
  NoBlobIsAnIndex /\ <<>> \notin Keys => (Spec => []EntriesAreOwned)
<1> SUFFICES ASSUME NoBlobIsAnIndex, <<>> \notin Keys PROVE Spec => []EntriesAreOwned
  OBVIOUS
<1>1. OwnedInv /\ NothingFailed => EntriesAreOwned
  <2> SUFFICES ASSUME OwnedInv, crashes = 0 PROVE EntriesAreOwned
    BY DEF NothingFailed
  <2> DEFINE current == CurrentIndex
             own == CurrentIndexOffset
             offsets == {Get(current, k) : k \in KeysOf(current)}
  <2>1. Owns(entries, current, own)
    BY DEF OwnedInv
  <2> HIDE DEF current, own
  <2>2. \A k, l \in KeysOf(current) : k # l => Get(current, k) # Get(current, l)
    BY <2>1 DEF Owns
  <2>3. DOMAIN entries = offsets \cup own /\ offsets \cap own = {}
    BY <2>1 DEF Owns, IndexEntries
  <2>4. \A o \in DOMAIN entries : IsIndex(o) <=> o \in own
    BY <2>1, IndexEntriesAreIndexes DEF Owns
  <2> QED BY <2>2, <2>3, <2>4 DEF EntriesAreOwned, current, own
<1>2. CrashSpec => []OwnedInv
  BY OwnedAlways
<1> QED BY <1>1, <1>2, NoCrashIsNeeded, NothingFails, PTL

(***************************************************************************)
(* What was kept stays.                                                    *)
(***************************************************************************)
LEMMA InitialKept == Init => KeptInv
BY DEF Init, KeptInv

\* a key that is kept stays so while its entry and that of the index do
LEMMA KeptOn ==
  ASSUME NEW k, k \in DOMAIN kept, IsKept(k), header' = header, kept'[k] = kept[k],
         \A o \in {header, SavedTrie[k]} :
           o \in DOMAIN entries' /\ entries'[o] = entries[o] /\ o \in DOMAIN durable',
         \/ session' = "closed"
         \/ /\ session' = "open" /\ indexOffset' = header
            /\ LeadsTo(index'.trie, k, header, SavedTrie)
  PROVE  IsKept(k)' /\ SavedTrie' = SavedTrie
<1>1. IsIndex(header) /\ IsIndex(header)' /\ entries'[header] = entries[header]
  BY DEF IsKept, IsIndex, IsEntry
<1>2. SavedTrie' = SavedTrie
  BY <1>1 DEF SavedTrie
<1>3. IsEntry(SavedTrie[k])' /\ entries'[SavedTrie[k]] = entries[SavedTrie[k]]
  BY <1>2 DEF IsEntry
<1> QED BY <1>1, <1>2, <1>3 DEF IsKept

\* the entries of what is kept are not those that an operation creates or deletes
LEMMA OutOfReach ==
  ASSUME TypeInv, NEW k \in DOMAIN kept, IsKept(k)
  PROVE  /\ \A offset : \A entry :
              CreateEntry(offset, entry) => offset # header /\ offset # SavedTrie[k]
         /\ session = "open" =>
              \A key : Found(key) /\ key # k => Offset(key) # header /\ Offset(key) # SavedTrie[k]
         /\ k # <<>> /\ header \in DOMAIN entries /\ SavedTrie[k] \in DOMAIN entries
         /\ header # NonExistLeaf /\ SavedTrie[k] # NonExistLeaf
<1>1. /\ header \in DOMAIN entries /\ header \in DOMAIN durable
      /\ SavedTrie[k] \in DOMAIN entries /\ SavedTrie[k] \in DOMAIN durable
  BY DEF IsKept, IsIndex, IsEntry
<1>2. header \in Offsets /\ SavedTrie[k] \in Offsets
  BY <1>1 DEF TypeInv, EntriesTyped
<1>3. header # NonExistLeaf /\ SavedTrie[k] # NonExistLeaf
  BY <1>2, PVManagerAssumption DEF PVManagerAssumption
<1>4. k # <<>>
  BY <1>3, SavedTrieType DEF TypeInv, IsVolumeIndex, IsTrie
<1>5. ASSUME NEW offset, NEW entry, CreateEntry(offset, entry)
      PROVE  offset # header /\ offset # SavedTrie[k]
  BY <1>1, <1>5, Created DEF FreeOffsets
<1>6. ASSUME session = "open", NEW key, Found(key), key # k
      PROVE  Offset(key) # header /\ Offset(key) # SavedTrie[k]
  <2>1. Offset(key) = index.trie[key] /\ key \in DOMAIN index.trie
    BY <1>6, FoundKeys DEF KeysOf
  <2> QED BY <1>6, <2>1 DEF IsKept, LeadsTo
<1> QED BY <1>1, <1>3, <1>4, <1>5, <1>6

\* the effects on the index of an open session
LEMMA LeadsToAfterInsert ==
  ASSUME TypeInv, NEW k \in DOMAIN kept, IsKept(k), session = "open",
         NEW key \in Keys, ~HasKey(index, key), NEW offset \in Offsets,
         offset # header, offset # SavedTrie[k], index' = Insert(index, key, offset)
  PROVE  LeadsTo(index'.trie, k, header, SavedTrie)
<1>1. LeadsTo(index.trie, k, header, SavedTrie)
  BY DEF IsKept
<1>2. /\ k # <<>> /\ header # NonExistLeaf /\ SavedTrie[k] # NonExistLeaf
  BY OutOfReach
<1>3. CASE key = <<>>
  BY <1>1, <1>3, Inserted DEF TypeInv
<1>4. CASE key # <<>>
  <2>1. key # k
    BY <1>1, <1>2 DEF HasKey, Get, LeadsTo
  <2>2. /\ DOMAIN index.trie \subseteq DOMAIN index'.trie
        /\ \A p \in DOMAIN index'.trie :
             index'.trie[p] = IF p = key THEN offset
                              ELSE IF p \in DOMAIN index.trie THEN index.trie[p]
                              ELSE NonExistLeaf
    BY <1>4, Inserted DEF TypeInv
  <2> QED BY <1>1, <1>2, <2>1, <2>2 DEF LeadsTo
<1> QED BY <1>3, <1>4

LEMMA LeadsToAfterDelete ==
  ASSUME TypeInv, NEW k \in DOMAIN kept, IsKept(k), session = "open",
         NEW key, key # k, Found(key), index' = Delete(index, key)
  PROVE  LeadsTo(index'.trie, k, header, SavedTrie)
<1>1. LeadsTo(index.trie, k, header, SavedTrie)
  BY DEF IsKept
<1>2. /\ k # <<>> /\ header # NonExistLeaf /\ SavedTrie[k] # NonExistLeaf
  BY OutOfReach
<1>3. /\ DOMAIN index'.trie = DOMAIN index.trie
      /\ \A p \in DOMAIN index'.trie :
           index'.trie[p] = IF p = key THEN NonExistLeaf ELSE index.trie[p]
  BY FoundKeys, Removed DEF TypeInv
<1> QED BY <1>1, <1>2, <1>3 DEF LeadsTo

\* What an operation that does something to one entry leaves of those that are kept.
LEMMA OthersStay ==
  ASSUME TypeInv, NEW key, NEW k \in DOMAIN kept, IsKept(k), session = "open",
         \/ UNCHANGED <<entries, durable>>
         \/ UNCHANGED durable /\ \E offset, entry : CreateEntry(offset, entry)
         \/ key # k /\ Reaches(key) /\ DeleteEntry(Offset(key))
         \/ key # k /\ Reaches(key) /\ \E date : SetEntryExpiredDate(Offset(key), date)
  PROVE  \A o \in {header, SavedTrie[k]} :
           o \in DOMAIN entries' /\ entries'[o] = entries[o] /\ o \in DOMAIN durable'
<1>1. /\ header \in DOMAIN entries /\ header \in DOMAIN durable
      /\ SavedTrie[k] \in DOMAIN entries /\ SavedTrie[k] \in DOMAIN durable
  BY DEF IsKept, IsIndex, IsEntry
<1>2. CASE UNCHANGED <<entries, durable>>
  BY <1>1, <1>2
<1>3. ASSUME UNCHANGED durable, NEW offset, NEW entry, CreateEntry(offset, entry)
      PROVE  \A o \in {header, SavedTrie[k]} :
               o \in DOMAIN entries' /\ entries'[o] = entries[o] /\ o \in DOMAIN durable'
  BY <1>1, <1>3, Created, OutOfReach
<1>4. CASE key # k /\ Reaches(key) /\ DeleteEntry(Offset(key))
  <2>1. Offset(key) # header /\ Offset(key) # SavedTrie[k]
    BY <1>4, OutOfReach DEF Reaches
  <2> QED BY <1>1, <1>4, <2>1, Deleted
<1>5. ASSUME key # k, Reaches(key), NEW date, SetEntryExpiredDate(Offset(key), date)
      PROVE  \A o \in {header, SavedTrie[k]} :
               o \in DOMAIN entries' /\ entries'[o] = entries[o] /\ o \in DOMAIN durable'
  <2>1. Offset(key) # header /\ Offset(key) # SavedTrie[k]
    BY <1>5, OutOfReach DEF Reaches
  <2>2. /\ DOMAIN entries' = DOMAIN entries /\ DOMAIN durable' = DOMAIN durable
        /\ \A o \in DOMAIN entries \ {Offset(key)} : entries'[o] = entries[o]
    BY <1>5, Redated DEF Reaches, IsEntry, TypeInv
  <2> QED BY <1>1, <2>1, <2>2
<1> QED BY <1>2, <1>3, <1>4, <1>5

LEMMA CallKept ==
  ASSUME TypeInv, KeptInv, Call
  PROVE  KeptInv'
<1>1. /\ session = "open" /\ session' = "open"
      /\ header' = header /\ indexOffset' = indexOffset
  BY CallEffects
<1>2. SUFFICES ASSUME NEW k \in DOMAIN kept' PROVE IsKept(k)'
  BY DEF KeptInv
<1>3. PICK key : NoEffect \/ (key \in Keys /\ (Puts(key) \/ Erases(key) \/ Redates(key)))
  BY CallEffects
<1>4. k \in DOMAIN kept /\ kept'[k] = kept[k]
  BY <1>3 DEF NoEffect, Puts, Erases, Erase, Redates, Without
<1>5. Erases(key) \/ Redates(key) => key # k
  BY DEF Erases, Erase, Redates, Without
<1>6. IsKept(k) /\ indexOffset' = header /\ LeadsTo(index.trie, k, header, SavedTrie)
  BY <1>1, <1>4 DEF KeptInv, IsKept
<1>7. ASSUME Puts(key), key \in Keys
      PROVE  /\ \E offset, entry : CreateEntry(offset, entry)
             /\ LeadsTo(index'.trie, k, header, SavedTrie)
  <2>1. PICK offset \in Offsets : \E value \in Values :
          CreateUserEntry(offset, value) /\ index' = Insert(index, key, offset)
    BY <1>7 DEF Puts
  <2>2. PICK entry : CreateEntry(offset, entry)
    BY <2>1 DEF CreateUserEntry
  <2>3. offset # header /\ offset # SavedTrie[k]
    BY <1>4, <1>6, <2>2, OutOfReach
  <2> QED BY <1>1, <1>4, <1>6, <1>7, <2>1, <2>2, <2>3, LeadsToAfterInsert DEF Puts
<1>8. LeadsTo(index'.trie, k, header, SavedTrie)
  <2>1. CASE NoEffect \/ Redates(key)
    BY <1>6, <2>1 DEF NoEffect, Redates
  <2>2. CASE Erases(key)
    BY <1>1, <1>4, <1>5, <1>6, <2>2, LeadsToAfterDelete DEF Erases, Erase, Reaches
  <2> QED BY <1>3, <1>7, <2>1, <2>2
<1>9. \A o \in {header, SavedTrie[k]} :
        o \in DOMAIN entries' /\ entries'[o] = entries[o] /\ o \in DOMAIN durable'
  <2>1. \/ UNCHANGED <<entries, durable>>
        \/ UNCHANGED durable /\ \E offset, entry : CreateEntry(offset, entry)
        \/ key # k /\ Reaches(key) /\ DeleteEntry(Offset(key))
        \/ key # k /\ Reaches(key) /\ \E date : SetEntryExpiredDate(Offset(key), date)
    BY <1>3, <1>5, <1>7 DEF NoEffect, Puts, Erases, Erase, Redates
  <2> QED BY <1>1, <1>4, <1>6, <2>1, OthersStay
<1> QED BY <1>1, <1>4, <1>6, <1>8, <1>9, KeptOn

LEMMA FailureKept ==
  ASSUME TypeInv, KeptInv, DeviceFails
  PROVE  KeptInv'
<1>1. /\ session = "open" /\ session' = "open"
      /\ header' = header /\ indexOffset' = indexOffset
  BY FailureEffects
<1>2. SUFFICES ASSUME NEW k \in DOMAIN kept' PROVE IsKept(k)'
  BY DEF KeptInv
<1>3. PICK key : LosesNothing(key) \/ LosesNew(key) \/ LosesOld(key) \/ Redates(key)
  BY FailureEffects
<1>4. k \in DOMAIN kept /\ kept'[k] = kept[k] /\ index' = index /\ key # k
  BY <1>3 DEF LosesNothing, LosesNew, LosesOld, Redates, Without
<1>5. IsKept(k) /\ indexOffset' = header /\ LeadsTo(index'.trie, k, header, SavedTrie)
  BY <1>1, <1>4 DEF KeptInv, IsKept
<1>6. \/ UNCHANGED <<entries, durable>>
      \/ UNCHANGED durable /\ \E offset, entry : CreateEntry(offset, entry)
      \/ key # k /\ Reaches(key) /\ DeleteEntry(Offset(key))
      \/ key # k /\ Reaches(key) /\ \E date : SetEntryExpiredDate(Offset(key), date)
  BY <1>3, <1>4 DEF LosesNothing, LosesNew, LosesOld, Redates, CreateUserEntry
<1>7. \A o \in {header, SavedTrie[k]} :
        o \in DOMAIN entries' /\ entries'[o] = entries[o] /\ o \in DOMAIN durable'
  BY <1>1, <1>4, <1>5, <1>6, OthersStay
<1> QED BY <1>1, <1>4, <1>5, <1>7, KeptOn

LEMMA SaveKept ==
  ASSUME TypeInv, OwnedInv, SaveStartEntries
  PROVE  KeptInv'
<1> SUFFICES ASSUME NEW k \in DOMAIN kept' PROVE IsKept(k)'
  BY DEF KeptInv
<1>1. header' = indexOffset /\ entries' = entries /\ session' = "closed" /\ crashes' = crashes
  BY DEF SaveStartEntries, Forgotten
<1>2. /\ crashes = 0 /\ durable' = entries
      /\ kept' = [l \in KeysOf(index) |-> entries[Get(index, l)]]
  BY DEF SaveStartEntries, Saved
<1>3. k \in KeysOf(index) /\ kept'[k] = entries[Get(index, k)]
  BY <1>2
<1>4. /\ SavedTrie' = index.trie /\ IsIndex(indexOffset)
      /\ Owns(entries, index, {indexOffset} \ {NoOffset})
  BY <1>2, <1>3, SavedIndex
<1>5. indexOffset \in DOMAIN entries /\ indexOffset # NoOffset /\ indexOffset # NonExistLeaf
  BY <1>4, PVManagerAssumption DEF IsIndex, IsEntry, TypeInv, EntriesTyped, PVManagerAssumption
<1>6. /\ IsTrie(index.trie)
      /\ \A l \in KeysOf(index) : Get(index, l) = index.trie[l] /\ index.trie[l] # NonExistLeaf
  BY KeysHaveLeaves DEF TypeInv, IsVolumeIndex, KeysOf
<1>7. index.trie[k] \in DOMAIN entries
  BY <1>3, <1>4, <1>6 DEF Owns
<1>8. ASSUME NEW l \in DOMAIN index.trie
      PROVE  index.trie[l] # indexOffset /\ (l # k => index.trie[l] # index.trie[k])
  <2>1. CASE l \in KeysOf(index)
    BY <1>3, <1>4, <1>5, <1>6, <2>1 DEF Owns
  <2>2. CASE l \notin KeysOf(index)
    BY <1>3, <1>5, <1>6, <2>2 DEF KeysOf
  <2> QED BY <2>1, <2>2
<1>9. LeadsTo(index.trie, k, indexOffset, index.trie)
  BY <1>3, <1>8 DEF LeadsTo, KeysOf
<1>10. IsIndex(header)'
  BY <1>1, <1>4 DEF IsIndex, IsEntry
<1>11. kept'[k] = entries'[index.trie[k]]
  BY <1>1, <1>3, <1>6
<1> QED BY <1>1, <1>2, <1>4, <1>5, <1>7, <1>9, <1>10, <1>11 DEF IsKept, IsEntry

LEMMA KeptStep ==
  TypeInv /\ OwnedInv /\ KeptInv /\ [Next \/ Crash \/ DeviceFails]_vars => KeptInv'
<1> SUFFICES ASSUME TypeInv, OwnedInv, KeptInv, [Next \/ Crash \/ DeviceFails]_vars
             PROVE  KeptInv'
  OBVIOUS
<1> USE DEF KeptInv, IsKept, SavedTrie, IsIndex, IsEntry
<1>1. CASE Tick
  BY <1>1 DEF Tick
<1>2. CASE UNCHANGED vars
  BY <1>2 DEF vars
<1>3. CASE DeleteOldIndex
  BY <1>3 DEF DeleteOldIndex
<1>4. CASE CreateNewIndex
  <2>1. DOMAIN kept = {}
    BY <1>4 DEF CreateNewIndex
  <2> QED BY <1>4, <2>1 DEF CreateNewIndex
<1>5. CASE Load
  BY <1>5 DEF Load
<1>6. CASE Crash
  BY <1>6 DEF Crash, Forgotten
<1> QED BY <1>1, <1>2, <1>3, <1>4, <1>5, <1>6, CallKept, SaveKept, FailureKept DEF Next

\* Whatever the values but serialized indexes: a key that was in the storage at the end
\* of the last completed session and was not touched since is found, with its value and
\* its date, from the header of the volume on, in whatever call, or between whatever
\* calls, the sessions after it crash, and however often.
THEOREM KeysOutliveCrashes == NoBlobIsAnIndex => (CrashSpec => []KeysSurvive)
<1> SUFFICES ASSUME NoBlobIsAnIndex PROVE CrashSpec => []KeysSurvive
  OBVIOUS
<1>1. KeptInv => KeysSurvive
  BY DEF KeptInv, IsKept, KeysSurvive, LeadsTo
<1>2. TypeInv /\ OwnedInv /\ KeptInv /\ [Next \/ Crash \/ DeviceFails]_vars => KeptInv'
  BY KeptStep
<1>3. CrashSpec => []OwnedInv
  BY OwnedAlways
<1> QED BY <1>1, <1>2, <1>3, InitialKept, TypesAlways, PTL DEF CrashSpec

(***************************************************************************)
(* A volume of numbers is a key-value store.                               *)
(***************************************************************************)
\* what is stored, as the caller sees it: of what the entries of the keys have
Seen(entry) == [value |-> UserValue(entry.value), expires |-> StoredTime(entry.expires)]
StoreOf(ents, idx) == [k \in KeysOf(idx) |-> Seen(ents[Get(idx, k)])]

\* while a volume is closed the keys that are kept are those of its index
ClosedInv ==
  crashes = 0 /\ session = "closed" =>
    /\ KeysOf(CurrentIndex) = DOMAIN kept
    /\ \A k \in DOMAIN kept : entries[Get(CurrentIndex, k)] = kept[k]

LEMMA ClosedStep == TypeInv /\ OwnedInv /\ ClosedInv /\ [Next]_vars => ClosedInv'
<1> SUFFICES ASSUME TypeInv, OwnedInv, ClosedInv, [Next]_vars, crashes' = 0, session' = "closed"
             PROVE  /\ KeysOf(CurrentIndex') = DOMAIN kept'
                    /\ \A k \in DOMAIN kept' : entries'[Get(CurrentIndex', k)] = kept'[k]
  BY DEF ClosedInv
<1>1. CASE SaveStartEntries
  <2>1. /\ crashes = 0 /\ entries' = entries
        /\ kept' = [k \in KeysOf(index) |-> entries[Get(index, k)]]
    BY <1>1 DEF SaveStartEntries, Saved
  <2>2. /\ KeysOf(CurrentIndex') = KeysOf(index)
        /\ \A k : Get(CurrentIndex', k) = Get(index, k)
    BY <1>1, <2>1, SavedIndex
  <2> QED BY <2>1, <2>2
<1>2. CASE Tick \/ UNCHANGED vars
  BY <1>2 DEF Tick, vars, ClosedInv, CurrentIndex, SavedTrie, IsIndex, IsEntry
<1>3. ~Call
  BY CallEffects
<1> QED BY <1>1, <1>2, <1>3 DEF Next, DeleteOldIndex, CreateNewIndex, Load

LEMMA StoredWhileOpen ==
  /\ session # "closed" => StoredKeys = StoreOf(entries, index)
  /\ session' # "closed" => StoredKeys' = StoreOf(entries', index')
BY DEF StoredKeys, StoreOf, Seen

LEMMA StoredWhileClosed ==
  /\ session = "closed" => StoredKeys = [k \in DOMAIN kept |-> Seen(kept[k])]
  /\ session' = "closed" => StoredKeys' = [k \in DOMAIN kept' |-> Seen(kept'[k])]
BY DEF StoredKeys, Seen

LEMMA SameStore ==
  ASSUME NEW e, NEW f, NEW idx, NEW new, KeysOf(new) = KeysOf(idx),
         \A k \in KeysOf(idx) : f[Get(new, k)] = e[Get(idx, k)]
  PROVE  StoreOf(f, new) = StoreOf(e, idx)
BY DEF StoreOf

\* close() and Load change nothing of what is stored
LEMMA SessionsKeepTheStore ==
  ASSUME TypeInv, OwnedInv, ClosedInv, crashes = 0,
         DeleteOldIndex \/ CreateNewIndex \/ SaveStartEntries \/ Load
  PROVE  StoredKeys' = StoredKeys
<1>1. CASE DeleteOldIndex
  <2>1. session = "open" /\ session' = "deleted" /\ index' = index
    BY <1>1 DEF DeleteOldIndex
  <2>2. Owns(entries, index, {indexOffset} \ {NoOffset})
    BY <2>1 DEF OwnedInv, CurrentIndex, CurrentIndexOffset
  <2>3. \A k \in KeysOf(index) : entries'[Get(index, k)] = entries[Get(index, k)]
    <3>1. CASE indexOffset = NoOffset
      BY <1>1, <3>1 DEF DeleteOldIndex
    <3>2. CASE indexOffset # NoOffset
      <4>1. DeleteEntry(indexOffset)
        BY <1>1, <3>2 DEF DeleteOldIndex
      <4>2. \A k \in KeysOf(index) : Get(index, k) \in DOMAIN entries \ {indexOffset}
        BY <2>2, <3>2 DEF Owns
      <4> QED BY <4>1, <4>2, Deleted
    <3> QED BY <3>1, <3>2
  <2>4. StoreOf(entries', index) = StoreOf(entries, index)
    BY <2>3, SameStore
  <2>5. StoredKeys = StoreOf(entries, index)
    BY <2>1, StoredWhileOpen
  <2>6. StoredKeys' = StoreOf(entries', index')
    BY <2>1, StoredWhileOpen
  <2> QED BY <2>1, <2>4, <2>5, <2>6
<1>2. CASE CreateNewIndex
  <2>1. session = "deleted" /\ session' = "created" /\ index' = index
    BY <1>2 DEF CreateNewIndex
  <2>2. PICK offset : CreateEntry(offset, SerializedIndex)
    BY <1>2 DEF CreateNewIndex
  <2>3. \A k \in KeysOf(index) : Get(index, k) \in DOMAIN entries
    BY <2>1 DEF OwnedInv, Owns, CurrentIndex
  <2>4. \A k \in KeysOf(index) : entries'[Get(index, k)] = entries[Get(index, k)]
    BY <2>2, <2>3, Created, CreatedApart
  <2>5. StoreOf(entries', index) = StoreOf(entries, index)
    BY <2>4, SameStore
  <2> QED BY <2>1, <2>5, StoredWhileOpen
<1>3. CASE SaveStartEntries
  <2>1. /\ session # "closed" /\ session' = "closed"
        /\ kept' = [k \in KeysOf(index) |-> entries[Get(index, k)]]
    BY <1>3 DEF SaveStartEntries, Saved, Forgotten
  <2>2. StoredKeys' = [k \in DOMAIN kept' |-> Seen(kept'[k])]
    BY <2>1, StoredWhileClosed
  <2>3. StoredKeys = StoreOf(entries, index)
    BY <2>1, StoredWhileOpen
  <2> QED BY <2>1, <2>2, <2>3 DEF StoreOf
<1>4. CASE Load
  <2>1. /\ session = "closed" /\ session' = "open" /\ entries' = entries
        /\ index' = CurrentIndex
    BY <1>4 DEF Load, CurrentIndex, SavedTrie
  <2>2. /\ KeysOf(index') = DOMAIN kept
        /\ \A k \in DOMAIN kept : entries[Get(index', k)] = kept[k]
    BY <2>1 DEF ClosedInv
  <2>3. StoredKeys = [k \in DOMAIN kept |-> Seen(kept[k])]
    BY <2>1, StoredWhileClosed
  <2>4. StoredKeys' = StoreOf(entries', index')
    BY <2>1, StoredWhileOpen
  <2> QED BY <2>1, <2>2, <2>3, <2>4 DEF StoreOf
<1> QED BY <1>1, <1>2, <1>3, <1>4

\* A date is the time that its fields make up, and the other way round.
LEMMA TimeOfFields ==
  ASSUME NEW date \in DateFields
  PROVE  LET time == date.high * LowSize + date.low
         IN  /\ time \in 0 .. DateSize - 1 /\ StoredTime(date) = time
             /\ TimeOf(time) = date /\ ReturnedTime(time) = GetTime(date)
<1> DEFINE H == HighSize
           L == LowSize
           D == DateSize
           h == date.high
           a == date.low
           time == h * L + a
<1>1. H \in Nat /\ L \in Nat /\ L >= 1 /\ D = H * L /\ D \in Nat
  BY SizesOfFields, HighSizeAssumption
<1>2. h \in 0 .. H - 1 /\ a \in 0 .. L - 1 /\ date = [high |-> h, low |-> a]
  BY DEF DateFields
<1> HIDE DEF H, L, D, h, a
<1>3. h \in Nat /\ h < H /\ a \in Nat /\ H \in Nat
  BY <1>1, <1>2
<1>4. time \in Nat /\ time = L * h + a
  <2>1. h * L \in Nat /\ h * L = L * h
    BY <1>1, <1>3
  <2> QED BY <1>3, <2>1
<1>5. time < L * H /\ L * H = D
  <2>1. L * h + a < L * H + 0
    BY <1>1, <1>2, <1>3, UpperFieldDecides
  <2>2. L * H \in Nat /\ L * H = H * L
    BY <1>1
  <2> QED BY <1>1, <1>4, <2>1, <2>2
<1>6. time \in 0 .. D - 1
  BY <1>1, <1>4, <1>5
<1> HIDE DEF time
<1>7. PICK k \in Nat, b \in 0 .. L - 1 : TimeOf(time) = [high |-> k, low |-> b] /\ time = L * k + b
  BY <1>6, FieldsOfDate DEF L, D
<1>8. k = h /\ b = a
  <2>1. CASE k < h
    <3>1. L * k + b < L * h + a
      BY <1>1, <1>2, <1>3, <1>7, <2>1, UpperFieldDecides
    <3> QED BY <1>4, <1>7, <3>1
  <2>2. CASE h < k
    <3>1. L * h + a < L * k + b
      BY <1>1, <1>2, <1>3, <1>7, <2>2, UpperFieldDecides
    <3> QED BY <1>4, <1>7, <3>1
  <2>3. CASE h = k
    <3>1. L * h \in Nat /\ L * k = L * h
      BY <1>1, <1>3, <2>3
    <3> QED BY <1>2, <1>3, <1>4, <1>7, <2>3, <3>1
  <2> QED BY <1>3, <1>7, <2>1, <2>2, <2>3
<1>9. TimeOf(time) = date
  BY <1>2, <1>7, <1>8
<1>10. TimeOf(time) = [high |-> time \div LowSize, low |-> time % LowSize]
  BY <1>1, <1>6 DEF TimeOf, D
<1>11. ReturnedTime(time) = GetTime(date)
  BY <1>9, <1>10 DEF ReturnedTime
<1>12. StoredTime(date) = time
  BY PVManagerAssumption DEF StoredTime, PVManagerAssumption, DateFields, time, h, a, L
<1> QED BY <1>6, <1>9, <1>11, <1>12 DEF time, h, a, L, D

\* What is stored of a date that is set is what the store keeps of it.
LEMMA StoredDate ==
  ASSUME NEW date \in Int
  PROVE  StoredTime(TimeOf(date)) = KeptTime(date)
<1>1. CASE date \in 0 .. DateSize - 1
  <2> DEFINE L == LowSize
  <2>1. PICK h \in Nat, a \in 0 .. L - 1 : TimeOf(date) = [high |-> h, low |-> a] /\ date = L * h + a
    BY <1>1, FieldsOfDate
  <2>2. StoredTime(TimeOf(date)) = h * L + a
    <3>1. TimeOf(date) # NoDate
      BY DatesHaveFields, PVManagerAssumption DEF DateFields, PVManagerAssumption
    <3> QED BY <2>1, <3>1 DEF StoredTime
  <2>3. h * L = L * h
    BY SizesOfFields
  <2> QED BY <1>1, <2>1, <2>2, <2>3 DEF KeptTime
<1>2. CASE date \notin 0 .. DateSize - 1
  <2> DEFINE H == HighSize
             L == LowSize
  <2>1. TimeOf(date) = [high |-> H - 1, low |-> L - 1]
    BY <1>2, SizesOfFields DEF TimeOf, Forever
  <2>2. TimeOf(date) # NoDate
    BY DatesHaveFields, PVManagerAssumption DEF DateFields, PVManagerAssumption
  <2>3. StoredTime(TimeOf(date)) = (H - 1) * L + (L - 1)
    BY <2>1, <2>2 DEF StoredTime
  <2>4. H \in Nat /\ L \in Nat /\ DateSize = H * L
    BY SizesOfFields, HighSizeAssumption
  <2> HIDE DEF H, L
  <2>5. (H - 1) * L + (L - 1) = H * L - 1
    BY <2>4
  <2> QED BY <1>2, <2>3, <2>4, <2>5 DEF KeptTime
<1> QED BY <1>1, <1>2

\* A date has passed when its time has, as long as 48 bits hold the time.
LEMMA ExpiryOfDate ==
  ASSUME NEW date \in DateFields, NEW now \in 0 .. DateSize - 1
  PROVE  IsExpired(date, now) <=> StoredTime(date) < now
<1> DEFINE time == date.high * LowSize + date.low
<1>1. time \in 0 .. DateSize - 1 /\ StoredTime(date) = time /\ TimeOf(time) = date
  BY TimeOfFields
<1> HIDE DEF time
<1>2. Less(TimeOf(time), TimeOf(now)) <=> time < now
  BY <1>1, DatesOrderedLikeTimes
<1> QED BY <1>1, <1>2 DEF IsExpired

\* The value of a number's entry is the number.
LEMMA NumbersAreSeen ==
  ASSUME Values \subseteq Numbers, NEW value \in Values, NEW behind \in Behind
  PROVE  Seen([value |-> EntryOf(value, behind), expires |-> NoDate])
           = [value |-> value, expires |-> NoDate]
<1>1. UserValue(EntryOf(value, behind)) = value
  BY NumbersComeBack, PVManagerAssumption DEF PVManagerAssumption
<1> QED BY <1>1 DEF Seen, StoredTime

LEMMA NumbersAreNoBlobs == Values \subseteq Numbers => NoBlobIsAnIndex
<1> SUFFICES ASSUME Values \subseteq Numbers, NEW v \in Values, NEW trie, NEW place
             PROVE  v # [type |-> "kBlob", bytes |-> Serialize(trie, place)]
  BY DEF NoBlobIsAnIndex
<1>1. v.type # "kBlob"
  BY DEF Numbers, NumberTypes, Simple4Types, Simple8Types, ComplexTypes,
         OneByteTypes, TwoByteTypes, FourByteTypes, EightByteTypes
<1> QED BY <1>1

(***************************************************************************)
(* The calls, one by one: what they answer and leave is an outcome.        *)
(***************************************************************************)
\* A volume of numbers, open, before any failure and before 48 bits are too few.
AtWork ==
  /\ TypeInv /\ OwnedInv /\ crashes = 0 /\ ~failed /\ session = "open"
  /\ Values \subseteq Numbers /\ <<>> \notin Keys /\ MaxClock < DateSize

\* what the store has for a key is what the entry of the key has
LEMMA StoreFacts ==
  ASSUME AtWork
  PROVE  /\ StoredKeys = StoreOf(entries, index) /\ DOMAIN StoredKeys = KeysOf(index)
         /\ \A key : Found(key) <=> key \in DOMAIN StoredKeys
         /\ \A key \in DOMAIN StoredKeys :
              /\ Offset(key) \in DOMAIN entries
              /\ StoredKeys[key] = Seen(entries[Offset(key)])
<1>1. StoredKeys = StoreOf(entries, index)
  BY StoredWhileOpen DEF AtWork
<1>2. DOMAIN StoredKeys = KeysOf(index)
  BY <1>1 DEF StoreOf
<1>3. \A key : Found(key) <=> key \in KeysOf(index)
  BY KeysHaveLeaves DEF Found, Offset, AtWork, TypeInv, IsVolumeIndex
<1>4. Owns(entries, index, {indexOffset} \ {NoOffset})
  BY DEF AtWork, OwnedInv, CurrentIndex, CurrentIndexOffset
<1>5. \A key \in KeysOf(index) : Get(index, key) \in DOMAIN entries
  BY <1>4 DEF Owns
<1>6. \A key \in KeysOf(index) : StoredKeys[key] = Seen(entries[Get(index, key)])
  BY <1>1 DEF StoreOf
<1> QED BY <1>1, <1>2, <1>3, <1>5, <1>6 DEF Offset

LEMMA EntriesAreNumbers ==
  ASSUME AtWork, NEW key, Found(key)
  PROVE  /\ entries[Offset(key)].value.type \notin ComplexTypes
         /\ entries[Offset(key)].expires \in {NoDate} \cup DateFields
<1> DEFINE entry == entries[Offset(key)]
<1>1. key \in KeysOf(index) /\ Offset(key) \in DOMAIN entries
  BY StoreFacts
<1>2. IsEntryRecord(entry)
  BY <1>1 DEF AtWork, TypeInv, EntriesTyped
<1>3. Owns(entries, index, {indexOffset} \ {NoOffset})
  BY DEF AtWork, OwnedInv, CurrentIndex, CurrentIndexOffset
<1>4. Offset(key) \notin IndexEntries(entries)
  BY <1>1, <1>3 DEF Owns, Offset
<1>5. entry.value.type = "kBlob" => entry.value \in Values
  BY <1>1, <1>4 DEF IndexEntries
<1> HIDE DEF entry
<1>6. \A v \in Numbers : v.type \notin ComplexTypes /\ v.type # "kBlob"
  BY DEF Numbers, NumberTypes, Simple4Types, Simple8Types, ComplexTypes,
         OneByteTypes, TwoByteTypes, FourByteTypes, EightByteTypes
<1>7. ~IsIndexEntry(entry.value)
  BY <1>5, <1>6 DEF AtWork, IsIndexEntry
<1>8. PICK v \in Values : \E behind \in Behind : entry.value = EntryOf(v, behind)
  BY <1>2, <1>7 DEF IsEntryRecord, IsUserEntry
<1>9. v.type \notin ComplexTypes
  BY <1>6 DEF AtWork
<1>10. entry.value.type = v.type
  BY <1>8, <1>9 DEF EntryOf
<1> QED BY <1>2, <1>9, <1>10 DEF IsEntryRecord, entry

\* a call that is answered by one of the outcomes is a step of the store
LEMMA Performed ==
  ASSUME NEW call \in Volume!Calls, NEW outcome \in Volume!Outcomes(StoredKeys, clock, call),
         Answers(call.op, call.key, outcome.code, outcome.result),
         StoredKeys' = outcome.store, UNCHANGED clock
  PROVE  Volume!Next
<1>1. answer' = [call |-> call.op, key |-> call.key, code |-> outcome.code,
                 result |-> outcome.result]
  BY DEF Answers, Answer
<1>2. call \in Volume!Answered
  BY <1>1 DEF Volume!Answered
<1>3. Volume!Perform(call)
  BY <1>1 DEF Volume!Perform, Volume!Answer
<1> QED BY <1>2, <1>3 DEF Volume!Next

\* the same, by the name of the call
LEMMA PerformedAs ==
  ASSUME NEW key \in Keys, NEW op \in {"Get", "HasKey", "HasCatalog", "Delete", "GetExpiredDate"},
         NEW outcome \in Volume!Outcomes(StoredKeys, clock, Volume!Call(op, key, Nothing)),
         Answers(op, key, outcome.code, outcome.result),
         StoredKeys' = outcome.store, UNCHANGED clock
  PROVE  Volume!Next
<1> DEFINE call == Volume!Call(op, key, Nothing)
<1>1. call \in Volume!Calls /\ call.op = op /\ call.key = key
  BY DEF Volume!Calls, Volume!Call
<1> HIDE DEF call
<1> QED BY <1>1, Performed DEF call

LEMMA OutcomesByName ==
  ASSUME NEW s, NEW now, NEW key, NEW argument
  PROVE  /\ Volume!Outcomes(s, now, Volume!Call("Put", key, argument))
              = {Volume!PutOutcome(s, key, argument)}
         /\ Volume!Outcomes(s, now, Volume!Call("Get", key, argument))
              = {Volume!GetOutcome(s, key, now)}
         /\ Volume!Outcomes(s, now, Volume!Call("HasKey", key, argument))
              = {Volume!HasKeyOutcome(s, key, now)}
         /\ Volume!Outcomes(s, now, Volume!Call("HasCatalog", key, argument))
              = Volume!HasCatalogOutcomes(s, key)
         /\ Volume!Outcomes(s, now, Volume!Call("Delete", key, argument))
              = {Volume!DeleteOutcome(s, key)}
         /\ Volume!Outcomes(s, now, Volume!Call("SetExpiredDate", key, argument))
              = {Volume!SetExpiredDateOutcome(s, key, argument)}
         /\ Volume!Outcomes(s, now, Volume!Call("GetExpiredDate", key, argument))
              = {Volume!GetExpiredDateOutcome(s, key)}
BY DEF Volume!Outcomes, Volume!Call

\* What the effects of the calls are on the store.
LEMMA StoreAfterPut ==
  ASSUME AtWork, session' = "open", NEW key \in Keys, ~Found(key),
         NEW offset \in Offsets, NEW value \in Values,
         CreateUserEntry(offset, value), index' = Insert(index, key, offset)
  PROVE  StoredKeys' = Volume!With(StoredKeys, key, value)
<1>1. /\ StoredKeys = StoreOf(entries, index) /\ DOMAIN StoredKeys = KeysOf(index)
      /\ \A k \in DOMAIN StoredKeys : Get(index, k) \in DOMAIN entries
      /\ \A k \in DOMAIN StoredKeys : StoredKeys[k] = Seen(entries[Get(index, k)])
      /\ key \notin KeysOf(index)
  BY StoreFacts DEF Offset
<1>2. key # <<>>
  BY DEF AtWork
<1>3. /\ KeysOf(index') = KeysOf(index) \cup {key}
      /\ \A k : Get(index', k) = IF k = key THEN offset ELSE Get(index, k)
  BY <1>2, Inserted DEF AtWork, TypeInv
<1>4. PICK behind \in Behind : CreateEntry(offset, EntryOf(value, behind))
  BY DEF CreateUserEntry
<1>5. /\ offset \notin DOMAIN entries
      /\ entries'[offset] = [value |-> EntryOf(value, behind), expires |-> NoDate]
      /\ \A o \in DOMAIN entries : entries'[o] = entries[o]
  <2> DEFINE entry == EntryOf(value, behind)
  <2>1. CreateEntry(offset, entry) /\ crashes = 0
    BY <1>4 DEF AtWork
  <2> HIDE DEF entry
  <2>2. /\ offset \notin DOMAIN entries
        /\ entries'[offset] = [value |-> entry, expires |-> NoDate]
        /\ \A o \in DOMAIN entries \ {offset} : entries'[o] = entries[o]
    BY <2>1, Created, CreatedApart
  <2> QED BY <2>2 DEF entry
<1>6. Seen(entries'[offset]) = [value |-> value, expires |-> NoDate]
  BY <1>5, NumbersAreSeen DEF AtWork
<1>7. StoredKeys' = StoreOf(entries', index')
  BY StoredWhileOpen
<1>8. \A k \in KeysOf(index') :
        Seen(entries'[Get(index', k)])
          = IF k = key THEN [value |-> value, expires |-> NoDate] ELSE StoredKeys[k]
  BY <1>1, <1>3, <1>5, <1>6
<1>9. StoreOf(entries', index') = [k \in KeysOf(index) \cup {key} |->
        IF k = key THEN [value |-> value, expires |-> NoDate] ELSE StoredKeys[k]]
  BY <1>3, <1>8 DEF StoreOf
<1> QED BY <1>1, <1>7, <1>9 DEF Volume!With

LEMMA StoreAfterErase ==
  ASSUME AtWork, session' = "open", NEW key \in Keys, Reaches(key), Erase(key)
  PROVE  StoredKeys' = Volume!Without(StoredKeys, key)
<1>1. /\ StoredKeys = StoreOf(entries, index) /\ DOMAIN StoredKeys = KeysOf(index)
      /\ \A k \in DOMAIN StoredKeys : Get(index, k) \in DOMAIN entries
      /\ \A k \in DOMAIN StoredKeys : StoredKeys[k] = Seen(entries[Get(index, k)])
  BY StoreFacts DEF Offset
<1>2. DeleteEntry(Get(index, key)) /\ index' = Delete(index, key) /\ Found(key)
  BY DEF Erase, Reaches, Offset
<1>3. key \in KeysOf(index) /\ key # <<>> /\ key \in Path
  BY <1>2, FoundKeys DEF AtWork
<1>4. /\ KeysOf(index') = KeysOf(index) \ {key}
      /\ \A k \in KeysOf(index') : Get(index', k) = Get(index, k)
  BY <1>2, <1>3, Removed DEF AtWork, TypeInv
<1>5. \A k \in KeysOf(index') : Get(index, k) # Get(index, key)
  BY <1>3, <1>4 DEF AtWork, OwnedInv, Owns, CurrentIndex
<1>6. /\ DOMAIN entries' = DOMAIN entries \ {Get(index, key)}
      /\ \A o \in DOMAIN entries' : entries'[o] = entries[o]
  BY <1>2, Deleted
<1>7. StoredKeys' = StoreOf(entries', index')
  BY StoredWhileOpen
<1>8. \A k \in KeysOf(index') : Seen(entries'[Get(index', k)]) = StoredKeys[k]
  BY <1>1, <1>4, <1>5, <1>6
<1>9. StoreOf(entries', index') = [k \in KeysOf(index) \ {key} |-> StoredKeys[k]]
  BY <1>4, <1>8 DEF StoreOf
<1> QED BY <1>1, <1>7, <1>9 DEF Volume!Without

LEMMA StoreAfterRedate ==
  ASSUME AtWork, session' = "open", NEW key \in Keys, Reaches(key), NEW date \in Dates,
         SetEntryExpiredDate(Offset(key), TimeOf(date)), UNCHANGED index
  PROVE  StoredKeys' = [StoredKeys EXCEPT ![key].expires = KeptTime(date)]
<1> DEFINE fields == TimeOf(date)
           offset == Get(index, key)
<1>1. /\ StoredKeys = StoreOf(entries, index) /\ DOMAIN StoredKeys = KeysOf(index)
      /\ \A k \in DOMAIN StoredKeys : Get(index, k) \in DOMAIN entries
      /\ \A k \in DOMAIN StoredKeys : StoredKeys[k] = Seen(entries[Get(index, k)])
  BY StoreFacts DEF Offset
<1>2. key \in KeysOf(index)
  BY <1>1, StoreFacts DEF Reaches
<1>3. \A k \in KeysOf(index) : k # key => Get(index, k) # offset
  BY <1>2 DEF AtWork, OwnedInv, Owns, CurrentIndex
<1>4. SetEntryExpiredDate(offset, fields) /\ offset \in DOMAIN entries
  BY <1>1, <1>2 DEF Offset
<1>5. StoredTime(fields) = KeptTime(date)
  BY StoredDate, PVManagerAssumption DEF PVManagerAssumption
<1> HIDE DEF fields, offset
<1>6. /\ entries'[offset] = [value |-> entries[offset].value, expires |-> fields]
      /\ \A o \in DOMAIN entries \ {offset} : entries'[o] = entries[o]
  BY <1>4, Redated DEF AtWork, TypeInv
<1>7. Seen(entries'[offset]) = [Seen(entries[offset]) EXCEPT !.expires = KeptTime(date)]
  BY <1>5, <1>6 DEF Seen
<1>8. StoredKeys' = StoreOf(entries', index)
  BY StoredWhileOpen
<1>9. \A k \in KeysOf(index) :
        Seen(entries'[Get(index, k)])
          = IF k = key THEN [StoredKeys[key] EXCEPT !.expires = KeptTime(date)] ELSE StoredKeys[k]
  BY <1>1, <1>2, <1>3, <1>6, <1>7 DEF offset
<1>10. StoreOf(entries', index) = [k \in KeysOf(index) |->
         IF k = key THEN [StoredKeys[key] EXCEPT !.expires = KeptTime(date)] ELSE StoredKeys[k]]
  BY <1>9 DEF StoreOf
<1> QED BY <1>1, <1>8, <1>10

\* Calls that come to nothing: the key is not there, and nothing else goes wrong.
LEMMA NothingThrown ==
  ASSUME AtWork, NEW key
  PROVE  /\ \A call : ~Throws(call, key)
         /\ Reaches(key) <=> Found(key)
<1>1. Found(key) => IsEntry(Offset(key))
  BY StoreFacts DEF IsEntry
<1> QED BY <1>1 DEF AtWork, Throws, Reaches

LEMMA UnchangedStore ==
  ASSUME AtWork, session' = "open", UNCHANGED <<entries, index>>
  PROVE  StoredKeys' = StoredKeys
BY StoredWhileOpen DEF AtWork

LEMMA WithoutAbsent ==
  ASSUME AtWork, NEW key, ~Found(key)
  PROVE  Volume!Without(StoredKeys, key) = StoredKeys
<1>1. StoredKeys = StoreOf(entries, index) /\ key \notin KeysOf(index)
  BY StoreFacts
<1> QED BY <1>1 DEF Volume!Without, StoreOf

\* a value of the store has expired when its entry has
LEMMA ExpiredAlike ==
  ASSUME AtWork, NEW key, Found(key)
  PROVE  Volume!HasExpired(StoredKeys, key, clock) <=> IsEntryExpired(Offset(key))
<1> DEFINE date == entries[Offset(key)].expires
<1>1. StoredKeys[key] = Seen(entries[Offset(key)])
  BY StoreFacts
<1>2. StoredKeys[key].expires = StoredTime(date)
  BY <1>1 DEF Seen
<1>3. date \in {NoDate} \cup DateFields
  BY EntriesAreNumbers
<1>4. clock \in 0 .. DateSize - 1
  BY SizesOfFields, PVManagerAssumption DEF AtWork, TypeInv, PVManagerAssumption
<1> HIDE DEF date
<1>5. CASE date = NoDate
  BY <1>2, <1>5 DEF Volume!HasExpired, IsEntryExpired, StoredTime, date
<1>6. CASE date \in DateFields
  <2>1. StoredTime(date) \in Nat /\ StoredTime(date) # NoDate /\ date # NoDate
    BY <1>6, TimeOfFields, PVManagerAssumption DEF PVManagerAssumption, DateFields
  <2>2. IsExpired(date, clock) <=> StoredTime(date) < clock
    BY <1>4, <1>6, ExpiryOfDate
  <2> QED BY <1>2, <2>1, <2>2 DEF Volume!HasExpired, IsEntryExpired, date
<1> QED BY <1>3, <1>5, <1>6

LEMMA PutServes ==
  ASSUME AtWork, session' = "open", UNCHANGED clock, NEW key \in Keys, NEW value \in Values,
         PutKey(key, value)
  PROVE  Volume!Next
<1> DEFINE call == Volume!Call("Put", key, value)
           outcome == Volume!PutOutcome(StoredKeys, key, value)
<1>1. call \in Volume!Calls /\ call.op = "Put" /\ call.key = key
  BY DEF Volume!Calls, Volume!Call
<1>2. outcome \in Volume!Outcomes(StoredKeys, clock, call)
  BY OutcomesByName
<1>3. HasKey(index, key) <=> key \in DOMAIN StoredKeys
  BY StoreFacts DEF HasKey, Found, Offset
<1>4. CASE HasKey(index, key)
  <2>1. Answers("Put", key, "kKeyAlreadyCreated", Nothing) /\ UNCHANGED <<entries, index>>
    BY <1>4 DEF PutKey, Fails
  <2>2. StoredKeys' = StoredKeys
    BY <2>1, UnchangedStore
  <2>3. /\ outcome.code = "kKeyAlreadyCreated" /\ outcome.result = Nothing
        /\ outcome.store = StoredKeys
    BY <1>3, <1>4 DEF Volume!PutOutcome, Volume!IsStored, Volume!Failure, Volume!Outcome
  <2> HIDE DEF call, outcome
  <2> QED BY <1>1, <1>2, <2>1, <2>2, <2>3, Performed
<1>5. CASE ~HasKey(index, key)
  <2>1. /\ Answers("Put", key, "kSuccess", Nothing)
        /\ \E offset \in Offsets :
             CreateUserEntry(offset, value) /\ index' = Insert(index, key, offset)
    BY <1>5 DEF PutKey, AtWork
  <2>2. StoredKeys' = Volume!With(StoredKeys, key, value)
    BY <1>5, <2>1, StoreAfterPut DEF HasKey, Found, Offset
  <2>3. /\ outcome.code = "kSuccess" /\ outcome.result = Nothing
        /\ outcome.store = Volume!With(StoredKeys, key, value)
    BY <1>3, <1>5 DEF Volume!PutOutcome, Volume!IsStored, Volume!Success, Volume!Outcome
  <2> HIDE DEF call, outcome
  <2> QED BY <1>1, <1>2, <2>1, <2>2, <2>3, Performed
<1> QED BY <1>4, <1>5

\* a key that is not there, and one that has expired, are not found, and not kept
LEMMA NotFoundServes ==
  ASSUME AtWork, session' = "open", UNCHANGED clock, NEW key \in Keys,
         NEW op \in {"Get", "HasKey"}, NotStored(op, key) \/ Expires(op, key)
  PROVE  Volume!Next
<1> DEFINE outcome == Volume!Failure("kKeyNotFound", Volume!Without(StoredKeys, key))
<1>1. /\ outcome.code = "kKeyNotFound" /\ outcome.result = Nothing
      /\ outcome.store = Volume!Without(StoredKeys, key)
  BY DEF Volume!Failure, Volume!Outcome
<1>2. /\ Answers(op, key, "kKeyNotFound", Nothing)
      /\ StoredKeys' = Volume!Without(StoredKeys, key)
      /\ ~Volume!IsFound(StoredKeys, key, clock)
  <2>1. CASE NotStored(op, key)
    <3>1. ~Found(key) /\ Answers(op, key, "kKeyNotFound", Nothing) /\ UNCHANGED <<entries, index>>
      BY <2>1 DEF NotStored, Fails
    <3> QED BY <3>1, StoreFacts, UnchangedStore, WithoutAbsent DEF Volume!IsFound, Volume!IsStored
  <2>2. CASE Expires(op, key)
    <3>1. /\ Reaches(key) /\ IsEntryExpired(Offset(key)) /\ Erase(key)
          /\ Answers(op, key, "kKeyNotFound", Nothing)
      BY <2>2 DEF Expires
    <3>2. Volume!HasExpired(StoredKeys, key, clock)
      BY <3>1, ExpiredAlike DEF Reaches
    <3> QED BY <3>1, <3>2, StoreAfterErase DEF Volume!IsFound
  <2> QED BY <2>1, <2>2
<1>3. outcome \in Volume!Outcomes(StoredKeys, clock, Volume!Call(op, key, Nothing))
  <2>1. Volume!GetOutcome(StoredKeys, key, clock) = outcome
    BY <1>2 DEF Volume!GetOutcome
  <2>2. Volume!HasKeyOutcome(StoredKeys, key, clock) = outcome
    BY <1>2 DEF Volume!HasKeyOutcome
  <2> HIDE DEF outcome
  <2> QED BY <2>1, <2>2, OutcomesByName
<1> HIDE DEF outcome
<1> QED BY <1>1, <1>2, <1>3, PerformedAs

LEMMA FoundIsStored ==
  ASSUME AtWork, NEW key, Reaches(key), ~IsEntryExpired(Offset(key))
  PROVE  Volume!IsFound(StoredKeys, key, clock)
BY StoreFacts, ExpiredAlike DEF Volume!IsFound, Volume!IsStored, Reaches

LEMMA GetServes ==
  ASSUME AtWork, session' = "open", UNCHANGED clock, NEW key \in Keys, GetKey(key)
  PROVE  Volume!Next
<1>1. CASE NotStored("Get", key) \/ Expires("Get", key)
  BY <1>1, NotFoundServes
<1>2. CASE Reaches(key) /\ ~IsEntryExpired(Offset(key))
  <2> DEFINE value == UserValue(entries[Offset(key)].value)
             outcome == Volume!Success(StoredKeys[key].value, StoredKeys)
  <2>1. Found(key)
    BY <1>2 DEF Reaches
  <2>2. StoredKeys[key].value = value
    BY <2>1, StoreFacts DEF Seen
  <2>3. IsReadable(Offset(key))
    BY <2>1, EntriesAreNumbers DEF IsReadable
  <2>4. Answers("Get", key, "kSuccess", value) /\ UNCHANGED <<entries, index>>
    <3>1. ~NotStored("Get", key) /\ ~Throws("Get", key) /\ ~Expires("Get", key)
      BY <1>2, <2>1, NothingThrown DEF NotStored, Expires
    <3> QED BY <2>3, <3>1 DEF GetKey
  <2>5. outcome.code = "kSuccess" /\ outcome.result = value /\ outcome.store = StoredKeys
    BY <2>2 DEF Volume!Success, Volume!Outcome
  <2>6. Volume!GetOutcome(StoredKeys, key, clock) = outcome
    BY <1>2, FoundIsStored DEF Volume!GetOutcome
  <2>7. StoredKeys' = StoredKeys
    BY <2>4, UnchangedStore
  <2> HIDE DEF outcome, value
  <2>8. outcome \in Volume!Outcomes(StoredKeys, clock, Volume!Call("Get", key, Nothing))
    BY <2>6, OutcomesByName
  <2> QED BY <2>4, <2>5, <2>7, <2>8, PerformedAs
<1> QED BY <1>1, <1>2, NothingThrown DEF GetKey

LEMMA HasKeyServes ==
  ASSUME AtWork, session' = "open", UNCHANGED clock, NEW key \in Keys, HasKeyCall(key)
  PROVE  Volume!Next
<1>1. CASE NotStored("HasKey", key) \/ Expires("HasKey", key)
  BY <1>1, NotFoundServes
<1>2. CASE /\ Reaches(key) /\ ~IsEntryExpired(Offset(key))
           /\ Answers("HasKey", key, "kSuccess", Nothing) /\ UNCHANGED <<entries, index>>
  <2> DEFINE outcome == Volume!Success(Nothing, StoredKeys)
  <2>1. outcome.code = "kSuccess" /\ outcome.result = Nothing /\ outcome.store = StoredKeys
    BY DEF Volume!Success, Volume!Outcome
  <2>2. Volume!HasKeyOutcome(StoredKeys, key, clock) = outcome
    BY <1>2, FoundIsStored DEF Volume!HasKeyOutcome
  <2>3. StoredKeys' = StoredKeys
    BY <1>2, UnchangedStore
  <2> HIDE DEF outcome
  <2>4. outcome \in Volume!Outcomes(StoredKeys, clock, Volume!Call("HasKey", key, Nothing))
    BY <2>2, OutcomesByName
  <2> QED BY <1>2, <2>1, <2>3, <2>4, PerformedAs
<1> QED BY <1>1, <1>2, NothingThrown DEF HasKeyCall

LEMMA DeleteServes ==
  ASSUME AtWork, session' = "open", UNCHANGED clock, NEW key \in Keys, DeleteKey(key)
  PROVE  Volume!Next
<1> DEFINE outcome == Volume!DeleteOutcome(StoredKeys, key)
<1>1. CASE NotStored("Delete", key)
  <2>1. ~Found(key) /\ Answers("Delete", key, "kKeyNotFound", Nothing) /\ UNCHANGED <<entries, index>>
    BY <1>1 DEF NotStored, Fails
  <2>2. outcome.code = "kKeyNotFound" /\ outcome.result = Nothing /\ outcome.store = StoredKeys
    BY <2>1, StoreFacts DEF Volume!DeleteOutcome, Volume!IsStored, Volume!Failure, Volume!Outcome
  <2>3. StoredKeys' = StoredKeys
    BY <2>1, UnchangedStore
  <2> HIDE DEF outcome
  <2>4. outcome \in Volume!Outcomes(StoredKeys, clock, Volume!Call("Delete", key, Nothing))
    BY OutcomesByName DEF outcome
  <2> QED BY <2>1, <2>2, <2>3, <2>4, PerformedAs
<1>2. CASE /\ Reaches(key) /\ Answers("Delete", key, "kSuccess", Nothing) /\ Erase(key)
  <2>1. key \in DOMAIN StoredKeys
    BY <1>2, StoreFacts DEF Reaches
  <2>2. /\ outcome.code = "kSuccess" /\ outcome.result = Nothing
        /\ outcome.store = Volume!Without(StoredKeys, key)
    BY <2>1 DEF Volume!DeleteOutcome, Volume!IsStored, Volume!Success, Volume!Outcome
  <2>3. StoredKeys' = Volume!Without(StoredKeys, key)
    BY <1>2, StoreAfterErase
  <2> HIDE DEF outcome
  <2>4. outcome \in Volume!Outcomes(StoredKeys, clock, Volume!Call("Delete", key, Nothing))
    BY OutcomesByName DEF outcome
  <2> QED BY <1>2, <2>2, <2>3, <2>4, PerformedAs
<1> QED BY <1>1, <1>2, NothingThrown DEF DeleteKey

LEMMA SetExpiredDateServes ==
  ASSUME AtWork, session' = "open", UNCHANGED clock, NEW key \in Keys, NEW date \in Dates,
         SetExpiredDate(key, date)
  PROVE  Volume!Next
<1> DEFINE call == Volume!Call("SetExpiredDate", key, date)
           outcome == Volume!SetExpiredDateOutcome(StoredKeys, key, date)
<1>1. call \in Volume!Calls /\ call.op = "SetExpiredDate" /\ call.key = key
  BY DEF Volume!Calls, Volume!Call
<1>2. outcome \in Volume!Outcomes(StoredKeys, clock, call)
  BY OutcomesByName
<1>3. CASE NotStored("SetExpiredDate", key)
  <2>1. /\ ~Found(key) /\ Answers("SetExpiredDate", key, "kKeyNotFound", Nothing)
        /\ UNCHANGED <<entries, index>>
    BY <1>3 DEF NotStored, Fails
  <2>2. outcome.code = "kKeyNotFound" /\ outcome.result = Nothing /\ outcome.store = StoredKeys
    BY <2>1, StoreFacts
       DEF Volume!SetExpiredDateOutcome, Volume!IsStored, Volume!Failure, Volume!Outcome
  <2>3. StoredKeys' = StoredKeys
    BY <2>1, UnchangedStore
  <2> HIDE DEF call, outcome
  <2> QED BY <1>1, <1>2, <2>1, <2>2, <2>3, Performed
<1>4. CASE /\ Reaches(key) /\ Answers("SetExpiredDate", key, "kSuccess", Nothing)
           /\ SetEntryExpiredDate(Offset(key), TimeOf(date)) /\ UNCHANGED index
  <2>1. key \in DOMAIN StoredKeys
    BY <1>4, StoreFacts DEF Reaches
  <2>2. /\ outcome.code = "kSuccess" /\ outcome.result = Nothing
        /\ outcome.store = [StoredKeys EXCEPT ![key].expires = KeptTime(date)]
    BY <2>1 DEF Volume!SetExpiredDateOutcome, Volume!IsStored, Volume!Success, Volume!Outcome
  <2>3. StoredKeys' = [StoredKeys EXCEPT ![key].expires = KeptTime(date)]
    BY <1>4, StoreAfterRedate
  <2> HIDE DEF call, outcome
  <2> QED BY <1>1, <1>2, <1>4, <2>2, <2>3, Performed
<1> QED BY <1>3, <1>4, NothingThrown DEF SetExpiredDate

LEMMA GetExpiredDateServes ==
  ASSUME AtWork, session' = "open", UNCHANGED clock, NEW key \in Keys, GetExpiredDate(key)
  PROVE  Volume!Next
<1> DEFINE outcome == Volume!GetExpiredDateOutcome(StoredKeys, key)
           date == entries[Offset(key)].expires
<1>1. outcome \in Volume!Outcomes(StoredKeys, clock, Volume!Call("GetExpiredDate", key, Nothing))
  BY OutcomesByName
<1>2. CASE NotStored("GetExpiredDate", key)
  <2>1. /\ ~Found(key) /\ Answers("GetExpiredDate", key, "kKeyNotFound", Nothing)
        /\ UNCHANGED <<entries, index>>
    BY <1>2 DEF NotStored, Fails
  <2>2. outcome.code = "kKeyNotFound" /\ outcome.result = Nothing /\ outcome.store = StoredKeys
    BY <2>1, StoreFacts
       DEF Volume!GetExpiredDateOutcome, Volume!IsStored, Volume!Failure, Volume!Outcome
  <2>3. StoredKeys' = StoredKeys
    BY <2>1, UnchangedStore
  <2> HIDE DEF outcome
  <2> QED BY <1>1, <2>1, <2>2, <2>3, PerformedAs
<1>3. CASE Reaches(key)
  <2>1. Found(key) /\ ~NotStored("GetExpiredDate", key) /\ ~Throws("GetExpiredDate", key)
    BY <1>3, NothingThrown DEF Reaches, NotStored
  <2>2. /\ IF date = NoDate
           THEN Answers("GetExpiredDate", key, "kKeyDoesntExpired", Nothing)
           ELSE Answers("GetExpiredDate", key, "kSuccess", GetTime(date))
        /\ UNCHANGED <<entries, index>>
    BY <2>1 DEF GetExpiredDate
  <2>3. StoredKeys' = StoredKeys
    BY <2>2, UnchangedStore
  <2>4. key \in DOMAIN StoredKeys /\ StoredKeys[key] = Seen(entries[Offset(key)])
    BY <2>1, StoreFacts
  <2>5. StoredKeys[key].expires = StoredTime(date)
    BY <2>4 DEF Seen
  <2>6. date \in {NoDate} \cup DateFields
    BY <2>1, EntriesAreNumbers
  <2> HIDE DEF date
  <2>7. CASE date = NoDate
    <3>1. outcome.code = "kKeyDoesntExpired" /\ outcome.result = Nothing /\ outcome.store = StoredKeys
      BY <2>4, <2>5, <2>7 DEF Volume!GetExpiredDateOutcome, Volume!IsStored, Volume!Failure,
                              Volume!Outcome, StoredTime
    <3> HIDE DEF outcome
    <3> QED BY <1>1, <2>2, <2>3, <2>7, <3>1, PerformedAs
  <2>8. CASE date \in DateFields
    <3>1. /\ StoredTime(date) \in Nat /\ StoredTime(date) # NoDate /\ date # NoDate
          /\ ReturnedTime(StoredTime(date)) = GetTime(date)
      BY <2>8, TimeOfFields, PVManagerAssumption DEF PVManagerAssumption, DateFields
    <3>2. /\ outcome.code = "kSuccess" /\ outcome.result = GetTime(date)
          /\ outcome.store = StoredKeys
      BY <2>4, <2>5, <3>1 DEF Volume!GetExpiredDateOutcome, Volume!IsStored, Volume!Success,
                              Volume!Outcome
    <3> HIDE DEF outcome
    <3> QED BY <1>1, <2>2, <2>3, <3>1, <3>2, PerformedAs
  <2> QED BY <2>6, <2>7, <2>8
<1> QED BY <1>2, <1>3, NothingThrown DEF GetExpiredDate

\* a catalog above a key that is stored has nodes all the way
LEMMA CatalogsAreFound ==
  ASSUME AtWork, NEW catalog \in Keys, NEW k \in DOMAIN StoredKeys,
         Len(catalog) <= Len(k), SubSeq(k, 1, Len(catalog)) = catalog
  PROVE  FindMaxSubKey(index, catalog) # 0
<1>1. k \in DOMAIN index.trie /\ IsTrie(index.trie)
  BY StoreFacts DEF KeysOf, AtWork, TypeInv, IsVolumeIndex
<1>2. catalog \in Path /\ catalog # <<>> /\ k \in Path
  BY <1>1, KeysArePaths DEF AtWork, IsTrie
<1>3. Len(catalog) \in Nat /\ Len(k) \in Nat
  BY <1>2 DEF Path
<1>4. Len(catalog) # 0
  BY <1>2, WholePrefix
<1>5. Prefix(k, Len(catalog)) \in DOMAIN index.trie
  BY <1>1, <1>3 DEF IsTrie
<1>6. Prefix(k, Len(catalog)) = catalog
  BY DEF Prefix
<1>7. Prefix(catalog, Len(catalog)) = catalog
  BY <1>2, WholePrefix
<1>8. Prefix(catalog, Len(catalog)) \in DOMAIN index.trie
  BY <1>5, <1>6, <1>7
<1>9. Len(catalog) <= FindMaxSubKey(index, catalog)
  BY <1>1, <1>2, <1>3, <1>8, MaxSubKey
<1> QED BY <1>3, <1>4, <1>9

LEMMA HasCatalogServes ==
  ASSUME AtWork, session' = "open", UNCHANGED clock, NEW key \in Keys, HasCatalog(key)
  PROVE  Volume!Next
<1> DEFINE IsAbove(k) == Len(key) <= Len(k) /\ SubSeq(k, 1, Len(key)) = key
           yes == Volume!Success(Nothing, StoredKeys)
           no == Volume!Failure("kKeyNotFound", StoredKeys)
           outcome == IF FindMaxSubKey(index, key) = 0 THEN no ELSE yes
<1>1. /\ Answers("HasCatalog", key,
                 IF FindMaxSubKey(index, key) = 0 THEN "kKeyNotFound" ELSE "kSuccess", Nothing)
      /\ UNCHANGED <<entries, index>>
  BY DEF HasCatalog
<1>2. Volume!HasCatalogOutcomes(StoredKeys, key)
        = IF \E k \in DOMAIN StoredKeys : IsAbove(k) THEN {yes} ELSE {yes, no}
  BY DEF Volume!HasCatalogOutcomes, AtWork
<1>3. /\ yes.code = "kSuccess" /\ yes.result = Nothing /\ yes.store = StoredKeys
      /\ no.code = "kKeyNotFound" /\ no.result = Nothing /\ no.store = StoredKeys
  BY DEF Volume!Success, Volume!Failure, Volume!Outcome
<1>4. FindMaxSubKey(index, key) = 0 => ~\E k \in DOMAIN StoredKeys : IsAbove(k)
  BY CatalogsAreFound
<1> HIDE DEF yes, no, IsAbove
<1>5. outcome \in Volume!HasCatalogOutcomes(StoredKeys, key)
  BY <1>2, <1>4
<1>6. /\ outcome.code = IF FindMaxSubKey(index, key) = 0 THEN "kKeyNotFound" ELSE "kSuccess"
      /\ outcome.result = Nothing /\ outcome.store = StoredKeys
  BY <1>3
<1>7. StoredKeys' = StoredKeys
  BY <1>1, UnchangedStore
<1> HIDE DEF outcome
<1>8. outcome \in Volume!Outcomes(StoredKeys, clock, Volume!Call("HasCatalog", key, Nothing))
  BY <1>5, OutcomesByName
<1> QED BY <1>1, <1>6, <1>7, <1>8, PerformedAs

LEMMA CallServes ==
  ASSUME AtWork, Call
  PROVE  Volume!Next
<1>1. session' = "open" /\ UNCHANGED clock
  BY DEF Call, AtWork
<1>2. PICK key \in Keys :
       \/ \E value \in Values : PutKey(key, value)
       \/ GetKey(key) \/ HasKeyCall(key) \/ DeleteKey(key)
       \/ HasCatalog(key) \/ GetExpiredDate(key)
       \/ \E date \in Dates : SetExpiredDate(key, date)
  BY DEF Call
<1> QED BY <1>1, <1>2, PutServes, GetServes, HasKeyServes, DeleteServes, HasCatalogServes,
        GetExpiredDateServes, SetExpiredDateServes

LEMMA StoreStep ==
  ASSUME TypeInv, OwnedInv, ClosedInv, NothingFailed, [Next]_vars,
         Values \subseteq Numbers, <<>> \notin Keys, MaxClock < DateSize
  PROVE  [Volume!Next]_Volume!vars
<1>1. CASE Call
  <2>1. AtWork
    BY <1>1, CallEffects DEF AtWork, NothingFailed
  <2> QED BY <1>1, <2>1, CallServes
<1>2. CASE Tick
  <2>1. StoredKeys' = StoredKeys
    BY <1>2, StoredWhileOpen, StoredWhileClosed DEF Tick
  <2> QED BY <1>2, <2>1 DEF Tick, Volume!Next, Volume!Tick
<1>3. CASE DeleteOldIndex \/ CreateNewIndex \/ SaveStartEntries \/ Load
  <2>1. StoredKeys' = StoredKeys
    BY <1>3, SessionsKeepTheStore DEF NothingFailed
  <2>2. UNCHANGED <<clock, answer>>
    BY <1>3 DEF DeleteOldIndex, CreateNewIndex, SaveStartEntries, Load
  <2> QED BY <2>1, <2>2 DEF Volume!vars
<1>4. CASE UNCHANGED vars
  <2>1. StoredKeys' = StoredKeys /\ UNCHANGED <<clock, answer>>
    BY <1>4, StoredWhileOpen, StoredWhileClosed DEF vars
  <2> QED BY <2>1 DEF Volume!vars
<1> QED BY <1>1, <1>2, <1>3, <1>4 DEF Next

LEMMA InitialStore == Init => Volume!Init /\ ClosedInv
BY EmptyIsVolumeIndex DEF Init, Volume!Init, Volume!EmptyStore, Volume!NoAnswer, StoredKeys,
   Answer, ClosedInv

\* A volume of numbers is a key-value store: the calls of PVManager.hpp:76-210, the
\* expiry of values, and any sequence of sessions do to the keys what the store does,
\* and answer what it answers.  It takes keys that are not empty, values without
\* chunks (the date of a chunked value makes it unreadable), and a clock that 48 bits
\* hold; there is no bound on the keys, the offsets, the dates and the sessions.
THEOREM VolumesAreStores ==
  Values \subseteq Numbers /\ <<>> \notin Keys /\ MaxClock < DateSize
    => (Spec => ImplementsKeyValueStore)
<1> SUFFICES ASSUME Values \subseteq Numbers, <<>> \notin Keys, MaxClock < DateSize
             PROVE  Spec => ImplementsKeyValueStore
  OBVIOUS
<1>1. CrashSpec => []OwnedInv
  BY NumbersAreNoBlobs, OwnedAlways
<1>2. Spec => []ClosedInv
  <2>1. Init => ClosedInv
    BY InitialStore
  <2> QED BY <1>1, <2>1, ClosedStep, TypesAlways, NoCrashIsNeeded, PTL DEF Spec
<1>3. Init => Volume!Init
  BY InitialStore
<1>4. TypeInv /\ OwnedInv /\ ClosedInv /\ NothingFailed /\ [Next]_vars => [Volume!Next]_Volume!vars
  BY StoreStep
<1> QED BY <1>1, <1>2, <1>3, <1>4, TypesAlways, NoCrashIsNeeded, NothingFails, PTL
        DEF Spec, ImplementsKeyValueStore, Volume!Spec
=============================================================================
