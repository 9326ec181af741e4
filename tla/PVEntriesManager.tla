-------------------------- MODULE PVEntriesManager --------------------------
(***************************************************************************)
(* PVEntriesManager (PVEntriesManager.hpp): the entries of one physical    *)
(* volume and the free lists that recycle their bytes.  Its caller,        *)
(* PVManager, serialises all calls and keeps the offsets it is given.      *)
(*                                                                         *)
(* A call on an entry with a simple header is one step: its writes reach   *)
(* the device before it returns.  Creating a complex value is a step for   *)
(* the first free entry and one for every chunk.  The crash steps stop the *)
(* program between two writes of a call.                                   *)
(***************************************************************************)
EXTENDS FreelistHelper, PVEntriesAllocator, FiniteSets

CONSTANTS
  ClusterSize,    \* cluster_size_: the cluster size the PV was created with
  Junk,           \* what an uninitialised or foreign size field can hold
  MaxDeviceEnd,   \* bound: expansions beyond this offset are not explored
  MaxHeld,        \* bound: entries held at the same time
  MaxCrashes      \* bound: crashes in one behaviour

VARIABLES
  vol,       \* the volume: the device and the objects of the open session
  opened,    \* a session is open (constructed and loaded, not yet saved)
  writing,   \* the state of the loop in writeComplexType, Idle outside of it
  saved,     \* PVHeader and FreelistHeader on the device, and the offsets that
             \* the index written with them names
  held,      \* the entries the caller can name: offset -> [value, expires]
  durable,   \* those of them that were held at the last save before the first crash, or
             \* at the last one if there was none, and not deleted since
  crashes    \* crashes so far

vars == <<vol, opened, writing, saved, held, durable, crashes>>

ASSUME EntriesAssumption ==
  /\ ClusterSize \in Nat
  /\ ClusterSize >= ComplexSize
  /\ Junk \subseteq Nat
  /\ MaxDeviceEnd \in Nat /\ MaxHeld \in Nat /\ MaxCrashes \in Nat

-----------------------------------------------------------------------------
(***************************************************************************)
(* Reading entries.                                                        *)
(***************************************************************************)
Corrupted == [value |-> NoValue, expires |-> -1]

\* checkComplexTypeHeader
ComplexHeaderOk(h, isFirst, cluster) ==
  /\ (IF isFirst THEN "kComplexBegin" ELSE "kComplexSequel") \in h.state
  /\ h.chunk <= cluster
  /\ h.overall <= kMaximumTypeSize

(***************************************************************************)
(* ReadComplexType: the chunks from offset on, along sequel_offset_, until *)
(* overall_size_ bytes are read.  Chunk[n] is the n-th of them and         *)
(* before[n] the number of bytes ahead of it; a chain has at most as many  *)
(* chunks as the device has headers.                                       *)
(***************************************************************************)
ReadComplex(disk, cluster, offset) ==
  LET Count == 0 .. Cardinality(DOMAIN disk)
      chunk[n \in Count] == IF n = 0 THEN HeaderAt(disk, offset)
                            ELSE HeaderAt(disk, chunk[n - 1].sequel)
      before[n \in Count] == IF n = 0 THEN 0 ELSE before[n - 1] + chunk[n - 1].chunk
      value == chunk[0].data.value
      Complete(n) ==
        /\ before[n] + chunk[n].chunk = chunk[0].overall
        /\ \A i \in 0 .. n :
             /\ ComplexHeaderOk(chunk[i], i = 0, cluster)
             /\ chunk[i].data = Piece(value, before[i], chunk[i].chunk)
  IN  IF chunk[0].overall = value.size /\ \E n \in Count : Complete(n)
      THEN value ELSE NoValue

\* GetEntryContent and GetEntryExpiredDate: what a caller reads at an offset
ReadEntry(volume, offset) ==
  LET h == HeaderAt(volume.disk, offset)
      value == IF h.type \in SimpleTypes THEN h.data.value
               ELSE IF h.type = "kString"
                 THEN ReadComplex(volume.disk, volume.cluster, offset)
                 ELSE NoValue
  IN  IF value = NoValue THEN Corrupted
      ELSE [value |-> value,
            expires |-> IF "kIsExpired" \in h.state THEN h.expires ELSE None]

-----------------------------------------------------------------------------
(***************************************************************************)
(* Allocation: getFreeEntryOffset and what it calls.                       *)
(***************************************************************************)
Expanded(volume) ==
  LET last  == Grown(volume.last)
      count == NewClusters(last, volume.cluster)
      first == GetFreeEntry(volume.bins, ClusterSize)
  IN  [disk |-> ExpandDisk(volume.disk, first, volume.end, volume.cluster, count),
       bins |-> PushFreeEntry(volume.bins,
                  ExpandOffset(first, volume.end, volume.cluster, count), ClusterSize),
       end  |-> volume.end + count * volume.cluster,
       last |-> last,
       cluster |-> volume.cluster]

\* getFreeOffset, up to its last PopFreeEntryOffset: the volume it pops from
Provided(volume, size) ==
  IF PopFreeEntryOffset(volume.bins, size) # None THEN volume ELSE Expanded(volume)

Popped(volume, size) == [volume EXCEPT !.bins = PopFreeEntry(volume.bins, size)]

\* mutant: the rest of the popped entry's list is forgotten
ForgetNext(volume, offset, junk) == volume

\* mutant: every successor is put into the bin of Simple4TypeHeaders
RecoverIntoFirst(volume, offset, junk) ==
  LET next == volume.disk[offset].next
  IN  IF next = None THEN volume
      ELSE [volume EXCEPT !.bins = PushFreeEntry(volume.bins, next, Simple4Size)]

(***************************************************************************)
(* recoverAndPushNextEntry: the successor of a popped entry becomes the    *)
(* head of its bin.  A complex header reads its successor's size as if the *)
(* successor had a complex header too: junk where it has not.              *)
(***************************************************************************)
RecoverAndPushNext(volume, offset, junk) ==
  LET h    == volume.disk[offset]
      next == HeaderAt(volume.disk, h.next)
      size == CASE h.type = "kEmpty4Simple" -> Simple4Size
                [] h.type = "kEmpty8Simple" -> Simple8Size
                [] OTHER -> DataOffset + (IF IsComplexFormat(next) THEN next.overall ELSE junk)
  IN  IF h.next = None THEN volume
      ELSE [volume EXCEPT !.bins = PushFreeEntry(volume.bins, h.next, size)]

\* the type of the header splitEntries writes in front of the remaining bytes
SplitType(size) ==
  IF size > ComplexSize THEN "kEmptyComplex"
  ELSE IF size >= Simple8Size THEN "kEmpty8Simple" ELSE "kEmpty4Simple"

\* mutant: the remainder keeps its place at the front of the entry it is cut from
SplitInFront(volume, offset, taken, rest) ==
  [volume EXCEPT !.bins = PushFreeEntry(volume.bins, offset, rest)]

\* splitEntries: an entry keeps its first bytes, the rest is a new free entry
SplitEntries(volume, offset, taken, rest) ==
  LET room == volume.disk[offset].room
      behind == FreeHeader(SplitType(rest), rest,
                           GetFreeEntry(volume.bins, rest), room - taken)
  IN  IF rest < Simple4Size THEN volume
      ELSE [volume EXCEPT
              !.disk = Write([volume.disk EXCEPT ![offset].room = taken],
                             offset + taken, behind),
              !.bins = PushFreeEntry(volume.bins, offset + taken, rest)]

(***************************************************************************)
(* getFreeEntryOffset on the volume it pops from: by the header at the     *)
(* popped offset, its successor is recovered and, when it is complex and   *)
(* large enough, the rest is split off.  Other headers stay as they are.   *)
(***************************************************************************)
FreeEntry(provided, size, junk) ==
  LET offset == PopFreeEntryOffset(provided.bins, size)
      h == HeaderAt(provided.disk, offset)
      recovered == RecoverAndPushNext(Popped(provided, size), offset, junk)
  IN  IF h.type \notin FreeTypes THEN Popped(provided, size)
      ELSE IF h.type = "kEmptyComplex" /\ size <= h.overall
        THEN SplitEntries(recovered, offset, size, h.overall - size)
        ELSE recovered

\* the room of the entry at an offset, none where no entry is
RoomAt(disk, offset) == HeaderAt(disk, offset).room

-----------------------------------------------------------------------------
(***************************************************************************)
(* The headers that the operations write.                                  *)
(***************************************************************************)
SimpleHeader(value, room) ==
  [type |-> value.type, state |-> {}, expires |-> 0, overall |-> 0, chunk |-> 0,
   sequel |-> None, next |-> None, data |-> Piece(value, 0, value.size), room |-> room]

\* WriteComplexType: the free header that is there bounds the size of the chunk
WrittenChunk(disk, offset, value, done, isFirst, sequel, junk) ==
  LET h == HeaderAt(disk, offset)
      rest == value.size - done
      free == IF IsComplexFormat(h) THEN h.chunk ELSE junk
      written == IF free < rest THEN free ELSE rest
  IN  [type |-> value.type,
       state |-> IF isFirst THEN {"kComplexBegin"} ELSE {"kComplexSequel"},
       expires |-> h.expires, overall |-> rest, chunk |-> written,
       sequel |-> sequel, next |-> None, data |-> Piece(value, done, written),
       room |-> h.room]

\* mutant: the deleted entry is marked as free and put into no list
DeleteWithoutPush(volume, offset) ==
  LET h == volume.disk[offset]
  IN  [volume EXCEPT
         !.disk = Write(@, offset, FreeHeader("kEmpty4Simple", 0, None, h.room))]

\* deleteEntry on Simple4TypeHeader and Simple8TypeHeader
DeleteSimple(volume, offset) ==
  LET h == volume.disk[offset]
      size == SimpleHeaderSize(h.type)
      type == IF size = Simple4Size THEN "kEmpty4Simple" ELSE "kEmpty8Simple"
  IN  [volume EXCEPT
         !.disk = Write(@, offset,
                    FreeHeader(type, 0, GetFreeEntry(volume.bins, size), h.room)),
         !.bins = PushFreeEntry(volume.bins, offset, size)]

\* deleteEntry on ComplexTypeHeader: one header of the chain
DeleteChunk(volume, offset) ==
  LET h == volume.disk[offset]
  IN  [volume EXCEPT
         !.disk = Write(@, offset,
                    [h EXCEPT !.type = "kEmptyComplex", !.state = {"kComplexBegin"},
                              !.overall = h.chunk, !.data = NoPiece,
                              !.next = GetFreeEntry(volume.bins, h.chunk)]),
         !.bins = PushFreeEntry(volume.bins, offset, h.chunk + DataOffset)]

\* ... and the whole of it: the loop over the sequels returns after the first
DeleteComplex(volume, offset) ==
  LET h == volume.disk[offset]
  IN  IF h.chunk < h.overall /\ h.sequel # None
      THEN DeleteChunk(DeleteChunk(volume, offset), h.sequel)
      ELSE DeleteChunk(volume, offset)

\* mutant: the flag is set, the date is not
ExpireKeepsDate(h, time) == [h EXCEPT !.state = {"kIsExpired"}]

\* setEntryExpiredDate
ExpiredHeader(h, time) == [h EXCEPT !.state = {"kIsExpired"}, !.expires = time]

-----------------------------------------------------------------------------
Idle == [value |-> NoValue, first |-> None, free |-> None, done |-> 0,
         isFirst |-> TRUE]

NewVolume ==
  [disk |-> <<>>, bins |-> EmptyBins, end |-> FirstOffset,
   last |-> InitialLast(ClusterSize), cluster |-> ClusterSize]

(***************************************************************************)
(* The constructor and SaveStartEntries(0), as PVManager::Create calls     *)
(* them on a new device.  device_end_ is set for the first time behind     *)
(* that call's writes: pv_size_ on the device is not FirstOffset but junk, *)
(* which nobody reads, since a PV without an index offset is refused.      *)
(***************************************************************************)
Init ==
  /\ vol = NewVolume
  /\ opened = TRUE
  /\ writing = Idle
  /\ saved = [bins |-> EmptyBins, end |-> FirstOffset, index |-> None, names |-> {}]
  /\ held = <<>>
  /\ durable = <<>>
  /\ crashes = 0

(***************************************************************************)
(* Behaviours are followed up to the first overwritten header, and no      *)
(* further than the bound on the size of the device.                       *)
(***************************************************************************)
Damaged(volume) == \E o \in DOMAIN volume.disk : volume.disk[o].type = "overwritten"

Running == opened /\ writing = Idle /\ ~Damaged(vol)

\* CreateNewEntryValue of a type with a simple header
CreateSimple(value) ==
  LET size     == SimpleHeaderSize(value.type)
      provided == Provided(vol, size)
      offset   == PopFreeEntryOffset(provided.bins, size)
  IN  /\ Running
      /\ Cardinality(DOMAIN held) < MaxHeld
      /\ value.type \in SimpleTypes
      /\ provided.end <= MaxDeviceEnd
      /\ IF offset = None
         THEN /\ vol' = provided
              /\ UNCHANGED held
         ELSE \E junk \in Junk :
              LET free == FreeEntry(provided, size, junk)
              IN  /\ vol' = [free EXCEPT !.disk = Write(free.disk, offset,
                               SimpleHeader(value, RoomAt(free.disk, offset)))]
                  /\ held' = [o \in DOMAIN held \cup {offset} |->
                                IF o = offset THEN [value |-> value, expires |-> None]
                                ELSE held[o]]
      /\ UNCHANGED <<opened, writing, saved, durable, crashes>>

\* writeComplexType up to its loop; without data the loop is not entered
BeginComplex(value) ==
  LET size     == value.size + ComplexSize
      provided == Provided(vol, size)
      offset   == PopFreeEntryOffset(provided.bins, size)
  IN  /\ Running
      /\ Cardinality(DOMAIN held) < MaxHeld
      /\ value.type = "kString"
      /\ provided.end <= MaxDeviceEnd
      /\ IF offset = None
         THEN /\ vol' = provided
              /\ UNCHANGED <<writing, held>>
         ELSE /\ \E junk \in Junk : vol' = FreeEntry(provided, size, junk)
              /\ IF value.size = 0
                 THEN /\ held' = [o \in DOMAIN held \cup {offset} |->
                                    IF o = offset THEN [value |-> value, expires |-> None]
                                    ELSE held[o]]
                      /\ UNCHANGED writing
                 ELSE /\ writing' = [value |-> value, first |-> offset,
                                     free |-> offset, done |-> 0, isFirst |-> TRUE]
                      /\ UNCHANGED held
      /\ UNCHANGED <<opened, saved, durable, crashes>>

(***************************************************************************)
(* One turn of the loop in writeComplexType: the entry for the next chunk  *)
(* is taken first, then this chunk is written with the link to it.         *)
(***************************************************************************)
WriteChunk ==
  LET value    == writing.value
      size     == value.size - writing.done + ComplexSize
      provided == Provided(vol, size)
      sequel   == PopFreeEntryOffset(provided.bins, size)
  IN  /\ opened /\ writing # Idle /\ ~Damaged(vol)
      /\ provided.end <= MaxDeviceEnd
      /\ IF sequel = None
         THEN /\ vol' = provided
              /\ writing' = Idle
              /\ UNCHANGED held
         ELSE \E junk \in Junk :
              LET free == FreeEntry(provided, size, junk)
                  chunk == WrittenChunk(free.disk, writing.free, value, writing.done,
                             writing.isFirst, sequel, junk)
                  done == writing.done + chunk.chunk
              IN  /\ vol' = [free EXCEPT !.disk = Write(free.disk, writing.free, chunk)]
                  /\ IF done < value.size
                     THEN /\ writing' = [writing EXCEPT !.free = sequel, !.done = done,
                                                    !.isFirst = FALSE]
                          /\ UNCHANGED held
                     ELSE /\ writing' = Idle
                          /\ held' = [o \in DOMAIN held \cup {writing.first} |->
                                        IF o = writing.first
                                        THEN [value |-> value, expires |-> None]
                                        ELSE held[o]]
      /\ UNCHANGED <<opened, saved, durable, crashes>>

Without(f, o) == [p \in DOMAIN f \ {o} |-> f[p]]

\* DeleteEntry; a header that is none of the user's types throws
DeleteEntry(offset) ==
  LET type == HeaderAt(vol.disk, offset).type
  IN  /\ Running
      /\ type \in UserTypes
      /\ vol' = IF type = "kString" THEN DeleteComplex(vol, offset)
                ELSE DeleteSimple(vol, offset)
      /\ held' = Without(held, offset)
      /\ durable' = Without(durable, offset)
      /\ UNCHANGED <<opened, writing, saved, crashes>>

SetEntryExpiredDate(offset, time) ==
  LET h == HeaderAt(vol.disk, offset)
  IN  /\ Running
      /\ h.type \in UserTypes
      /\ vol' = [vol EXCEPT !.disk = Write(@, offset, ExpiredHeader(h, time))]
      /\ held' = [held EXCEPT ![offset].expires = time]
      /\ durable' = IF offset \in DOMAIN durable
                    THEN [durable EXCEPT ![offset].expires = time] ELSE durable
      /\ UNCHANGED <<opened, writing, saved, crashes>>

(***************************************************************************)
(* SaveStartEntries with the offset of the index, then the end of the      *)
(* session.  The call itself resets device_end_ behind its writes.         *)
(***************************************************************************)
SaveStartEntries(index) ==
  /\ Running
  /\ saved' = [bins |-> vol.bins, end |-> vol.end, index |-> index, names |-> DOMAIN held]
  /\ vol' = [vol EXCEPT !.end = FirstOffset]
  /\ opened' = FALSE
  /\ durable' = IF crashes = 0 THEN held ELSE durable
  /\ UNCHANGED <<writing, held, crashes>>

\* mutant: the end of the device is not taken from the header
LoadedWithoutEnd(volume, start) ==
  [disk |-> volume.disk, bins |-> start.bins, end |-> FirstOffset,
   last |-> InitialLast(kDefaultClusterSize), cluster |-> kDefaultClusterSize]

(***************************************************************************)
(* PVManager::Load constructs the objects with the default cluster size;   *)
(* LoadStartEntries restores the bins and the end of the device.           *)
(***************************************************************************)
Loaded(volume, start) ==
  [disk |-> volume.disk, bins |-> start.bins, end |-> start.end,
   last |-> InitialLast(kDefaultClusterSize), cluster |-> kDefaultClusterSize]

LoadStartEntries ==
  /\ ~opened
  /\ saved.index # None
  /\ vol' = Loaded(vol, saved)
  /\ opened' = TRUE
  /\ UNCHANGED <<writing, saved, held, durable, crashes>>

Next ==
  \/ \E value \in Values : CreateSimple(value) \/ BeginComplex(value)
  \/ WriteChunk
  \/ \E offset \in DOMAIN held :
       \/ DeleteEntry(offset)
       \/ \E time \in Times : SetEntryExpiredDate(offset, time)
  \/ \E index \in DOMAIN held \cup {None} : SaveStartEntries(index)
  \/ LoadStartEntries

Spec == Init /\ [][Next]_vars

-----------------------------------------------------------------------------
(***************************************************************************)
(* Crashes: the program stops, between two calls or between two writes of  *)
(* one.  The device keeps what was written; the caller finds the offsets   *)
(* again that the index of the last save names, deleted entries among them.*)
(***************************************************************************)
Stop(disk) ==
  /\ crashes < MaxCrashes
  /\ opened
  /\ vol' = [vol EXCEPT !.disk = disk]
  /\ opened' = FALSE
  /\ writing' = Idle
  /\ held' = [o \in saved.names |-> IF o \in DOMAIN durable THEN durable[o] ELSE Corrupted]
  /\ crashes' = crashes + 1
  /\ UNCHANGED <<saved, durable>>

CrashBetweenCalls == Stop(vol.disk)

\* the new clusters are written, or the rest is split off too, and no more
CrashInFreeEntry ==
  \E value \in Values :
    LET size == IF value.type \in SimpleTypes THEN SimpleHeaderSize(value.type)
                ELSE value.size + ComplexSize
        provided == Provided(vol, size)
    IN  /\ Running
        /\ provided.end <= MaxDeviceEnd
        /\ \/ Stop(provided.disk)
           \/ /\ PopFreeEntryOffset(provided.bins, size) # None
              /\ \E junk \in Junk : Stop(FreeEntry(provided, size, junk).disk)

\* WriteComplexType took the next entry, wrote the header and not the data
CrashInChunk ==
  LET value    == writing.value
      size     == value.size - writing.done + ComplexSize
      provided == Provided(vol, size)
      sequel   == PopFreeEntryOffset(provided.bins, size)
  IN  /\ writing # Idle /\ ~Damaged(vol)
      /\ provided.end <= MaxDeviceEnd
      /\ sequel # None
      /\ \E junk \in Junk :
           LET free == FreeEntry(provided, size, junk)
               chunk == WrittenChunk(free.disk, writing.free, value, writing.done,
                          writing.isFirst, sequel, junk)
           IN  Stop(Write(free.disk, writing.free, [chunk EXCEPT !.data = NoPiece]))

Crash == CrashBetweenCalls \/ CrashInFreeEntry \/ CrashInChunk

CrashSpec == Init /\ [][Next \/ Crash]_vars

-----------------------------------------------------------------------------
(***************************************************************************)
(* Properties.                                                             *)
(***************************************************************************)
IsFree(disk, o) == disk[o].type \in FreeTypes

\* the entries that allocation can still reach: heads and what they link to
Reachable(disk, bins) ==
  LET heads == {bins[b] : b \in Bins} \ {None}
      Successors(S) == {HeaderAt(disk, o).next : o \in S} \ {None}
      upTo[n \in 0 .. Cardinality(DOMAIN disk)] ==
        IF n = 0 THEN heads ELSE upTo[n - 1] \cup Successors(upTo[n - 1])
  IN  upTo[Cardinality(DOMAIN disk)]

\* Every variable keeps its type: the volume's headers, the free lists, the
\* loop of writeComplexType and what the caller knows.
TypeOK ==
  /\ DOMAIN vol = {"disk", "bins", "end", "last", "cluster"}
  /\ \A o \in DOMAIN vol.disk : /\ o \in Nat
                                /\ vol.disk[o].type \in PVType \cup {"overwritten"}
                                /\ vol.disk[o].next \in Nat /\ vol.disk[o].room \in Nat
  /\ vol.bins \in [Bins -> Nat]
  /\ vol.end \in Nat /\ vol.last \in Nat /\ vol.cluster \in {ClusterSize, kDefaultClusterSize}
  /\ opened \in BOOLEAN
  /\ writing.value \in Values \cup {NoValue}
  /\ saved.bins \in [Bins -> Nat] /\ saved.end \in Nat /\ saved.index \in Nat
  /\ \A o \in DOMAIN held : held[o].value \in Values \cup {NoValue}
  /\ DOMAIN durable \subseteq DOMAIN held
  /\ crashes \in 0 .. MaxCrashes

\* Whatever was created, deleted, expired, saved and loaded in the meantime,
\* every entry the caller holds reads back as the value and the expiry date
\* that were last stored at its offset.
HeldReadBack == \A o \in DOMAIN held : ReadEntry(vol, o) = held[o]

\* Free lists and entries in use are separate: allocation can reach no entry
\* that the caller holds, in this session or, closed, in the one to come.  "This
\* link points to the next freed header" (pv_layout_headers.h:84).
FreeListsSeparate ==
  Reachable(vol.disk, IF opened THEN vol.bins ELSE saved.bins) \cap DOMAIN held = {}

\* No write of a header, of data or of new clusters reaches into another entry.
NothingOverwritten == ~Damaged(vol)

\* Reading any entry as the largest header, as recoverAndPushNextEntry does with the
\* successors of complex ones, stays on the device: one read behind its end would
\* leave FileDevice failed, and every call after it as well.
ReadsStayOnDevice ==
  opened => \A o \in DOMAIN vol.disk : o + ComplexSize <= vol.end

\* An entry is free for one caller at a time: no two free lists and no two
\* links of the reachable lists lead to the same entry.
NoDoubleReference ==
  LET bins == IF opened THEN vol.bins ELSE saved.bins
      links == {<<"next", o>> : o \in Reachable(vol.disk, bins)} \cup {<<"head", b>> : b \in Bins}
      Target(l) == IF l[1] = "next" THEN HeaderAt(vol.disk, l[2]).next ELSE bins[l[2]]
  IN  \A k, l \in links : k # l /\ Target(k) # None => Target(k) # Target(l)

\* A crash at any moment loses nothing that was saved: entries that were held
\* at the last save and not deleted since keep value and date on the device,
\* through the crash, in the sessions after it and whatever these store and save.
SurvivesCrash == \A o \in DOMAIN durable : ReadEntry(vol, o) = durable[o]

\* Bytes that are freed are used again: an entry that was just deleted can be
\* reached by a later allocation.
DeletedIsReachable ==
  [][\A o \in DOMAIN held : opened' /\ o \notin DOMAIN held' =>
       o \in Reachable(vol'.disk, vol'.bins)]_vars

\* What allocation can reach it can reach later, until it is used: popping an
\* entry, recovering its successor and splitting lose no free entry.
FreeStaysReachable ==
  [][opened /\ opened' =>
       \A o \in Reachable(vol.disk, vol.bins) :
         \/ o \in Reachable(vol'.disk, vol'.bins)
         \/ o \in DOMAIN held' \cup {writing'.free}]_vars

\* The device implements a store of independent entries: reading every offset
\* the caller holds, each call changes what is read at one offset, as that call
\* says, and closing and opening the volume changes nothing.
OnDevice == [o \in DOMAIN held |-> ReadEntry(vol, o)]

Store == INSTANCE EntryStore
           WITH Offsets <- 1 .. MaxDeviceEnd, NoDate <- None, entries <- OnDevice

ImplementsEntryStore == Store!Spec

=============================================================================
