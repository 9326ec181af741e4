------------------------- MODULE PVEntriesInvariant -------------------------
(***************************************************************************)
(* The inductive invariant of PVEntriesManager for values of fixed size:   *)
(* why entries with simple headers never meet one another on the device.   *)
(*                                                                         *)
(* The calls pass through states in which a popped entry belongs neither   *)
(* to the free lists nor to the caller.  Sound(volume, popped) describes   *)
(* the volume in those states too: popped is the set of such entries.      *)
(***************************************************************************)
EXTENDS PVEntriesManager

\* values of fixed size only, in a volume of the default cluster size
FixedSize ==
  /\ \A v \in Values : v.type \in SimpleTypes
  /\ ClusterSize = kDefaultClusterSize

Contents == [value : Values \cup {NoValue}, from : Nat, len : Nat]

Header ==
  [type : PVType \cup {"overwritten"},
   state : SUBSET {"kIsExpired", "kComplexBegin", "kComplexSequel", "overwritten"},
   expires : Nat, overall : Nat, chunk : Nat, sequel : Nat, next : Nat,
   data : Contents, room : Nat]

IsVolume(v) ==
  /\ v = [disk |-> v.disk, bins |-> v.bins, end |-> v.end,
          last |-> v.last, cluster |-> v.cluster]
  /\ v.disk \in [DOMAIN v.disk -> Header]
  /\ DOMAIN v.disk \subseteq Nat \ {0}
  /\ v.bins \in [Bins -> Nat]
  /\ v.end \in Nat \ {0} /\ v.last \in Nat /\ v.last >= Milli
  /\ v.cluster = kDefaultClusterSize

\* every entry has its own bytes, on the device, and is far enough from its end
\* for the largest header
RoomsDisjoint(v) ==
  /\ \A o \in DOMAIN v.disk : o + v.disk[o].room <= v.end /\ o + ComplexSize <= v.end
  /\ \A o, p \in DOMAIN v.disk : o < p => o + v.disk[o].room <= p

\* the entries that are free and not popped
FreeOf(v, popped) == {o \in DOMAIN v.disk \ popped : v.disk[o].type \in FreeTypes}

\* what is written fits, and the headers of entries that are not popped are whole
HeadersFit(v, popped) ==
  \A o \in DOMAIN v.disk \ popped :
    /\ v.disk[o].type \in SimpleTypes \cup FreeTypes
    /\ Extent(v.disk[o]) <= v.disk[o].room
    /\ v.disk[o].type = "kEmptyComplex" => v.disk[o].room = v.disk[o].overall + DataOffset

\* bins and links lead to free entries; those that a request for more than a
\* Simple4TypeHeader can meet have the room of a Simple8TypeHeader
HeadsFree(v, popped) ==
  \A b \in Bins : v.bins[b] # None =>
    /\ v.bins[b] \in FreeOf(v, popped)
    /\ b > 0 => v.disk[v.bins[b]].room >= Simple8Size

LinksFree(v, popped) ==
  \A o \in FreeOf(v, popped) : v.disk[o].next # None =>
    /\ v.disk[o].next \in FreeOf(v, popped)
    /\ v.disk[o].type # "kEmpty4Simple" => v.disk[v.disk[o].next].room >= Simple8Size

\* nothing free is referred to twice
ReferencesUnique(v, popped) ==
  /\ \A b, c \in Bins : b # c /\ v.bins[b] # None => v.bins[b] # v.bins[c]
  /\ \A b \in Bins, o \in FreeOf(v, popped) :
       v.bins[b] # None => v.bins[b] # v.disk[o].next
  /\ \A o, p \in FreeOf(v, popped) :
       o # p /\ v.disk[o].next # None => v.disk[o].next # v.disk[p].next

Sound(v, popped) ==
  /\ IsVolume(v)
  /\ RoomsDisjoint(v)
  /\ HeadersFit(v, popped)
  /\ HeadsFree(v, popped)
  /\ LinksFree(v, popped)
  /\ ReferencesUnique(v, popped)

(***************************************************************************)
(* Which entries are in which bin.  recoverAndPushNextEntry takes the bin  *)
(* for a successor from the type of the popped entry, and forgets what the *)
(* head of that bin was: the successor has to come back to the bin it is   *)
(* taken from, or there must be none.                                      *)
(***************************************************************************)
IsLone8(h) == h.type = "kEmpty8Simple" \/ (h.type = "kEmpty4Simple" /\ h.next = None)

FiledIn(b, h) ==
  CASE b = 0             -> h.type = "kEmpty4Simple"
    [] b = 1             -> IsLone8(h)
    [] b = kBinCount - 1 -> h.type = "kEmptyComplex"
    [] OTHER             -> h.next = None /\ h.overall <= kFreelistLimits[b]

IsFollowedBy(type, h) ==
  CASE type = "kEmpty4Simple" -> h.type = "kEmpty4Simple"
    [] type = "kEmpty8Simple" -> IsLone8(h)
    [] OTHER -> h.type = "kEmptyComplex" /\ h.overall = ClusterCapacity(kDefaultClusterSize)

Filed(v, popped) ==
  /\ \A b \in Bins : v.bins[b] # None => FiledIn(b, v.disk[v.bins[b]])
  /\ \A o \in FreeOf(v, popped) :
       v.disk[o].next # None => IsFollowedBy(v.disk[o].type, v.disk[v.disk[o].next])

\* the entries in use are the ones the caller holds, with what it stored
InUse(disk) == {o \in DOMAIN disk : disk[o].type \in SimpleTypes}

HeldOnDevice ==
  /\ DOMAIN held = InUse(vol.disk)
  /\ \A o \in DOMAIN held :
       /\ held[o] = [value |-> vol.disk[o].data.value,
                     expires |-> IF "kIsExpired" \in vol.disk[o].state
                                 THEN vol.disk[o].expires ELSE None]
       /\ vol.disk[o].data.value \in Values

\* the volume that the next call works on: a closed one is loaded first
Current == IF opened THEN vol ELSE Loaded(vol, saved)

\* The invariant: whatever the calls so far, the volume is sound, no loop of
\* writeComplexType is running, and what is in use is what the caller holds.
FixedSizeInv ==
  /\ Sound(Current, {})
  /\ vol.bins \in [Bins -> Nat] /\ vol.end \in Nat /\ vol.last \in Nat
  /\ vol.cluster = kDefaultClusterSize
  /\ DOMAIN vol = {"disk", "bins", "end", "last", "cluster"}
  /\ opened \in BOOLEAN /\ writing = Idle
  /\ saved.bins \in [Bins -> Nat] /\ saved.end \in Nat /\ saved.index \in Nat
  /\ HeldOnDevice
  /\ DOMAIN durable \subseteq DOMAIN held /\ crashes = 0

\* With it, what is free stays in reach: every list is filed where a later call of
\* recoverAndPushNextEntry puts its next entry back.
FiledInv == FixedSizeInv /\ Filed(Current, {})

-----------------------------------------------------------------------------
(***************************************************************************)
(* Crashes.  The session after a crash starts with the free lists of the   *)
(* last save.  They lead to entries that were used, split or overwritten   *)
(* since, so the volume is not sound any more.  What was saved and not     *)
(* deleted since (kept) stays as it is nevertheless: whatever may be       *)
(* written on behalf of a header, of a list or of an expansion lies clear  *)
(* of the kept entries.                                                    *)
(***************************************************************************)
IsClear(disk, kept, o, size) ==
  \A d \in kept : o + size <= d \/ d + Extent(disk[d]) <= o

\* the bytes that may be written in an entry, as its header has them
Span(h) == IF h.type = "kEmptyComplex" THEN h.overall + DataOffset ELSE Extent(h)

\* the largest header that is written into what a bin, or a link, leads to
BinSize(b)     == IF b = 0 THEN Simple4Size ELSE Simple8Size
LinkSize(type) == IF type = "kEmpty4Simple" THEN Simple4Size ELSE Simple8Size

IsClearHeader(disk, kept, o, h) ==
  h.type # "overwritten" =>
    /\ IsClear(disk, kept, o, Span(h))
    /\ h.type \in FreeTypes /\ h.next # None =>
         IsClear(disk, kept, h.next, LinkSize(h.type))

DiskKeeps(disk, kept) ==
  /\ \A o \in DOMAIN disk :
       /\ disk[o].type # "kString"
       /\ disk[o].type = "kEmptyComplex" => disk[o].room = disk[o].overall + DataOffset
  /\ kept \subseteq DOMAIN disk
  /\ \A d \in kept : /\ disk[d].type \in SimpleTypes
                      /\ IsClear(disk, kept \ {d}, d, Extent(disk[d]))
  /\ \A o \in DOMAIN disk \ kept : IsClearHeader(disk, kept, o, disk[o])

ListsKeep(v, kept) ==
  /\ \A b \in Bins : v.bins[b] # None => IsClear(v.disk, kept, v.bins[b], BinSize(b))
  /\ \A d \in kept : d + Extent(v.disk[d]) <= v.end

Keeps(v, kept) == IsVolume(v) /\ DiskKeeps(v.disk, kept) /\ ListsKeep(v, kept)

\* what an entry with a simple header reads as
Content(h) == [value |-> h.data.value,
               expires |-> IF "kIsExpired" \in h.state THEN h.expires ELSE None]

\* The invariant with crashes: what is kept is on the device, and safe both if the
\* session goes on and if it crashes now.
CrashInv ==
  /\ crashes = 0 => FixedSizeInv
  /\ crashes \in Nat /\ opened \in BOOLEAN /\ writing = Idle
  /\ Keeps(Current, DOMAIN durable)
  /\ Keeps(Loaded(vol, saved), DOMAIN durable)
  /\ \A d \in DOMAIN durable : /\ durable[d] = Content(vol.disk[d])
                               /\ durable[d].value \in Values
=============================================================================
