----------------------- MODULE PVEntriesManagerProofs -----------------------
(***************************************************************************)
(* For values of fixed size, PVEntriesManager is correct on volumes of any *)
(* size: FixedSizeInv is inductive, and what a caller reads follows from   *)
(* it.  The lemmas follow getFreeEntryOffset: the volume stays sound while *)
(* it is expanded, an entry popped, its successor recovered, the remainder *)
(* split off and the new header written.                                   *)
(***************************************************************************)
EXTENDS PVEntriesInvariant, FiniteSetTheorems, WellFoundedInduction, TLAPS

\* the heads of the bins, and what the entries of a set link to
HeadsOf(bins) == {bins[b] : b \in Bins} \ {None}
LinkedFrom(disk, S) == {HeaderAt(disk, o).next : o \in S} \ {None}

\* The sizes of the headers are numbers, in the order the code relies on.
LEMMA Sizes ==
  /\ Simple4Size = 12 /\ Simple8Size = 16 /\ None = 0 /\ DataOffset \in Nat
  /\ ComplexSize = DataOffset + OffsetSize /\ ComplexSize >= 24 /\ DataOffset >= 20
  /\ OffsetSize \in Nat /\ OffsetSize <= 8 /\ ComplexSize \in Nat
  /\ kDefaultClusterSize \in Nat /\ kDefaultClusterSize >= ComplexSize
  /\ FirstOffset \in Nat \ {0} /\ kBinCount \in Nat /\ kBinCount >= 2
BY LayoutAssumption, FreelistAssumption
   DEF LayoutAssumption, FreelistAssumption, Simple4Size, Simple8Size, None, DataOffset,
       ComplexSize, FirstOffset, PVHeaderSize, FreelistHeaderSize

\* A set of numbers that is not empty has a least member: induction for sets.
LEMMA LeastNumber ==
  ASSUME NEW T, T \subseteq Nat, T # {}
  PROVE  \E m \in T : \A n \in T : m <= n
<1>1. PICK m \in T : \A n \in T : ~(<<n, m>> \in OpToRel(<, Nat))
  BY NatLessThanWellFounded, WFMin
<1>2. ASSUME NEW n \in T PROVE m <= n
  <2>1. m \in Nat /\ n \in Nat /\ ~(<<n, m>> \in OpToRel(<, Nat))
    BY <1>1
  <2> QED BY <2>1 DEF OpToRel
<1> QED BY <1>2

\* Lowest returns the least member of a set of bins that is not empty.
LEMMA LowestIsLeast ==
  ASSUME NEW S, S \subseteq Bins, S # {}
  PROVE  Lowest(S) \in S /\ \A c \in S : Lowest(S) <= c
<1>1. S \subseteq Nat
  BY Sizes DEF Bins
<1>2. \E b \in S : \A c \in S : b <= c
  BY <1>1, LeastNumber
<1> QED
  BY <1>2 DEF Lowest

\* An entry is always filed in a bin, and the smallest ones in the first bin.
LEMMA BinIdType ==
  ASSUME NEW size \in Nat
  PROVE  BinIdForSize(size) \in Bins /\ (size <= Simple4Size => BinIdForSize(size) = 0)
<1> DEFINE wideEnough == {b \in Bins : size <= kFreelistLimits[b]}
<1>1. CASE wideEnough = {}
  <2>1. ~(size <= Simple4Size)
    BY <1>1, Sizes, FreelistAssumption DEF FreelistAssumption, Bins
  <2> QED BY <1>1, <2>1, Sizes DEF BinIdForSize, Bins
<1>2. CASE wideEnough # {}
  <2>1. Lowest(wideEnough) \in wideEnough /\ \A c \in wideEnough : Lowest(wideEnough) <= c
    BY <1>2, LowestIsLeast
  <2>2. size <= Simple4Size => 0 \in wideEnough
    BY Sizes, FreelistAssumption DEF FreelistAssumption, Bins
  <2>3. BinIdForSize(size) = Lowest(wideEnough)
    BY <1>2 DEF BinIdForSize
  <2> QED BY <2>1, <2>2, <2>3, Sizes DEF Bins
<1> QED BY <1>1, <1>2

\* A request for a simple header takes the head of a bin that is not empty, and
\* never one of the first bin when it needs more than that bin's entries have.
LEMMA PopBinServes ==
  ASSUME NEW bins \in [Bins -> Nat], NEW size \in {Simple4Size, Simple8Size},
         PopFreeEntryOffset(bins, size) # None
  PROVE  /\ PopBin(bins, size) \in Bins
         /\ PopFreeEntryOffset(bins, size) = bins[PopBin(bins, size)]
         /\ PopFreeEntry(bins, size) = [bins EXCEPT ![PopBin(bins, size)] = None]
         /\ size = Simple8Size => PopBin(bins, size) > 0
<1> DEFINE b == PopBin(bins, size)
           serving == {c \in NonEmptyBins(bins) : size <= kFreelistLimits[c]}
<1>1. b # NoBin
  BY DEF PopFreeEntryOffset
<1>2. size < kDefaultClusterSize
  BY Sizes
<1>3. serving # {} /\ b = Lowest(serving)
  BY <1>1, <1>2 DEF PopBin
<1>4. serving \subseteq Bins
  BY DEF NonEmptyBins
<1>5. b \in serving
  BY <1>3, <1>4, LowestIsLeast
<1>6. size = Simple8Size => b # 0
  BY <1>5, Sizes, FreelistAssumption DEF FreelistAssumption
<1> QED
  BY <1>1, <1>4, <1>5, <1>6, Sizes DEF PopFreeEntryOffset, PopFreeEntry, Bins

\* Only the smallest entries are filed in the first bin.
LEMMA BinIdPositive ==
  ASSUME NEW size \in Nat, size > Simple4Size
  PROVE  BinIdForSize(size) > 0
<1> DEFINE wideEnough == {b \in Bins : size <= kFreelistLimits[b]}
<1>1. 0 \notin wideEnough /\ wideEnough \subseteq Bins
  BY Sizes, FreelistAssumption DEF FreelistAssumption
<1>2. CASE wideEnough = {}
  BY <1>2, Sizes DEF BinIdForSize
<1>3. CASE wideEnough # {}
  <2>1. BinIdForSize(size) \in wideEnough
    BY <1>1, <1>3, LowestIsLeast DEF BinIdForSize
  <2> QED BY <1>1, <2>1, Sizes DEF Bins
<1> QED BY <1>2, <1>3

\* An entry is filed in the first bin whose limit holds it.
LEMMA BinIdIsLeast ==
  ASSUME NEW size \in Nat, NEW b \in Bins, size <= kFreelistLimits[b]
  PROVE  BinIdForSize(size) <= b /\ size <= kFreelistLimits[BinIdForSize(size)]
<1> DEFINE wideEnough == {c \in Bins : size <= kFreelistLimits[c]}
<1>1. b \in wideEnough /\ wideEnough \subseteq Bins
  OBVIOUS
<1>2. BinIdForSize(size) = Lowest(wideEnough)
  BY <1>1 DEF BinIdForSize
<1> HIDE DEF wideEnough
<1>3. Lowest(wideEnough) \in wideEnough /\ \A c \in wideEnough : Lowest(wideEnough) <= c
  BY <1>1, LowestIsLeast
<1> QED BY <1>1, <1>2, <1>3 DEF wideEnough

\* There are bins between those of the simple headers and the last one.
LEMMA ManyBins ==
  /\ kBinCount \in Nat /\ kBinCount >= 4 /\ \A b \in Bins : b \in 0 .. kBinCount - 1
  /\ 0 \in Bins /\ 1 \in Bins /\ kBinCount - 2 \in Bins /\ kBinCount - 1 \in Bins
<1>1. \A b \in Bins : kFreelistLimits[b] \in Nat /\ b \in Nat /\ b <= kBinCount - 1
  BY Sizes, FreelistAssumption DEF FreelistAssumption, Bins
<1>2. 0 \in Bins /\ 1 \in Bins /\ kBinCount - 2 \in Bins /\ kBinCount - 1 \in Bins
  BY Sizes DEF Bins
<1>3. kBinCount - 2 # 0 /\ kBinCount - 2 # 1
  BY <1>1, <1>2, Sizes, FreelistAssumption DEF FreelistAssumption
<1> QED BY <1>1, <1>2, <1>3, Sizes DEF Bins

\* The bins of entries with simple headers.
LEMMA BinIdOfSimple ==
  BinIdForSize(Simple4Size) = 0 /\ BinIdForSize(Simple8Size) = 1
<1>1. 1 \in Bins /\ Simple8Size <= kFreelistLimits[1] /\ Simple8Size \in Nat /\ Simple4Size \in Nat
  BY ManyBins, Sizes, FreelistAssumption DEF FreelistAssumption
<1>2. BinIdForSize(Simple8Size) \in Bins /\ BinIdForSize(Simple4Size) = 0
  BY <1>1, BinIdType, Sizes
<1>3. BinIdForSize(Simple8Size) <= 1 /\ BinIdForSize(Simple8Size) > 0
  BY <1>1, BinIdIsLeast, BinIdPositive, Sizes
<1> QED BY <1>2, <1>3 DEF Bins

\* Entries of a cluster or more are all filed in the last bin.
LEMMA BinIdCapped ==
  ASSUME NEW size \in Nat, size >= kDefaultClusterSize
  PROVE  BinIdForSize(size) = kBinCount - 1
<1> DEFINE wideEnough == {b \in Bins : size <= kFreelistLimits[b]}
<1>1. kBinCount - 1 \in Bins /\ \A b \in Bins : b # kBinCount - 1 => b < kBinCount - 1
  BY Sizes DEF Bins
<1>2. \A b \in Bins : b # kBinCount - 1 => kFreelistLimits[b] < kDefaultClusterSize
  BY <1>1, FreelistAssumption DEF FreelistAssumption
<1>3. \A b \in Bins : kFreelistLimits[b] \in Nat
  BY FreelistAssumption DEF FreelistAssumption
<1>4. wideEnough \subseteq {kBinCount - 1}
  BY <1>2, <1>3, Sizes
<1>5. CASE wideEnough = {}
  BY <1>5 DEF BinIdForSize
<1>6. CASE wideEnough # {}
  BY <1>1, <1>4, <1>6, LowestIsLeast DEF BinIdForSize
<1> QED BY <1>5, <1>6

\* GetFreeEntry looks into the bin that PushFreeEntry files the same size in.
LEMMA GetFreeEntryBin ==
  ASSUME NEW bins \in [Bins -> Nat], NEW size \in Nat
  PROVE  GetFreeEntry(bins, size) = bins[BinIdForSize(size)]
BY BinIdCapped, Sizes DEF GetFreeEntry

\* Where no request for a simple header is served, the last bin is empty.
LEMMA LastBinEmpty ==
  ASSUME NEW bins \in [Bins -> Nat], NEW size \in {Simple4Size, Simple8Size},
         PopFreeEntryOffset(bins, size) = None
  PROVE  bins[kBinCount - 1] = None
<1> DEFINE last == kBinCount - 1
           serving == {c \in NonEmptyBins(bins) : size <= kFreelistLimits[c]}
<1> SUFFICES ASSUME bins[last] # None PROVE FALSE
  OBVIOUS
<1>1. last \in Bins
  BY Sizes DEF Bins
<1>2. last \in serving
  BY <1>1, Sizes, FreelistAssumption DEF FreelistAssumption, NonEmptyBins
<1>3. serving \subseteq Bins
  BY DEF NonEmptyBins
<1>4. PopBin(bins, size) = Lowest(serving)
  BY <1>2 DEF PopBin
<1>5. PopBin(bins, size) \in serving
  BY <1>2, <1>3, <1>4, LowestIsLeast
<1> QED
  BY <1>5, Sizes DEF PopFreeEntryOffset, NonEmptyBins, NoBin, Bins

-----------------------------------------------------------------------------
(***************************************************************************)
(* The device.                                                             *)
(***************************************************************************)

\* The headers the code writes for free entries are headers, with the fields given.
LEMMA FreeHeaderType ==
  ASSUME NEW type \in FreeTypes, NEW size \in Nat, NEW next \in Nat, NEW room \in Nat
  PROVE  /\ FreeHeader(type, size, next, room) \in Header
         /\ FreeHeader(type, size, next, room).type = type
         /\ FreeHeader(type, size, next, room).overall = size
         /\ FreeHeader(type, size, next, room).next = next
         /\ FreeHeader(type, size, next, room).room = room
BY Sizes DEF FreeHeader, Header, Contents, NoPiece, Piece, NoValue, FreeTypes, PVType, None

\* An overwritten header keeps its room and is not an entry any more.
LEMMA OverwrittenType ==
  ASSUME NEW room \in Nat
  PROVE  /\ [Overwritten EXCEPT !.room = room] \in Header
         /\ [Overwritten EXCEPT !.room = room].type = "overwritten"
         /\ [Overwritten EXCEPT !.room = room].room = room
BY Sizes DEF Overwritten, FreeHeader, Header, Contents, NoPiece, Piece, NoValue, None

\* The bytes a header of fixed size covers.
LEMMA ExtentType ==
  ASSUME NEW h \in Header
  PROVE  /\ Extent(h) \in Nat /\ Extent(h) >= Simple4Size
         /\ h.type \in {"kInt32", "kEmpty4Simple"} => Extent(h) = Simple4Size
         /\ h.type \in {"kInt64", "kEmpty8Simple"} => Extent(h) = Simple8Size
         /\ h.type \in {"kEmptyComplex", "overwritten"} => Extent(h) = ComplexSize
BY Sizes DEF Extent, Header

\* A write that fits between the other headers changes none of them.
LEMMA WriteApart ==
  ASSUME NEW disk, NEW o \in Nat, NEW h \in Header, NEW width \in Nat,
         Extent(h) <= width,
         disk \in [DOMAIN disk -> Header], DOMAIN disk \subseteq Nat,
         NEW p \in DOMAIN disk \ {o},
         p + Extent(disk[p]) <= o \/ o + width <= p
  PROVE  Write(disk, o, h)[p] = disk[p]
<1>1. disk[p] \in Header /\ p \in Nat
  OBVIOUS
<1>2. Extent(disk[p]) \in Nat /\ Extent(h) \in Nat
  BY <1>1, ExtentType
<1>3. ~(p < o + Extent(h) /\ o < p + Extent(disk[p]))
  BY <1>1, <1>2
<1> QED BY <1>3 DEF Write

\* A write puts the new header where it is told to, in a device of headers.
LEMMA WriteKeeps ==
  ASSUME NEW disk, NEW o \in Nat, NEW h \in Header,
         disk \in [DOMAIN disk -> Header]
  PROVE  Write(disk, o, h) \in [DOMAIN disk \cup {o} -> Header]
<1>1. \A p \in DOMAIN disk : disk[p] \in Header /\ disk[p].room \in Nat
  BY DEF Header
<1>2. \A p \in DOMAIN disk : [Overwritten EXCEPT !.room = disk[p].room] \in Header
  BY <1>1, OverwrittenType
<1> QED BY <1>1, <1>2 DEF Write

\* A write keeps the room of every other entry, even of one it damages.
LEMMA WriteElsewhere ==
  ASSUME NEW disk, NEW o, NEW h, NEW p \in DOMAIN disk \ {o}, disk[p].room \in Nat
  PROVE  /\ Write(disk, o, h)[p].room = disk[p].room
         /\ \/ Write(disk, o, h)[p] = disk[p]
            \/ Write(disk, o, h)[p].type = "overwritten"
<1>1. /\ [Overwritten EXCEPT !.room = disk[p].room].room = disk[p].room
      /\ [Overwritten EXCEPT !.room = disk[p].room].type = "overwritten"
  BY OverwrittenType
<1> QED BY <1>1 DEF Write

-----------------------------------------------------------------------------
(***************************************************************************)
(* getFreeEntryOffset, stage by stage.                                     *)
(***************************************************************************)

\* what is known of the successor of a popped entry: it is free, nothing else
\* refers to it, and it has room for what may be requested from its bin
SuccessorOk(v, o) ==
  LET next == v.disk[o].next
  IN  next # None =>
        /\ next \in FreeOf(v, {o})
        /\ v.disk[o].type # "kEmpty4Simple" => v.disk[next].room >= Simple8Size
        /\ \A b \in Bins : v.bins[b] # next
        /\ \A p \in FreeOf(v, {o}) : v.disk[p].next # next

\* Popping an entry takes it out of the free lists and nothing else.
LEMMA PopSound ==
  ASSUME NEW v, Sound(v, {}), NEW size \in {Simple4Size, Simple8Size},
         NEW o, o = PopFreeEntryOffset(v.bins, size), o # None
  PROVE  /\ o \in FreeOf(v, {}) /\ v.disk[o].room >= size
         /\ Popped(v, size).disk = v.disk
         /\ Sound(Popped(v, size), {o})
         /\ SuccessorOk(Popped(v, size), o)
<1> DEFINE b == PopBin(v.bins, size)
           w == Popped(v, size)
<1>1. IsVolume(v)
  BY DEF Sound
<1>2. /\ b \in Bins /\ o = v.bins[b]
      /\ size = Simple8Size => b > 0
      /\ PopFreeEntry(v.bins, size) = [v.bins EXCEPT ![b] = None]
  BY <1>1, PopBinServes DEF IsVolume
<1>3. /\ w = [disk |-> v.disk, bins |-> [v.bins EXCEPT ![b] = None], end |-> v.end,
              last |-> v.last, cluster |-> v.cluster]
  BY <1>1, <1>2 DEF IsVolume, Popped
<1>f. /\ w.disk = v.disk /\ w.bins = [v.bins EXCEPT ![b] = None] /\ w.end = v.end
      /\ w.last = v.last /\ w.cluster = v.cluster
      /\ w = [disk |-> w.disk, bins |-> w.bins, end |-> w.end, last |-> w.last,
              cluster |-> w.cluster]
  BY <1>3
<1>4. o \in FreeOf(v, {}) /\ (b > 0 => v.disk[o].room >= Simple8Size)
  BY <1>2 DEF Sound, HeadsFree
<1>5. v.disk[o] \in Header /\ v.disk[o].room \in Nat
  BY <1>1, <1>4 DEF IsVolume, FreeOf, Header
<1>6. Extent(v.disk[o]) <= v.disk[o].room
  BY <1>4 DEF Sound, HeadersFit, FreeOf
<1>7. v.disk[o].room >= size
  BY <1>2, <1>4, <1>5, <1>6, ExtentType, Sizes DEF FreeOf
<1>8. IsVolume(w)
  <2>1. w.bins \in [Bins -> Nat]
    <3>1. v.bins \in [Bins -> Nat] /\ None \in Nat
      BY <1>1, Sizes DEF IsVolume
    <3> QED BY <1>f, <3>1
  <2> QED BY <1>1, <1>f, <2>1 DEF IsVolume
<1>9. RoomsDisjoint(w) /\ HeadersFit(w, {o})
  BY <1>f DEF Sound, RoomsDisjoint, HeadersFit
<1>10. FreeOf(w, {o}) = FreeOf(v, {}) \ {o}
  BY <1>f DEF FreeOf
<1>11. \A c \in Bins : /\ w.bins[c] # None => c # b /\ w.bins[c] = v.bins[c]
                       /\ w.bins[c] # o
  <2> SUFFICES ASSUME NEW c \in Bins
               PROVE  (w.bins[c] # None => c # b /\ w.bins[c] = v.bins[c]) /\ w.bins[c] # o
    OBVIOUS
  <2>1. CASE c = b
    BY <1>1, <1>2, <1>f, <2>1 DEF IsVolume
  <2>2. CASE c # b
    BY <1>1, <1>2, <1>f, <2>2 DEF IsVolume, Sound, ReferencesUnique
  <2> QED BY <2>1, <2>2
<1>12. \A p \in FreeOf(v, {}) : v.disk[p].next # o
  BY <1>2 DEF Sound, ReferencesUnique
<1>13. HeadsFree(w, {o})
  <2> SUFFICES ASSUME NEW c \in Bins, w.bins[c] # None
               PROVE  /\ w.bins[c] \in FreeOf(w, {o})
                      /\ c > 0 => w.disk[w.bins[c]].room >= Simple8Size
    BY DEF HeadsFree
  <2>1. w.bins[c] = v.bins[c] /\ v.bins[c] # o /\ v.bins[c] # None
    BY <1>11
  <2> QED BY <1>f, <1>10, <2>1 DEF Sound, HeadsFree
<1>14. LinksFree(w, {o})
  BY <1>f, <1>10, <1>12 DEF Sound, LinksFree
<1>15. ReferencesUnique(w, {o})
  <2>1. \A p \in FreeOf(w, {o}) : p \in FreeOf(v, {}) /\ w.disk[p] = v.disk[p]
    BY <1>f, <1>10
  <2>2. /\ \A c, d \in Bins : c # d /\ v.bins[c] # None => v.bins[c] # v.bins[d]
        /\ \A c \in Bins, p \in FreeOf(v, {}) :
             v.bins[c] # None => v.bins[c] # v.disk[p].next
        /\ \A p, q \in FreeOf(v, {}) :
             p # q /\ v.disk[p].next # None => v.disk[p].next # v.disk[q].next
    BY DEF Sound, ReferencesUnique
  <2>3. \A c, d \in Bins : c # d /\ w.bins[c] # None => w.bins[c] # w.bins[d]
    <3> SUFFICES ASSUME NEW c \in Bins, NEW d \in Bins, c # d, w.bins[c] # None,
                        w.bins[c] = w.bins[d]
                 PROVE  FALSE
      OBVIOUS
    <3>1. w.bins[c] = v.bins[c] /\ w.bins[d] = v.bins[d]
      BY <1>11
    <3> QED BY <2>2, <3>1
  <2>4. \A c \in Bins, p \in FreeOf(w, {o}) :
          w.bins[c] # None => w.bins[c] # w.disk[p].next
    BY <1>11, <2>1, <2>2
  <2>5. \A p, q \in FreeOf(w, {o}) :
          p # q /\ w.disk[p].next # None => w.disk[p].next # w.disk[q].next
    BY <2>1, <2>2
  <2> QED BY <2>3, <2>4, <2>5 DEF ReferencesUnique
<1>16. SuccessorOk(w, o)
  <2> SUFFICES ASSUME v.disk[o].next # None
               PROVE  /\ v.disk[o].next \in FreeOf(w, {o})
                      /\ v.disk[o].type # "kEmpty4Simple"
                           => v.disk[v.disk[o].next].room >= Simple8Size
                      /\ \A c \in Bins : w.bins[c] # v.disk[o].next
                      /\ \A p \in FreeOf(w, {o}) : v.disk[p].next # v.disk[o].next
    BY <1>f DEF SuccessorOk
  <2>1. v.disk[o].next \in FreeOf(v, {}) /\ v.disk[o].next # o
    BY <1>4, <1>12 DEF Sound, LinksFree
  <2>2. \A c \in Bins : w.bins[c] # v.disk[o].next
    <3> SUFFICES ASSUME NEW c \in Bins, w.bins[c] = v.disk[o].next PROVE FALSE
      OBVIOUS
    <3>1. w.bins[c] # None /\ w.bins[c] = v.bins[c]
      BY <1>11
    <3> QED BY <1>4, <3>1 DEF Sound, ReferencesUnique
  <2>3. \A p \in FreeOf(w, {o}) : v.disk[p].next # v.disk[o].next
    BY <1>4, <1>10 DEF Sound, ReferencesUnique
  <2> QED BY <1>4, <1>10, <2>1, <2>2, <2>3 DEF Sound, LinksFree
<1> QED
  BY <1>f, <1>4, <1>7, <1>8, <1>9, <1>13, <1>14, <1>15, <1>16 DEF Sound

\* Recovering makes the successor of a popped entry the head of a bin; what was
\* in that bin is not referred to any more, and nothing is referred to twice.
LEMMA RecoverSound ==
  ASSUME NEW v, NEW o, Sound(v, {o}), o \in DOMAIN v.disk,
         v.disk[o].type \in FreeTypes, SuccessorOk(v, o), NEW junk \in Nat
  PROVE  /\ RecoverAndPushNext(v, o, junk).disk = v.disk
         /\ Sound(RecoverAndPushNext(v, o, junk), {o})
<1> DEFINE h == v.disk[o]
           n == h.next
           w == RecoverAndPushNext(v, o, junk)
<1>1. CASE n = None
  BY <1>1 DEF RecoverAndPushNext
<1>2. CASE n # None
  <2> DEFINE next == HeaderAt(v.disk, n)
             size == CASE h.type = "kEmpty4Simple" -> Simple4Size
                       [] h.type = "kEmpty8Simple" -> Simple8Size
                       [] OTHER -> DataOffset + (IF IsComplexFormat(next)
                                                 THEN next.overall ELSE junk)
             c == BinIdForSize(size)
  <2>1. IsVolume(v)
    BY DEF Sound
  <2>2. /\ n \in FreeOf(v, {o})
        /\ h.type # "kEmpty4Simple" => v.disk[n].room >= Simple8Size
        /\ \A b \in Bins : v.bins[b] # n
        /\ \A p \in FreeOf(v, {o}) : v.disk[p].next # n
    BY <1>2 DEF SuccessorOk
  <2>3. next = v.disk[n] /\ next \in Header /\ next.overall \in Nat /\ n \in Nat
    BY <2>1, <2>2 DEF HeaderAt, FreeOf, IsVolume, Header
  <2>4. size \in Nat /\ (h.type = "kEmpty4Simple" => size = Simple4Size)
    BY <2>3, Sizes DEF FreeTypes
  <2>5. c \in Bins /\ (h.type = "kEmpty4Simple" => c = 0)
    BY <2>4, BinIdType, Sizes
  <2> HIDE DEF size
  <2>6. w = [v EXCEPT !.bins = [v.bins EXCEPT ![c] = n]]
    BY <1>2 DEF RecoverAndPushNext, PushFreeEntry, size
  <2> HIDE DEF c
  <2>7. /\ w.disk = v.disk /\ w.bins = [v.bins EXCEPT ![c] = n] /\ w.end = v.end
        /\ w.last = v.last /\ w.cluster = v.cluster
        /\ w = [disk |-> w.disk, bins |-> w.bins, end |-> w.end, last |-> w.last,
                cluster |-> w.cluster]
    BY <2>1, <2>6 DEF IsVolume
  <2> HIDE DEF w
  <2>8. w.bins \in [Bins -> Nat] /\ w.bins[c] = n
        /\ \A b \in Bins : b # c => w.bins[b] = v.bins[b]
    BY <2>1, <2>3, <2>5, <2>7 DEF IsVolume
  <2>9. IsVolume(w)
    BY <2>1, <2>7, <2>8 DEF IsVolume
  <2>10. RoomsDisjoint(w) /\ HeadersFit(w, {o}) /\ LinksFree(w, {o})
         /\ FreeOf(w, {o}) = FreeOf(v, {o})
    BY <2>7 DEF Sound, RoomsDisjoint, HeadersFit, LinksFree, FreeOf
  <2>11. HeadsFree(w, {o})
    <3> SUFFICES ASSUME NEW b \in Bins, w.bins[b] # None
                 PROVE  /\ w.bins[b] \in FreeOf(w, {o})
                        /\ b > 0 => w.disk[w.bins[b]].room >= Simple8Size
      BY DEF HeadsFree
    <3>1. CASE b = c
      BY <2>2, <2>5, <2>7, <2>8, <2>10, <3>1
    <3>2. CASE b # c
      BY <2>7, <2>8, <2>10, <3>2 DEF Sound, HeadsFree
    <3> QED BY <3>1, <3>2
  <2>12. ReferencesUnique(w, {o})
    <3>1. \A b, d \in Bins : b # d /\ w.bins[b] # None => w.bins[b] # w.bins[d]
      BY <2>2, <2>5, <2>8 DEF Sound, ReferencesUnique
    <3>2. \A b \in Bins, p \in FreeOf(w, {o}) : w.bins[b] # None => w.bins[b] # w.disk[p].next
      <4> SUFFICES ASSUME NEW b \in Bins, NEW p \in FreeOf(v, {o}), w.bins[b] # None
                   PROVE  w.bins[b] # v.disk[p].next
        BY <2>7, <2>10
      <4>1. CASE b = c
        BY <2>2, <2>8, <4>1
      <4>2. CASE b # c
        BY <2>8, <4>2 DEF Sound, ReferencesUnique
      <4> QED BY <4>1, <4>2
    <3>3. \A p, q \in FreeOf(w, {o}) :
            p # q /\ w.disk[p].next # None => w.disk[p].next # w.disk[q].next
      BY <2>7, <2>10 DEF Sound, ReferencesUnique
    <3> QED BY <3>1, <3>2, <3>3 DEF ReferencesUnique
  <2> QED BY <2>7, <2>9, <2>10, <2>11, <2>12 DEF Sound, w
<1> QED BY <1>1, <1>2

\* w is v with one more free entry, the head of a bin that links to the one before
IsFiled(v, w, P, Q, n, c) ==
  /\ c \in Bins /\ w.bins = [v.bins EXCEPT ![c] = n]
  /\ n \notin FreeOf(v, P) /\ FreeOf(w, Q) = FreeOf(v, P) \cup {n}
  /\ \A p \in FreeOf(v, P) : w.disk[p] = v.disk[p]
  /\ w.disk[n].next = v.bins[c]

\* A free entry that is new to the lists becomes the head of a bin and links to
\* the head it replaces: this is how a remainder and a deleted entry are filed.
LEMMA LinkSound ==
  ASSUME NEW v, NEW w, NEW P, NEW Q, NEW n \in Nat \ {0}, NEW c \in Bins,
         HeadsFree(v, P), LinksFree(v, P), ReferencesUnique(v, P),
         v.bins \in [Bins -> Nat], w.bins = [v.bins EXCEPT ![c] = n],
         n \notin FreeOf(v, P), FreeOf(w, Q) = FreeOf(v, P) \cup {n},
         \A p \in FreeOf(v, P) : w.disk[p] = v.disk[p],
         w.disk[n].next = v.bins[c],
         c > 0 => w.disk[n].room >= Simple8Size,
         c = 0 => w.disk[n].type = "kEmpty4Simple"
  PROVE  HeadsFree(w, Q) /\ LinksFree(w, Q) /\ ReferencesUnique(w, Q)
<1>1. w.bins[c] = n /\ n # None /\ \A b \in Bins : b # c => w.bins[b] = v.bins[b]
  BY Sizes
<1>2. \A b \in Bins : v.bins[b] # n
  BY <1>1 DEF HeadsFree
<1>3. \A p \in FreeOf(v, P) : v.disk[p].next # n
  BY <1>1 DEF LinksFree
<1>4. HeadsFree(w, Q)
  <2> SUFFICES ASSUME NEW b \in Bins, w.bins[b] # None
               PROVE  /\ w.bins[b] \in FreeOf(w, Q)
                      /\ b > 0 => w.disk[w.bins[b]].room >= Simple8Size
    BY DEF HeadsFree
  <2>1. CASE b = c
    BY <1>1, <2>1
  <2>2. CASE b # c
    BY <1>1, <2>2 DEF HeadsFree
  <2> QED BY <2>1, <2>2
<1>5. LinksFree(w, Q)
  <2> SUFFICES ASSUME NEW p \in FreeOf(w, Q), w.disk[p].next # None
               PROVE  /\ w.disk[p].next \in FreeOf(w, Q)
                      /\ w.disk[p].type # "kEmpty4Simple"
                           => w.disk[w.disk[p].next].room >= Simple8Size
    BY DEF LinksFree
  <2>1. CASE p = n
    <3>1. v.bins[c] \in FreeOf(v, P) /\ (c > 0 => v.disk[v.bins[c]].room >= Simple8Size)
      BY <2>1 DEF HeadsFree
    <3>2. c # 0 => c > 0
      BY Sizes DEF Bins
    <3> QED BY <2>1, <3>1, <3>2
  <2>2. CASE p # n
    BY <2>2 DEF LinksFree
  <2> QED BY <2>1, <2>2
<1>6. ReferencesUnique(w, Q)
  <2>1. \A b, d \in Bins : b # d /\ w.bins[b] # None => w.bins[b] # w.bins[d]
    BY <1>1, <1>2 DEF ReferencesUnique
  <2>2. \A b \in Bins, p \in FreeOf(w, Q) : w.bins[b] # None => w.bins[b] # w.disk[p].next
    <3> SUFFICES ASSUME NEW b \in Bins, NEW p \in FreeOf(w, Q), w.bins[b] # None
                 PROVE  w.bins[b] # w.disk[p].next
      OBVIOUS
    <3>1. CASE p = n
      BY <1>1, <1>2, <3>1 DEF ReferencesUnique
    <3>2. CASE p # n
      BY <1>1, <1>3, <3>2 DEF ReferencesUnique
    <3> QED BY <3>1, <3>2
  <2>3. \A p, q \in FreeOf(w, Q) :
          p # q /\ w.disk[p].next # None => w.disk[p].next # w.disk[q].next
    BY DEF ReferencesUnique
  <2> QED BY <2>1, <2>2, <2>3 DEF ReferencesUnique
<1> QED BY <1>4, <1>5, <1>6

\* A header that fits its entry is written without a change to any other.
LEMMA WriteInRoom ==
  ASSUME NEW v, NEW o \in DOMAIN v.disk, NEW h \in Header,
         IsVolume(v), RoomsDisjoint(v), HeadersFit(v, {o}),
         h.room = v.disk[o].room, Extent(h) <= h.room
  PROVE  /\ Write(v.disk, o, h) \in [DOMAIN v.disk -> Header]
         /\ Write(v.disk, o, h)[o] = h
         /\ \A p \in DOMAIN v.disk \ {o} : Write(v.disk, o, h)[p] = v.disk[p]
<1>1. /\ v.disk \in [DOMAIN v.disk -> Header] /\ DOMAIN v.disk \subseteq Nat
      /\ o \in Nat /\ h.room \in Nat
  BY DEF IsVolume, Header
<1>2. /\ Write(v.disk, o, h) \in [DOMAIN v.disk \cup {o} -> Header]
      /\ Write(v.disk, o, h)[o] = h
  <2> DEFINE disk == v.disk
  <2>1. o \in Nat /\ disk \in [DOMAIN disk -> Header]
    BY <1>1
  <2> HIDE DEF disk
  <2>2. Write(disk, o, h) \in [DOMAIN disk \cup {o} -> Header]
    BY <2>1, WriteKeeps
  <2>3. Write(disk, o, h)[o] = h
    BY DEF Write
  <2> QED BY <2>2, <2>3 DEF disk
<1>3. ASSUME NEW p \in DOMAIN v.disk \ {o}
      PROVE  Write(v.disk, o, h)[p] = v.disk[p]
  <2>1. /\ p \in Nat /\ v.disk[p] \in Header /\ v.disk[p].room \in Nat
        /\ Extent(v.disk[p]) <= v.disk[p].room
    BY <1>1 DEF HeadersFit, Header
  <2>2. Extent(v.disk[p]) \in Nat
    BY <2>1, ExtentType
  <2>3. p + v.disk[p].room <= o \/ o + h.room <= p
    BY <1>1, <2>1 DEF RoomsDisjoint
  <2>4. p + Extent(v.disk[p]) <= o \/ o + h.room <= p
    BY <1>1, <2>1, <2>2, <2>3
  <2> QED BY <1>1, <2>4, WriteApart
<1> QED BY <1>2, <1>3

\* the entries in use are the same on both devices
SameInUse(d, e) == InUse(d) = InUse(e) /\ \A p \in InUse(d) : d[p] = e[p]

\* Splitting leaves the popped entry the bytes that were requested and files the
\* remainder, with a header that fits it, as a free entry.
LEMMA SplitSound ==
  ASSUME NEW v, NEW o, Sound(v, {o}), o \in DOMAIN v.disk,
         v.disk[o].type = "kEmptyComplex",
         v.disk[o].room = v.disk[o].overall + DataOffset,
         NEW size \in {Simple4Size, Simple8Size}, size <= v.disk[o].overall
  PROVE  LET w == SplitEntries(v, o, size, v.disk[o].overall - size)
         IN  /\ Sound(w, {o}) /\ SameInUse(v.disk, w.disk)
             /\ o \in DOMAIN w.disk /\ w.disk[o].room >= size
             /\ IF v.disk[o].overall - size < Simple4Size THEN w = v
                ELSE LET rest == v.disk[o].overall - size
                     IN  /\ IsFiled(v, w, {o}, {o}, o + size, BinIdForSize(rest))
                         /\ w.disk[o + size].type = SplitType(rest)
                         /\ w.disk[o + size].overall = rest
<1> DEFINE h == v.disk[o]
           rest == h.overall - size
           w == SplitEntries(v, o, size, rest)
           q == o + size
           cut == [v.disk EXCEPT ![o] = [h EXCEPT !.room = size]]
           next == GetFreeEntry(v.bins, rest)
           behind == FreeHeader(SplitType(rest), rest, next, h.room - size)
           c == BinIdForSize(rest)
<1>1. IsVolume(v) /\ RoomsDisjoint(v) /\ HeadersFit(v, {o})
  BY DEF Sound
<1>2. /\ h \in Header /\ o \in Nat \ {0} /\ h.overall \in Nat /\ h.room \in Nat
      /\ rest \in Nat /\ size \in Nat /\ size >= 12 /\ q \in Nat \ {0} /\ o < q
      /\ h.room - size = rest + DataOffset /\ h.room - size \in Nat
      /\ h.room >= size
  BY <1>1, Sizes DEF IsVolume, Header
<1>3. CASE rest < Simple4Size
  <2>1. w = v
    BY <1>3 DEF SplitEntries
  <2> QED BY <1>2, <1>3, <2>1 DEF SameInUse
<1>4. CASE ~(rest < Simple4Size)
  <2>1. c \in Bins /\ (c = 0 => rest <= Simple4Size) /\ next = v.bins[c] /\ next \in Nat
    BY <1>1, <1>2, BinIdType, BinIdPositive, GetFreeEntryBin, Sizes DEF IsVolume
  <2>2. SplitType(rest) \in FreeTypes /\ (c = 0 => SplitType(rest) = "kEmpty4Simple")
    BY <1>2, <2>1, Sizes DEF SplitType, FreeTypes
  <2>3. /\ behind \in Header /\ behind.type = SplitType(rest) /\ behind.overall = rest
        /\ behind.next = next /\ behind.room = rest + DataOffset
    <3> DEFINE type == SplitType(rest)
               room == h.room - size
    <3> HIDE DEF type, room, next, rest
    <3>1. rest \in Nat /\ next \in Nat /\ room \in Nat /\ type \in FreeTypes
      BY <1>2, <2>1, <2>2 DEF type, room
    <3>2. /\ FreeHeader(type, rest, next, room) \in Header
          /\ FreeHeader(type, rest, next, room).type = type
          /\ FreeHeader(type, rest, next, room).overall = rest
          /\ FreeHeader(type, rest, next, room).next = next
          /\ FreeHeader(type, rest, next, room).room = room
      BY <3>1, FreeHeaderType
    <3> QED BY <1>2, <3>2 DEF type, room
  <2>4. Extent(behind) <= behind.room /\ Extent(behind) \in Nat
    BY <1>2, <1>4, <2>2, <2>3, ExtentType, Sizes DEF FreeTypes
  <2>5. w = [v EXCEPT !.disk = Write(cut, q, behind), !.bins = [v.bins EXCEPT ![c] = q]]
    BY <1>4 DEF SplitEntries, PushFreeEntry
  <2> HIDE DEF w, behind, next, c
  <2>6. /\ w.disk = Write(cut, q, behind) /\ w.bins = [v.bins EXCEPT ![c] = q]
        /\ w.end = v.end /\ w.last = v.last /\ w.cluster = v.cluster
        /\ w = [disk |-> w.disk, bins |-> w.bins, end |-> w.end, last |-> w.last,
                cluster |-> w.cluster]
    BY <1>1, <2>5 DEF IsVolume
  <2>7. /\ cut \in [DOMAIN v.disk -> Header] /\ DOMAIN v.disk \subseteq Nat \ {0}
        /\ cut[o].room = size /\ cut[o].type = "kEmptyComplex"
        /\ \A p \in DOMAIN v.disk \ {o} : cut[p] = v.disk[p]
    <3>1. [h EXCEPT !.room = size] \in Header
      BY <1>2 DEF Header
    <3>2. [h EXCEPT !.room = size].room = size /\ [h EXCEPT !.room = size].type = "kEmptyComplex"
      BY <1>2 DEF Header
    <3> QED BY <1>1, <3>1, <3>2 DEF IsVolume
  <2>8. \A p \in DOMAIN v.disk \ {o} :
          /\ p \in Nat /\ v.disk[p] \in Header /\ v.disk[p].room \in Nat
          /\ Extent(v.disk[p]) \in Nat /\ Extent(v.disk[p]) <= v.disk[p].room
          /\ p + v.disk[p].room <= o \/ o + h.room <= p
    <3> SUFFICES ASSUME NEW p \in DOMAIN v.disk \ {o}
                 PROVE  /\ p \in Nat /\ v.disk[p] \in Header /\ v.disk[p].room \in Nat
                        /\ Extent(v.disk[p]) \in Nat /\ Extent(v.disk[p]) <= v.disk[p].room
                        /\ p + v.disk[p].room <= o \/ o + h.room <= p
      OBVIOUS
    <3>1. p \in Nat /\ v.disk[p] \in Header /\ v.disk[p].room \in Nat
      BY <1>1 DEF IsVolume, Header
    <3>2. Extent(v.disk[p]) \in Nat /\ Extent(v.disk[p]) <= v.disk[p].room
      BY <1>1, <3>1, ExtentType DEF HeadersFit
    <3>3. p + v.disk[p].room <= o \/ o + h.room <= p
      BY <1>1, <1>2, <3>1 DEF RoomsDisjoint
    <3> QED BY <3>1, <3>2, <3>3
  <2> HIDE DEF cut
  <2>9. q \notin DOMAIN v.disk
    BY <1>2, <2>8, Sizes
  <2>10. /\ w.disk \in [DOMAIN v.disk \cup {q} -> Header]
         /\ w.disk[q] = behind
         /\ w.disk[o].room = size
         /\ w.disk[o].type \in {"kEmptyComplex", "overwritten"}
    <3>1. o \in DOMAIN cut \ {q} /\ DOMAIN cut = DOMAIN v.disk
      BY <1>2, <2>7, <2>9
    <3>2. Write(cut, q, behind) \in [DOMAIN cut \cup {q} -> Header]
      BY <1>2, <2>3, <2>7, <3>1, WriteKeeps
    <3>3. Write(cut, q, behind)[q] = behind
      BY DEF Write
    <3>4. /\ Write(cut, q, behind)[o].room = cut[o].room
          /\ \/ Write(cut, q, behind)[o] = cut[o]
             \/ Write(cut, q, behind)[o].type = "overwritten"
      BY <1>2, <2>7, <3>1, WriteElsewhere
    <3> QED BY <2>6, <2>7, <3>1, <3>2, <3>3, <3>4
  <2>11. \A p \in DOMAIN v.disk \ {o} : w.disk[p] = v.disk[p]
    <3> SUFFICES ASSUME NEW p \in DOMAIN v.disk \ {o} PROVE w.disk[p] = v.disk[p]
      OBVIOUS
    <3>1. p \in DOMAIN cut \ {q} /\ cut[p] = v.disk[p] /\ cut \in [DOMAIN cut -> Header]
          /\ DOMAIN cut \subseteq Nat
      BY <2>7, <2>9
    <3>2. p + Extent(cut[p]) <= q \/ q + (rest + DataOffset) <= p
      BY <1>2, <2>8, <3>1, Sizes
    <3>3. rest + DataOffset \in Nat /\ Extent(behind) <= rest + DataOffset
      BY <1>2, <2>3, <2>4, Sizes
    <3> QED BY <1>2, <2>3, <2>6, <3>1, <3>2, <3>3, WriteApart
  <2>12. IsVolume(w)
    <3>1. w.bins \in [Bins -> Nat]
      BY <1>1, <1>2, <2>6 DEF IsVolume
    <3>2. DOMAIN w.disk = DOMAIN v.disk \cup {q}
      BY <2>10
    <3> QED BY <1>1, <1>2, <2>6, <2>7, <2>10, <3>1, <3>2 DEF IsVolume
  <2>13. RoomsDisjoint(w)
    <3>1. /\ o + h.room <= v.end /\ v.end \in Nat
          /\ \A p \in DOMAIN v.disk : p + v.disk[p].room <= v.end /\ p + ComplexSize <= v.end
      BY <1>1 DEF RoomsDisjoint, IsVolume
    <3>2. \A p \in DOMAIN w.disk : p + w.disk[p].room <= w.end
      BY <1>2, <2>3, <2>6, <2>8, <2>10, <2>11, <3>1
    <3>4. q + ComplexSize <= w.end
      BY <1>2, <1>4, <2>6, <3>1, Sizes
    <3>5. \A p \in DOMAIN w.disk : p + ComplexSize <= w.end
      BY <2>6, <2>10, <3>1, <3>4
    <3>3. ASSUME NEW a \in DOMAIN w.disk, NEW b \in DOMAIN w.disk, a < b
          PROVE  a + w.disk[a].room <= b
      <4>1. CASE a \notin {o, q} /\ b \notin {o, q}
        BY <1>1, <2>10, <2>11, <3>3, <4>1 DEF RoomsDisjoint
      <4>2. CASE a = o
        BY <1>2, <2>8, <2>10, <3>3, <4>2
      <4>3. CASE a = q
        BY <1>2, <2>3, <2>8, <2>10, <3>3, <4>3
      <4>4. CASE a \notin {o, q} /\ b \in {o, q}
        BY <1>2, <2>8, <2>10, <2>11, <3>3, <4>4
      <4> QED BY <4>1, <4>2, <4>3, <4>4
    <3> QED BY <3>2, <3>3, <3>5 DEF RoomsDisjoint
  <2>14. HeadersFit(w, {o})
    <3> SUFFICES ASSUME NEW p \in DOMAIN w.disk \ {o}
                 PROVE  /\ w.disk[p].type \in SimpleTypes \cup FreeTypes
                        /\ Extent(w.disk[p]) <= w.disk[p].room
                        /\ w.disk[p].type = "kEmptyComplex"
                             => w.disk[p].room = w.disk[p].overall + DataOffset
      BY DEF HeadersFit
    <3>1. CASE p = q
      BY <2>2, <2>3, <2>4, <2>10, <3>1
    <3>2. CASE p # q
      BY <1>1, <2>10, <2>11, <3>2 DEF HeadersFit
    <3> QED BY <3>1, <3>2
  <2>15. /\ FreeOf(w, {o}) = FreeOf(v, {o}) \cup {q} /\ q \notin FreeOf(v, {o})
         /\ \A p \in FreeOf(v, {o}) : w.disk[p] = v.disk[p]
    BY <1>2, <2>2, <2>3, <2>9, <2>10, <2>11 DEF FreeOf
  <2>16. HeadsFree(w, {o}) /\ LinksFree(w, {o}) /\ ReferencesUnique(w, {o})
    <3>1. w.disk[q].next = v.bins[c]
      BY <2>1, <2>3, <2>10
    <3>2. /\ c > 0 => w.disk[q].room >= Simple8Size
          /\ c = 0 => w.disk[q].type = "kEmpty4Simple"
      BY <1>2, <2>2, <2>3, <2>10, Sizes
    <3>3. v.bins \in [Bins -> Nat]
      BY <1>1 DEF IsVolume
    <3>4. HeadsFree(v, {o}) /\ LinksFree(v, {o}) /\ ReferencesUnique(v, {o})
      BY DEF Sound
    <3>5. q \in Nat \ {0} /\ c \in Bins /\ w.bins = [v.bins EXCEPT ![c] = q]
      BY <1>2, <2>1, <2>6
    <3> DEFINE P == {o}
    <3>6. /\ HeadsFree(v, P) /\ LinksFree(v, P) /\ ReferencesUnique(v, P)
          /\ FreeOf(w, P) = FreeOf(v, P) \cup {q} /\ q \notin FreeOf(v, P)
          /\ \A p \in FreeOf(v, P) : w.disk[p] = v.disk[p]
      BY <2>15, <3>4
    <3> HIDE DEF q, P
    <3>7. HeadsFree(w, P) /\ LinksFree(w, P) /\ ReferencesUnique(w, P)
      BY <3>1, <3>2, <3>3, <3>5, <3>6, LinkSound
    <3> QED BY <3>7 DEF P
  <2>17. SameInUse(v.disk, w.disk)
    BY <2>2, <2>3, <2>9, <2>10, <2>11 DEF SameInUse, InUse, SimpleTypes, FreeTypes
  <2>18. IsFiled(v, w, {o}, {o}, q, c) /\ w.disk[q].type = SplitType(rest) /\ w.disk[q].overall = rest
    BY <2>1, <2>3, <2>6, <2>10, <2>15 DEF IsFiled
  <2> QED
    BY <1>2, <1>4, <2>10, <2>12, <2>13, <2>14, <2>16, <2>17, <2>18 DEF Sound, w, c
<1> QED BY <1>3, <1>4

\* An entry that getFreeEntryOffset returns has the room that was requested, is
\* in no list any more, and nobody's entry changed on the way.
LEMMA FreeEntrySound ==
  ASSUME NEW v, Sound(v, {}), NEW size \in {Simple4Size, Simple8Size},
         NEW o, o = PopFreeEntryOffset(v.bins, size), o # None, NEW junk \in Nat
  PROVE  LET w == FreeEntry(v, size, junk)
         IN  /\ Sound(w, {o}) /\ SameInUse(v.disk, w.disk)
             /\ o \in DOMAIN w.disk /\ w.disk[o].room >= size /\ o \notin InUse(w.disk)
<1> DEFINE h == v.disk[o]
           r == RecoverAndPushNext(Popped(v, size), o, junk)
           w == FreeEntry(v, size, junk)
<1>1. /\ o \in FreeOf(v, {}) /\ h.room >= size
      /\ Popped(v, size).disk = v.disk
      /\ Sound(Popped(v, size), {o})
      /\ SuccessorOk(Popped(v, size), o)
  BY PopSound
<1>2. /\ o \in DOMAIN v.disk /\ h.type \in FreeTypes /\ h.type \notin SimpleTypes
      /\ o \notin InUse(v.disk)
  BY <1>1 DEF FreeOf, InUse, FreeTypes, SimpleTypes
<1>3. r.disk = v.disk /\ Sound(r, {o})
  <2> DEFINE popped == Popped(v, size)
  <2>1. /\ Sound(popped, {o}) /\ o \in DOMAIN popped.disk
        /\ popped.disk[o].type \in FreeTypes /\ SuccessorOk(popped, o)
    BY <1>1, <1>2
  <2> HIDE DEF popped
  <2>2. /\ RecoverAndPushNext(popped, o, junk).disk = popped.disk
        /\ Sound(RecoverAndPushNext(popped, o, junk), {o})
    BY <2>1, RecoverSound
  <2> QED BY <1>1, <2>2 DEF popped
<1>4. SameInUse(v.disk, r.disk)
  BY <1>3 DEF SameInUse
<1>5. HeaderAt(v.disk, o) = h
  BY <1>2 DEF HeaderAt
<1>6. CASE ~(h.type = "kEmptyComplex" /\ size <= h.overall)
  <2>1. w = r
    BY <1>2, <1>5, <1>6 DEF FreeEntry
  <2> QED BY <1>1, <1>2, <1>3, <1>4, <2>1
<1>7. CASE h.type = "kEmptyComplex" /\ size <= h.overall
  <2>1. w = SplitEntries(r, o, size, r.disk[o].overall - size)
    BY <1>2, <1>3, <1>5, <1>7 DEF FreeEntry
  <2>2. h.room = h.overall + DataOffset
    BY <1>2, <1>7 DEF Sound, HeadersFit
  <2>3. /\ o \in DOMAIN r.disk /\ r.disk[o].type = "kEmptyComplex"
        /\ r.disk[o].room = r.disk[o].overall + DataOffset /\ size <= r.disk[o].overall
    BY <1>2, <1>3, <1>7, <2>2
  <2> HIDE DEF r, w
  <2>4. /\ Sound(w, {o}) /\ SameInUse(r.disk, w.disk)
        /\ o \in DOMAIN w.disk /\ w.disk[o].room >= size
    BY <1>3, <2>1, <2>3, SplitSound
  <2>5. o \notin InUse(w.disk)
    BY <1>2, <1>3, <2>4 DEF SameInUse
  <2> QED BY <1>3, <2>4, <2>5 DEF w
<1> QED BY <1>6, <1>7

-----------------------------------------------------------------------------
(***************************************************************************)
(* Expansion.                                                              *)
(***************************************************************************)

\* Clusters with different numbers lie apart.
LEMMA ClustersApart ==
  ASSUME NEW i \in Nat, NEW j \in Nat, NEW c \in Nat, i < j
  PROVE  i * c + c <= j * c
<1>1. PICK k \in Nat : j = i + 1 + k
  <2>1. j - i - 1 \in Nat /\ j = i + 1 + (j - i - 1)
    OBVIOUS
  <2> QED BY <2>1
<1>2. (i + 1 + k) * c = i * c + c + k * c
  OBVIOUS
<1>3. i * c \in Nat /\ k * c \in Nat
  OBVIOUS
<1> QED BY <1>1, <1>2, <1>3

\* An expansion writes at least one cluster.
LEMMA ExpandsByClusters ==
  ASSUME NEW last \in Nat, last >= Milli, NEW cluster \in Nat, cluster > 0
  PROVE  /\ Grown(last) \in Nat /\ Grown(last) >= Milli
         /\ NewClusters(Grown(last), cluster) \in Nat \ {0}
<1> DEFINE grown == Grown(last)
           round == Simultaneously(cluster)
           rounds == (grown \div Milli + round - 1) \div round
<1>1. grown \in Nat /\ grown >= Milli
  BY DEF Grown, Milli
<1>2. round \in Nat /\ round >= 1
  BY MaxExtendAssumption DEF Simultaneously, MaxExtendAssumption
<1>3. grown \div Milli \in Nat /\ grown \div Milli >= 1
  BY <1>1 DEF Milli
<1> HIDE DEF grown, round
<1>4. rounds \in Nat /\ rounds >= 1
  BY <1>2, <1>3 DEF Milli
<1>5. round * rounds \in Nat /\ round * rounds >= 1
  BY <1>2, <1>4
<1> QED BY <1>1, <1>5 DEF NewClusters, grown, round

\* The offsets of new clusters: behind the old end, one cluster apart, the last
\* of them where ExpandPV's caller takes its free entry from.
LEMMA ClusterOffsetsType ==
  ASSUME NEW end \in Nat \ {0}, NEW cluster \in Nat, cluster > 0, NEW count \in Nat \ {0}
  PROVE  LET new == ClusterOffsets(end, cluster, count)
             newest == end + (count - 1) * cluster
         IN  /\ count * cluster \in Nat /\ newest \in new /\ newest \in Nat
             /\ new \subseteq Nat
             /\ \A o \in new : /\ o \in Nat /\ end <= o /\ o <= newest
                               /\ o + cluster <= end + count * cluster
                               /\ o # end => o - cluster \in new
             /\ \A a, b \in new : a < b => a + cluster <= b
<1> DEFINE new == ClusterOffsets(end, cluster, count)
           newest == end + (count - 1) * cluster
<1>1. count - 1 \in Nat /\ count - 1 < count
  OBVIOUS
<1>2. \A i \in Nat : i * cluster \in Nat
  OBVIOUS
<1>3. newest \in new /\ newest \in Nat /\ count * cluster \in Nat
  BY <1>1, <1>2 DEF ClusterOffsets
<1>4. ASSUME NEW o \in new
      PROVE  /\ o \in Nat /\ end <= o /\ o <= newest
             /\ o + cluster <= end + count * cluster
             /\ o # end => o - cluster \in new
  <2>1. PICK i \in 0 .. count - 1 : o = end + i * cluster
    BY DEF ClusterOffsets
  <2>2. i \in Nat /\ i * cluster \in Nat /\ i < count
    BY <1>2, <2>1
  <2>3. i * cluster + cluster <= count * cluster
    BY <2>2, ClustersApart
  <2>4. i * cluster <= (count - 1) * cluster
    <3>1. CASE i = count - 1
      BY <2>2, <3>1
    <3>2. CASE i < count - 1
      <4>1. i * cluster + cluster <= (count - 1) * cluster
        BY <1>1, <2>2, <3>2, ClustersApart
      <4> QED BY <1>1, <1>2, <2>2, <4>1
    <3> QED BY <2>2, <3>1, <3>2
  <2>5. o # end => o - cluster \in new
    <3> SUFFICES ASSUME o # end PROVE o - cluster \in new
      OBVIOUS
    <3>1. i # 0
      BY <2>1
    <3>2. i - 1 \in 0 .. count - 1
      BY <2>2, <3>1
    <3>3. (i - 1) * cluster = i * cluster - cluster
      BY <2>2
    <3>4. o - cluster = end + (i - 1) * cluster
      BY <2>1, <2>2, <3>3
    <3> QED BY <3>2, <3>4 DEF ClusterOffsets
  <2> QED BY <1>1, <1>2, <2>1, <2>2, <2>3, <2>4, <2>5
<1>5. ASSUME NEW a \in new, NEW b \in new, a < b
      PROVE  a + cluster <= b
  <2>1. PICK i \in 0 .. count - 1 : a = end + i * cluster
    BY DEF ClusterOffsets
  <2>2. PICK j \in 0 .. count - 1 : b = end + j * cluster
    BY DEF ClusterOffsets
  <2>3. i \in Nat /\ j \in Nat /\ i * cluster \in Nat /\ j * cluster \in Nat
    BY <1>2
  <2>4. i < j
    <3> SUFFICES ASSUME j <= i PROVE FALSE
      BY <2>3
    <3>1. CASE i = j
      BY <1>5, <2>1, <2>2, <2>3, <3>1
    <3>2. CASE j < i
      <4>1. j * cluster + cluster <= i * cluster
        BY <2>3, <3>2, ClustersApart
      <4> QED BY <1>5, <2>1, <2>2, <2>3, <4>1
    <3> QED BY <2>3, <3>1, <3>2
  <2>5. i * cluster + cluster <= j * cluster
    BY <2>3, <2>4, ClustersApart
  <2> QED BY <2>1, <2>2, <2>3, <2>5
<1>6. new \subseteq Nat
  BY <1>2 DEF ClusterOffsets
<1> QED BY <1>3, <1>4, <1>5, <1>6

\* w is v with more clusters, each linked to another one or to nothing, and one of
\* them the head of the last bin
IsCluster(h) ==
  h.type = "kEmptyComplex" /\ h.overall = ClusterCapacity(kDefaultClusterSize)

HasNewClusters(v, w) ==
  LET new == DOMAIN w.disk \ DOMAIN v.disk
  IN  /\ DOMAIN v.disk \subseteq DOMAIN w.disk
      /\ \A p \in DOMAIN v.disk : w.disk[p] = v.disk[p]
      /\ \A p \in new : /\ IsCluster(w.disk[p])
                        /\ w.disk[p].next # None => w.disk[p].next \in new
      /\ w.bins[kBinCount - 1] \in new
      /\ \A b \in Bins : b # kBinCount - 1 => w.bins[b] = v.bins[b]

\* Expanding adds clusters behind the end of the device, links each to the one
\* before and makes the last one the head of the last bin.
LEMMA ExpandSound ==
  ASSUME FixedSize, NEW v, Sound(v, {}), v.bins[kBinCount - 1] = None
  PROVE  /\ Sound(Expanded(v), {}) /\ SameInUse(v.disk, Expanded(v).disk)
         /\ HasNewClusters(v, Expanded(v))
<1> DEFINE c == kDefaultClusterSize
           end == v.end
           last == Grown(v.last)
           count == NewClusters(last, c)
           new == ClusterOffsets(end, c, count)
           newest == end + (count - 1) * c
           finish == end + count * c
           top == kBinCount - 1
           w == Expanded(v)
           Cluster(o) == FreeHeader("kEmptyComplex", c - DataOffset,
                                    IF o = end THEN None ELSE o - c, c)
<1>1. IsVolume(v) /\ c \in Nat /\ c > 0 /\ top \in Bins /\ top > 0 /\ ClusterSize = c
  BY Sizes DEF Sound, FixedSize, Bins
<1>2. GetFreeEntry(v.bins, ClusterSize) = None /\ BinIdForSize(ClusterSize) = top
  BY <1>1, BinIdCapped, GetFreeEntryBin DEF IsVolume
<1>3. last \in Nat /\ last >= Milli /\ count \in Nat \ {0}
  BY <1>1, ExpandsByClusters DEF IsVolume
<1>4. end \in Nat \ {0}
  BY <1>1 DEF IsVolume
<1>5. /\ finish \in Nat /\ end <= finish /\ newest \in new /\ newest \in Nat
      /\ new \subseteq Nat
      /\ \A o \in new : /\ o \in Nat /\ end <= o /\ o <= newest
                        /\ o + c <= finish
                        /\ o # end => o - c \in new
      /\ \A a, b \in new : a < b => a + c <= b
  <2> HIDE DEF c, count
  <2>1. /\ count * c \in Nat /\ newest \in new /\ newest \in Nat
        /\ new \subseteq Nat
        /\ \A o \in new : /\ o \in Nat /\ end <= o /\ o <= newest
                          /\ o + c <= finish
                          /\ o # end => o - c \in new
        /\ \A a, b \in new : a < b => a + c <= b
    BY <1>1, <1>3, <1>4, ClusterOffsetsType
  <2> QED BY <1>4, <2>1
<1>6. /\ w.disk = ExpandDisk(v.disk, None, end, c, count)
      /\ w.bins = [v.bins EXCEPT ![top] = newest]
      /\ w.end = finish /\ w.last = last /\ w.cluster = c
      /\ w = [disk |-> w.disk, bins |-> w.bins, end |-> w.end, last |-> w.last,
              cluster |-> w.cluster]
  BY <1>1, <1>2 DEF Expanded, PushFreeEntry, ExpandOffset, IsVolume
<1> HIDE DEF w, last, count, newest, finish
<1>7. \A p \in DOMAIN v.disk :
        /\ p \in Nat \ {0} /\ v.disk[p] \in Header /\ v.disk[p].room \in Nat
        /\ p < end /\ p + v.disk[p].room <= end /\ p + Extent(v.disk[p]) <= end
  <2> SUFFICES ASSUME NEW p \in DOMAIN v.disk
               PROVE  /\ p \in Nat \ {0} /\ v.disk[p] \in Header /\ v.disk[p].room \in Nat
                      /\ p < end /\ p + v.disk[p].room <= end
                      /\ p + Extent(v.disk[p]) <= end
    OBVIOUS
  <2>1. p \in Nat \ {0} /\ v.disk[p] \in Header /\ v.disk[p].room \in Nat
    BY <1>1 DEF IsVolume, Header
  <2>2. Extent(v.disk[p]) \in Nat /\ Extent(v.disk[p]) >= 12
    BY <2>1, ExtentType, Sizes
  <2>3. Extent(v.disk[p]) <= v.disk[p].room /\ p + v.disk[p].room <= end
    BY DEF Sound, HeadersFit, RoomsDisjoint
  <2> QED BY <1>4, <2>1, <2>2, <2>3
<1>8. \A p \in DOMAIN v.disk : p \notin new
  BY <1>4, <1>5, <1>7
<1>9. /\ DOMAIN w.disk = DOMAIN v.disk \cup new
      /\ \A p \in DOMAIN v.disk : w.disk[p] = v.disk[p]
      /\ \A o \in new : w.disk[o] = Cluster(o)
  <2> DEFINE kept == {p \in DOMAIN v.disk : p < end \/ finish <= p}
  <2>1. kept = DOMAIN v.disk
    BY <1>7
  <2>2. \A p \in DOMAIN v.disk : ~(end < p + Extent(v.disk[p]))
    <3> SUFFICES ASSUME NEW p \in DOMAIN v.disk PROVE ~(end < p + Extent(v.disk[p]))
      OBVIOUS
    <3>1. Extent(v.disk[p]) \in Nat
      BY <1>7, ExtentType
    <3> QED BY <1>4, <1>7, <3>1
  <2>3. w.disk = [o \in DOMAIN v.disk \cup new |->
                    IF o \in new THEN Cluster(o) ELSE v.disk[o]]
    BY <1>6, <1>8, <2>1, <2>2 DEF ExpandDisk, ClusterCapacity, ClusterLink, finish
  <2> HIDE DEF new, Cluster
  <2> QED BY <1>8, <2>3
<1>10. \A o \in new :
         /\ Cluster(o) \in Header /\ Cluster(o).type = "kEmptyComplex"
         /\ Cluster(o).overall = c - DataOffset /\ Cluster(o).room = c
         /\ Cluster(o).next = IF o = end THEN None ELSE o - c
         /\ Extent(Cluster(o)) <= c
  <2> SUFFICES ASSUME NEW o \in new
               PROVE  /\ Cluster(o) \in Header /\ Cluster(o).type = "kEmptyComplex"
                      /\ Cluster(o).overall = c - DataOffset /\ Cluster(o).room = c
                      /\ Cluster(o).next = IF o = end THEN None ELSE o - c
                      /\ Extent(Cluster(o)) <= c
    OBVIOUS
  <2> DEFINE next == IF o = end THEN None ELSE o - c
             size == c - DataOffset
  <2>1. next \in Nat /\ size \in Nat
    <3>1. size \in Nat
      BY <1>1, Sizes
    <3>2. o # end => o - c \in Nat
      BY <1>5
    <3>3. None \in Nat
      BY Sizes
    <3> QED BY <3>1, <3>2, <3>3
  <2>2. Cluster(o) = FreeHeader("kEmptyComplex", size, next, c)
    OBVIOUS
  <2> HIDE DEF next, size, Cluster, c
  <2>3. /\ Cluster(o) \in Header /\ Cluster(o).type = "kEmptyComplex"
        /\ Cluster(o).overall = size /\ Cluster(o).room = c /\ Cluster(o).next = next
    BY <1>1, <2>1, <2>2, FreeHeaderType DEF FreeTypes
  <2>4. Extent(Cluster(o)) = ComplexSize
    BY <2>3, ExtentType
  <2>5. Extent(Cluster(o)) <= c
    BY <2>4, Sizes DEF c
  <2> QED BY <2>3, <2>5 DEF next, size
<1> HIDE DEF new, Cluster
<1>11. IsVolume(w)
  <2>1. w.bins \in [Bins -> Nat]
    BY <1>1, <1>5, <1>6 DEF IsVolume
  <2>2. w.disk \in [DOMAIN w.disk -> Header] /\ DOMAIN w.disk \subseteq Nat \ {0}
    <3>1. w.disk = [p \in DOMAIN w.disk |-> w.disk[p]]
      BY <1>6 DEF ExpandDisk, ClusterCapacity
    <3>2. \A p \in DOMAIN w.disk : w.disk[p] \in Header
      BY <1>7, <1>9, <1>10
    <3>3. DOMAIN v.disk \subseteq Nat \ {0} /\ new \subseteq Nat \ {0}
      BY <1>1, <1>4, <1>5 DEF IsVolume
    <3>4. DOMAIN w.disk \subseteq Nat \ {0}
      BY <1>9, <3>3
    <3> QED BY <3>1, <3>2, <3>4
  <2>3. w.end \in Nat \ {0}
    BY <1>4, <1>5, <1>6
  <2> QED BY <1>3, <1>6, <2>1, <2>2, <2>3 DEF IsVolume
<1>12. RoomsDisjoint(w)
  <2>1. \A p \in DOMAIN w.disk : p + w.disk[p].room <= w.end
    BY <1>4, <1>5, <1>6, <1>7, <1>9, <1>10
  <2>3. \A p \in DOMAIN w.disk : p + ComplexSize <= w.end
    <3>1. \A p \in new : p + ComplexSize <= w.end
      <4>1. c >= ComplexSize /\ ComplexSize \in Nat
        BY Sizes
      <4> QED BY <1>1, <1>5, <1>6, <4>1
    <3>2. \A p \in DOMAIN v.disk : p + ComplexSize <= v.end
      BY DEF Sound, RoomsDisjoint
    <3>3. \A p \in DOMAIN v.disk : p + ComplexSize <= w.end
      BY <1>4, <1>5, <1>6, <1>7, <3>2, Sizes
    <3> QED BY <1>9, <3>1, <3>3
  <2>2. ASSUME NEW a \in DOMAIN w.disk, NEW b \in DOMAIN w.disk, a < b
        PROVE  a + w.disk[a].room <= b
    <3>0. a \in Nat /\ b \in Nat
      BY <1>11 DEF IsVolume
    <3>1. CASE a \in DOMAIN v.disk /\ b \in DOMAIN v.disk
      BY <1>9, <2>2, <3>0, <3>1 DEF Sound, RoomsDisjoint
    <3>2. CASE a \in DOMAIN v.disk /\ b \in new
      <4>1. v.disk[a].room \in Nat /\ a + v.disk[a].room <= end /\ end <= b
        BY <1>5, <1>7, <3>2
      <4> QED BY <1>4, <1>9, <3>0, <3>2, <4>1
    <3>3. CASE a \in new /\ b \in DOMAIN v.disk
      <4>1. end <= a /\ b < end
        BY <1>5, <1>7, <3>3
      <4> QED BY <1>4, <2>2, <3>0, <4>1
    <3>4. CASE a \in new /\ b \in new
      <4>1. \A x, y \in new : x < y => x + c <= y
        BY <1>5
      <4>2. a + c <= b
        BY <2>2, <3>0, <3>4, <4>1
      <4>3. w.disk[a].room = c
        BY <1>9, <1>10, <3>4
      <4> QED BY <4>2, <4>3
    <3> QED BY <1>9, <3>1, <3>2, <3>3, <3>4
  <2> QED BY <2>1, <2>2, <2>3 DEF RoomsDisjoint
<1>13. HeadersFit(w, {})
  <2> SUFFICES ASSUME NEW p \in DOMAIN w.disk
               PROVE  /\ w.disk[p].type \in SimpleTypes \cup FreeTypes
                      /\ Extent(w.disk[p]) <= w.disk[p].room
                      /\ w.disk[p].type = "kEmptyComplex"
                           => w.disk[p].room = w.disk[p].overall + DataOffset
    BY DEF HeadersFit
  <2>1. CASE p \in new
    BY <1>1, <1>9, <1>10, <2>1, Sizes DEF FreeTypes
  <2>2. CASE p \notin new
    BY <1>9, <2>2 DEF Sound, HeadersFit
  <2> QED BY <2>1, <2>2
<1>14. FreeOf(w, {}) = FreeOf(v, {}) \cup new /\ FreeOf(v, {}) \subseteq DOMAIN v.disk
  BY <1>8, <1>9, <1>10 DEF FreeOf, FreeTypes
<1>15. /\ w.bins[top] = newest /\ \A b \in Bins : b # top => w.bins[b] = v.bins[b]
       /\ newest # None /\ v.bins[top] = None
  BY <1>1, <1>4, <1>5, <1>6, Sizes DEF IsVolume
<1>16. \A b \in Bins : v.bins[b] # None => v.bins[b] \in FreeOf(v, {})
  BY DEF Sound, HeadsFree
<1>17. \A p \in FreeOf(v, {}) : v.disk[p].next # None => v.disk[p].next \in FreeOf(v, {})
  BY DEF Sound, LinksFree
<1>18. \A o \in new : w.disk[o].next # None =>
         o # end /\ w.disk[o].next = o - c /\ o - c \in new /\ o - c # newest
  <2> SUFFICES ASSUME NEW o \in new, w.disk[o].next # None
               PROVE  /\ o # end /\ w.disk[o].next = o - c
                      /\ o - c \in new /\ o - c # newest
    OBVIOUS
  <2>1. o # end /\ w.disk[o].next = o - c
    BY <1>9, <1>10
  <2>2. o - c \in new /\ o \in Nat /\ o <= newest
    BY <1>5, <2>1
  <2>3. o - c # newest
    BY <1>1, <1>5, <2>2
  <2> QED BY <2>1, <2>2, <2>3
<1>19. HeadsFree(w, {})
  <2> SUFFICES ASSUME NEW b \in Bins, w.bins[b] # None
               PROVE  /\ w.bins[b] \in FreeOf(w, {})
                      /\ b > 0 => w.disk[w.bins[b]].room >= Simple8Size
    BY DEF HeadsFree
  <2>1. CASE b = top
    BY <1>1, <1>5, <1>9, <1>10, <1>14, <1>15, <2>1, Sizes
  <2>2. CASE b # top
    BY <1>9, <1>14, <1>15, <1>16, <2>2 DEF Sound, HeadsFree
  <2> QED BY <2>1, <2>2
<1>20. LinksFree(w, {})
  <2> SUFFICES ASSUME NEW p \in FreeOf(w, {}), w.disk[p].next # None
               PROVE  /\ w.disk[p].next \in FreeOf(w, {})
                      /\ w.disk[p].type # "kEmpty4Simple"
                           => w.disk[w.disk[p].next].room >= Simple8Size
    BY DEF LinksFree
  <2>1. CASE p \in new
    BY <1>1, <1>9, <1>10, <1>14, <1>18, <2>1, Sizes
  <2>2. CASE p \in FreeOf(v, {})
    BY <1>9, <1>14, <1>17, <2>2 DEF Sound, LinksFree
  <2> QED BY <1>14, <2>1, <2>2
<1>21. ReferencesUnique(w, {})
  <2>1. \A b, d \in Bins : b # d /\ w.bins[b] # None => w.bins[b] # w.bins[d]
    <3> SUFFICES ASSUME NEW b \in Bins, NEW d \in Bins, b # d, w.bins[b] # None
                 PROVE  w.bins[b] # w.bins[d]
      OBVIOUS
    <3>1. CASE b # top /\ d # top
      BY <1>15, <3>1 DEF Sound, ReferencesUnique
    <3>2. CASE b = top
      BY <1>5, <1>8, <1>14, <1>15, <1>16, <3>2
    <3>3. CASE d = top
      BY <1>5, <1>8, <1>14, <1>15, <1>16, <3>3
    <3> QED BY <3>1, <3>2, <3>3
  <2>2. \A b \in Bins, p \in FreeOf(w, {}) : w.bins[b] # None => w.bins[b] # w.disk[p].next
    <3> SUFFICES ASSUME NEW b \in Bins, NEW p \in FreeOf(w, {}),
                        w.bins[b] # None, w.bins[b] = w.disk[p].next
                 PROVE  FALSE
      OBVIOUS
    <3>1. CASE b = top /\ p \in new
      BY <1>15, <1>18, <3>1
    <3>2. CASE b = top /\ p \in FreeOf(v, {})
      BY <1>5, <1>8, <1>9, <1>14, <1>15, <1>17, <3>2
    <3>3. CASE b # top /\ p \in new
      BY <1>8, <1>14, <1>15, <1>16, <1>18, <3>3
    <3>4. CASE b # top /\ p \in FreeOf(v, {})
      BY <1>9, <1>14, <1>15, <3>4 DEF Sound, ReferencesUnique
    <3> QED BY <1>14, <3>1, <3>2, <3>3, <3>4
  <2>3. \A p, q \in FreeOf(w, {}) :
          p # q /\ w.disk[p].next # None => w.disk[p].next # w.disk[q].next
    <3> SUFFICES ASSUME NEW p \in FreeOf(w, {}), NEW q \in FreeOf(w, {}), p # q,
                        w.disk[p].next # None, w.disk[p].next = w.disk[q].next
                 PROVE  FALSE
      OBVIOUS
    <3>1. CASE p \in new /\ q \in new
      BY <1>1, <1>5, <1>18, <3>1
    <3>2. CASE p \in FreeOf(v, {}) /\ q \in FreeOf(v, {})
      BY <1>9, <1>14, <3>2 DEF Sound, ReferencesUnique
    <3>3. CASE p \in new /\ q \in FreeOf(v, {})
      BY <1>8, <1>9, <1>14, <1>17, <1>18, <3>3
    <3>4. CASE p \in FreeOf(v, {}) /\ q \in new
      BY <1>8, <1>9, <1>14, <1>17, <1>18, <3>4
    <3> QED BY <1>14, <3>1, <3>2, <3>3, <3>4
  <2> QED BY <2>1, <2>2, <2>3 DEF ReferencesUnique
<1>22. SameInUse(v.disk, w.disk)
  BY <1>9, <1>10 DEF SameInUse, InUse, SimpleTypes
<1>23. HasNewClusters(v, w)
  <2>1. DOMAIN w.disk \ DOMAIN v.disk = new
    BY <1>8, <1>9
  <2>2. \A p \in new : IsCluster(w.disk[p])
    BY <1>9, <1>10 DEF IsCluster, ClusterCapacity
  <2> QED BY <1>5, <1>9, <1>15, <1>18, <2>1, <2>2 DEF HasNewClusters
<1> QED
  BY <1>11, <1>12, <1>13, <1>19, <1>20, <1>21, <1>22, <1>23 DEF Sound, w

-----------------------------------------------------------------------------
(***************************************************************************)
(* The operations.                                                         *)
(***************************************************************************)

\* Soundness depends on the headers, the bins and the end of the device only.
LEMMA SameSound ==
  ASSUME NEW v, NEW w, Sound(v, {}), w.disk = v.disk, w.bins = v.bins, w.end = v.end,
         w = [disk |-> w.disk, bins |-> w.bins, end |-> w.end, last |-> w.last,
              cluster |-> w.cluster],
         w.last \in Nat, w.last >= Milli, w.cluster = kDefaultClusterSize
  PROVE  Sound(w, {})
<1>1. IsVolume(w)
  BY DEF Sound, IsVolume
<1>2. FreeOf(w, {}) = FreeOf(v, {})
  BY DEF FreeOf
<1>3. RoomsDisjoint(w) /\ HeadersFit(w, {})
  BY DEF Sound, RoomsDisjoint, HeadersFit
<1>4. HeadsFree(w, {}) /\ LinksFree(w, {}) /\ ReferencesUnique(w, {})
  BY <1>2 DEF Sound, HeadsFree, LinksFree, ReferencesUnique
<1> QED BY <1>1, <1>3, <1>4 DEF Sound

\* The first session and every later one begin with whole clusters to add.
LEMMA InitialLastType ==
  ASSUME NEW cluster \in Nat, cluster > 0
  PROVE  InitialLast(cluster) \in Nat /\ InitialLast(cluster) >= Milli
<1> DEFINE round == Simultaneously(cluster)
<1>1. round \in Nat /\ round >= 1
  BY MaxExtendAssumption DEF Simultaneously, MaxExtendAssumption
<1> HIDE DEF round
<1>2. Milli * round \in Nat /\ Milli * round >= Milli
  BY <1>1 DEF Milli
<1> QED BY <1>2 DEF InitialLast, round

\* A volume is sound when getFreeOffset is about to pop from it.
LEMMA ProvidedSound ==
  ASSUME FixedSize, NEW v, Sound(v, {}), NEW size \in {Simple4Size, Simple8Size}
  PROVE  Sound(Provided(v, size), {}) /\ SameInUse(v.disk, Provided(v, size).disk)
<1>1. CASE PopFreeEntryOffset(v.bins, size) # None
  BY <1>1 DEF Provided, SameInUse
<1>2. CASE PopFreeEntryOffset(v.bins, size) = None
  <2>1. v.bins \in [Bins -> Nat]
    BY DEF Sound, IsVolume
  <2>2. v.bins[kBinCount - 1] = None
    BY <1>2, <2>1, LastBinEmpty
  <2> QED BY <1>2, <2>2, ExpandSound DEF Provided
<1> QED BY <1>1, <1>2

\* A sound volume has no overwritten headers.
LEMMA SoundUndamaged ==
  ASSUME NEW v, Sound(v, {})
  PROVE  ~Damaged(v)
BY DEF Sound, HeadersFit, Damaged, SimpleTypes, FreeTypes

\* The header of a new entry of fixed size is a header and fits what was requested.
LEMMA SimpleHeaderType ==
  ASSUME NEW value \in Values, value.type \in SimpleTypes, NEW room \in Nat
  PROVE  /\ SimpleHeaderSize(value.type) \in {Simple4Size, Simple8Size}
         /\ SimpleHeader(value, room) \in Header
         /\ SimpleHeader(value, room).type = value.type
         /\ SimpleHeader(value, room).state = {}
         /\ SimpleHeader(value, room).data.value = value
         /\ SimpleHeader(value, room).room = room
         /\ Extent(SimpleHeader(value, room)) = SimpleHeaderSize(value.type)
<1> DEFINE h == SimpleHeader(value, room)
<1>1. value.size \in Nat
  BY ValuesAssumption DEF ValuesAssumption
<1>2. None \in Nat
  BY Sizes
<1>3. /\ h \in Header /\ h.type = value.type /\ h.state = {} /\ h.data.value = value
      /\ h.room = room
  BY <1>1, <1>2 DEF SimpleHeader, Header, Contents, Piece, SimpleTypes, PVType, UserTypes
<1> HIDE DEF h
<1>4. Extent(h) = SimpleHeaderSize(value.type)
  BY <1>3, ExtentType DEF SimpleHeaderSize, SimpleTypes
<1>5. SimpleHeaderSize(value.type) \in {Simple4Size, Simple8Size}
  BY DEF SimpleHeaderSize
<1> QED BY <1>3, <1>4, <1>5 DEF h

\* Writing the new header into the popped entry makes a sound volume with one
\* entry more in use.
LEMMA WriteEntrySound ==
  ASSUME NEW v, NEW o, Sound(v, {o}), o \in DOMAIN v.disk, NEW h \in Header,
         h.type \in SimpleTypes, h.room = v.disk[o].room, Extent(h) <= h.room
  PROVE  LET w == [v EXCEPT !.disk = Write(v.disk, o, h)]
         IN  /\ Sound(w, {}) /\ InUse(w.disk) = InUse(v.disk) \cup {o}
             /\ w.disk[o] = h
             /\ \A p \in DOMAIN v.disk \ {o} : w.disk[p] = v.disk[p]
<1> DEFINE w == [v EXCEPT !.disk = Write(v.disk, o, h)]
<1>1. IsVolume(v) /\ RoomsDisjoint(v) /\ HeadersFit(v, {o})
  BY DEF Sound
<1>2. /\ Write(v.disk, o, h) \in [DOMAIN v.disk -> Header]
      /\ Write(v.disk, o, h)[o] = h
      /\ \A p \in DOMAIN v.disk \ {o} : Write(v.disk, o, h)[p] = v.disk[p]
  BY <1>1, WriteInRoom
<1>3. /\ w.disk = Write(v.disk, o, h) /\ w.bins = v.bins /\ w.end = v.end
      /\ w.last = v.last /\ w.cluster = v.cluster
      /\ w = [disk |-> w.disk, bins |-> w.bins, end |-> w.end, last |-> w.last,
              cluster |-> w.cluster]
  BY <1>1 DEF IsVolume
<1> HIDE DEF w
<1>4. /\ w.disk \in [DOMAIN v.disk -> Header] /\ w.disk[o] = h
      /\ \A p \in DOMAIN v.disk \ {o} : w.disk[p] = v.disk[p]
      /\ DOMAIN w.disk = DOMAIN v.disk
  BY <1>2, <1>3
<1>5. IsVolume(w)
  BY <1>1, <1>3, <1>4 DEF IsVolume
<1>6. \A p \in DOMAIN v.disk : w.disk[p].room = v.disk[p].room
  BY <1>4
<1>7. RoomsDisjoint(w)
  BY <1>1, <1>3, <1>4, <1>6 DEF RoomsDisjoint
<1>8. HeadersFit(w, {})
  BY <1>1, <1>4 DEF HeadersFit, SimpleTypes
<1>9. FreeOf(w, {}) = FreeOf(v, {o}) /\ \A p \in FreeOf(v, {o}) : w.disk[p] = v.disk[p]
  BY <1>4 DEF FreeOf, SimpleTypes, FreeTypes
<1>10. HeadsFree(w, {})
  BY <1>3, <1>9 DEF Sound, HeadsFree
<1>11. LinksFree(w, {})
  BY <1>9 DEF Sound, LinksFree
<1>12. ReferencesUnique(w, {})
  <2>1. \A b, d \in Bins : b # d /\ w.bins[b] # None => w.bins[b] # w.bins[d]
    <3>1. \A b, d \in Bins : b # d /\ v.bins[b] # None => v.bins[b] # v.bins[d]
      BY DEF Sound, ReferencesUnique
    <3>2. w.bins = v.bins
      BY <1>3
    <3> QED BY <3>1, <3>2
  <2>2. \A b \in Bins, p \in FreeOf(w, {}) : w.bins[b] # None => w.bins[b] # w.disk[p].next
    <3>1. \A b \in Bins, p \in FreeOf(v, {o}) : v.bins[b] # None => v.bins[b] # v.disk[p].next
      BY DEF Sound, ReferencesUnique
    <3>2. w.bins = v.bins
      BY <1>3
    <3> QED BY <1>9, <3>1, <3>2
  <2>3. \A p, q \in FreeOf(w, {}) :
          p # q /\ w.disk[p].next # None => w.disk[p].next # w.disk[q].next
    BY <1>9 DEF Sound, ReferencesUnique
  <2> QED BY <2>1, <2>2, <2>3 DEF ReferencesUnique
<1>13. InUse(w.disk) = InUse(v.disk) \cup {o}
  BY <1>4 DEF InUse
<1> QED
  BY <1>4, <1>5, <1>7, <1>8, <1>10, <1>11, <1>12, <1>13 DEF Sound, w

\* Deleting an entry of fixed size turns it into the head of its size's bin and
\* leaves every other entry alone.
LEMMA DeleteSimpleSound ==
  ASSUME NEW v, Sound(v, {}), NEW o \in InUse(v.disk)
  PROVE  LET w == DeleteSimple(v, o)
         IN  /\ Sound(w, {}) /\ InUse(w.disk) = InUse(v.disk) \ {o}
             /\ \A p \in DOMAIN v.disk \ {o} : w.disk[p] = v.disk[p]
             /\ o \in HeadsOf(w.bins)
             /\ \E c \in {0, 1} :
                  /\ IsFiled(v, w, {}, {}, o, c)
                  /\ w.disk[o].type = IF c = 0 THEN "kEmpty4Simple" ELSE "kEmpty8Simple"
<1> DEFINE h == v.disk[o]
           size == SimpleHeaderSize(h.type)
           type == IF size = Simple4Size THEN "kEmpty4Simple" ELSE "kEmpty8Simple"
           c == BinIdForSize(size)
           next == GetFreeEntry(v.bins, size)
           freed == FreeHeader(type, 0, next, h.room)
           w == DeleteSimple(v, o)
<1>1. IsVolume(v) /\ RoomsDisjoint(v) /\ HeadersFit(v, {}) /\ HeadersFit(v, {o})
  BY DEF Sound, HeadersFit
<1>2. /\ o \in DOMAIN v.disk /\ h.type \in SimpleTypes /\ h \in Header
      /\ o \in Nat \ {0} /\ h.room \in Nat
  BY <1>1 DEF InUse, IsVolume, Header
<1>3. Extent(h) = size /\ size <= h.room /\ size \in {Simple4Size, Simple8Size}
  BY <1>1, <1>2, ExtentType DEF SimpleHeaderSize, SimpleTypes, HeadersFit
<1>4. /\ c \in Bins /\ next = v.bins[c] /\ next \in Nat
      /\ type = "kEmpty8Simple" => c > 0 /\ size = Simple8Size
      /\ type = "kEmpty4Simple" => c = 0 /\ size = Simple4Size
  BY <1>1, <1>3, BinIdType, BinIdPositive, GetFreeEntryBin, Sizes DEF IsVolume
<1>5. type \in {"kEmpty4Simple", "kEmpty8Simple"} /\ type \in FreeTypes
  BY DEF FreeTypes
<1>6. w = [v EXCEPT !.disk = Write(v.disk, o, freed), !.bins = [v.bins EXCEPT ![c] = o]]
  BY DEF DeleteSimple, PushFreeEntry
<1> HIDE DEF type, w, c, next
<1>7. /\ freed \in Header /\ freed.type = type /\ freed.next = next /\ freed.room = h.room
  <2> DEFINE room == h.room
  <2> HIDE DEF room
  <2>1. 0 \in Nat /\ next \in Nat /\ room \in Nat /\ type \in FreeTypes
    BY <1>2, <1>4, <1>5 DEF room
  <2>2. /\ FreeHeader(type, 0, next, room) \in Header
        /\ FreeHeader(type, 0, next, room).type = type
        /\ FreeHeader(type, 0, next, room).next = next
        /\ FreeHeader(type, 0, next, room).room = room
    BY <2>1, FreeHeaderType
  <2> QED BY <2>2 DEF room
<1> HIDE DEF freed
<1>8. Extent(freed) <= freed.room
  BY <1>3, <1>4, <1>5, <1>7, ExtentType, Sizes
<1>9. /\ w.disk = Write(v.disk, o, freed) /\ w.bins = [v.bins EXCEPT ![c] = o]
      /\ w.end = v.end /\ w.last = v.last /\ w.cluster = v.cluster
      /\ w = [disk |-> w.disk, bins |-> w.bins, end |-> w.end, last |-> w.last,
              cluster |-> w.cluster]
  BY <1>1, <1>6 DEF IsVolume
<1>10. /\ w.disk \in [DOMAIN v.disk -> Header] /\ w.disk[o] = freed
       /\ \A p \in DOMAIN v.disk \ {o} : w.disk[p] = v.disk[p]
       /\ DOMAIN w.disk = DOMAIN v.disk
  <2>1. /\ Write(v.disk, o, freed) \in [DOMAIN v.disk -> Header]
        /\ Write(v.disk, o, freed)[o] = freed
        /\ \A p \in DOMAIN v.disk \ {o} : Write(v.disk, o, freed)[p] = v.disk[p]
    BY <1>1, <1>2, <1>7, <1>8, WriteInRoom
  <2> QED BY <1>9, <2>1
<1>11. IsVolume(w)
  <2>1. w.bins \in [Bins -> Nat]
    BY <1>1, <1>2, <1>9 DEF IsVolume
  <2> QED BY <1>1, <1>9, <1>10, <2>1 DEF IsVolume
<1>12. \A p \in DOMAIN v.disk : w.disk[p].room = v.disk[p].room
  BY <1>7, <1>10
<1>13. RoomsDisjoint(w)
  BY <1>1, <1>9, <1>10, <1>12 DEF RoomsDisjoint
<1>14. HeadersFit(w, {})
  BY <1>1, <1>5, <1>7, <1>8, <1>10 DEF HeadersFit
<1>15. /\ FreeOf(w, {}) = FreeOf(v, {}) \cup {o} /\ o \notin FreeOf(v, {})
       /\ \A p \in FreeOf(v, {}) : w.disk[p] = v.disk[p]
  BY <1>2, <1>5, <1>7, <1>10 DEF FreeOf, SimpleTypes, FreeTypes
<1>16. HeadsFree(w, {}) /\ LinksFree(w, {}) /\ ReferencesUnique(w, {})
  <2> DEFINE P == {}
  <2>1. /\ HeadsFree(v, P) /\ LinksFree(v, P) /\ ReferencesUnique(v, P)
        /\ FreeOf(w, P) = FreeOf(v, P) \cup {o} /\ o \notin FreeOf(v, P)
        /\ \A p \in FreeOf(v, P) : w.disk[p] = v.disk[p]
    BY <1>15 DEF Sound
  <2>2. v.bins \in [Bins -> Nat] /\ w.disk[o].next = v.bins[c]
    BY <1>1, <1>4, <1>7, <1>10 DEF IsVolume
  <2>3. /\ c > 0 => w.disk[o].room >= Simple8Size
        /\ c = 0 => w.disk[o].type = "kEmpty4Simple"
    BY <1>3, <1>4, <1>5, <1>7, <1>10
  <2> HIDE DEF P
  <2>4. HeadsFree(w, P) /\ LinksFree(w, P) /\ ReferencesUnique(w, P)
    BY <1>2, <1>4, <1>9, <2>1, <2>2, <2>3, LinkSound
  <2> QED BY <2>4 DEF P
<1>17. InUse(w.disk) = InUse(v.disk) \ {o}
  BY <1>5, <1>7, <1>10 DEF InUse, SimpleTypes, FreeTypes
<1>18. o \in HeadsOf(w.bins)
  <2>1. w.bins[c] = o /\ o # None
    BY <1>1, <1>2, <1>4, <1>9, Sizes DEF IsVolume
  <2> QED BY <1>4, <2>1 DEF HeadsOf
<1>19. c \in {0, 1} /\ c = IF size = Simple4Size THEN 0 ELSE 1
  BY <1>3, BinIdOfSimple, Sizes DEF c
<1>20. /\ IsFiled(v, w, {}, {}, o, c)
       /\ w.disk[o].type = IF c = 0 THEN "kEmpty4Simple" ELSE "kEmpty8Simple"
  BY <1>4, <1>7, <1>9, <1>10, <1>15, <1>19 DEF IsFiled, type
<1> QED
  BY <1>10, <1>11, <1>13, <1>14, <1>16, <1>17, <1>18, <1>19, <1>20 DEF Sound, w

\* An entry in use is not in the lists: it may be taken for a popped one.
LEMMA InUsePopped ==
  ASSUME NEW v, Sound(v, {}), NEW o \in InUse(v.disk)
  PROVE  Sound(v, {o})
<1>1. FreeOf(v, {o}) = FreeOf(v, {})
  BY DEF FreeOf, InUse, SimpleTypes, FreeTypes
<1>2. HeadersFit(v, {o})
  BY DEF Sound, HeadersFit
<1>3. HeadsFree(v, {o}) /\ LinksFree(v, {o}) /\ ReferencesUnique(v, {o})
  BY <1>1 DEF Sound, HeadsFree, LinksFree, ReferencesUnique
<1> QED BY <1>2, <1>3 DEF Sound

\* A header with a new expiry date fits where the old one was.
LEMMA ExpiredHeaderType ==
  ASSUME NEW h \in Header, h.type \in SimpleTypes, NEW time \in Nat
  PROVE  LET e == ExpiredHeader(h, time)
         IN  /\ e \in Header /\ e.type = h.type /\ e.room = h.room /\ e.data = h.data
             /\ e.state = {"kIsExpired"} /\ e.expires = time /\ Extent(e) = Extent(h)
<1> DEFINE e == ExpiredHeader(h, time)
<1>1. /\ e \in Header /\ e.type = h.type /\ e.room = h.room /\ e.data = h.data
      /\ e.state = {"kIsExpired"} /\ e.expires = time
  BY DEF ExpiredHeader, Header
<1> HIDE DEF e
<1>2. Extent(e) = Extent(h)
  BY <1>1, ExtentType DEF SimpleTypes
<1> QED BY <1>1, <1>2 DEF e

-----------------------------------------------------------------------------
(***************************************************************************)
(* FixedSizeInv is an invariant.                                           *)
(***************************************************************************)

\* A new volume is sound: its free lists are empty and nothing is held.
LEMMA InitInv ==
  ASSUME FixedSize, Init
  PROVE  FixedSizeInv
<1> DEFINE v == NewVolume
<1>1. ClusterSize = kDefaultClusterSize /\ ClusterSize \in Nat /\ ClusterSize > 0
  BY Sizes DEF FixedSize
<1>2. InitialLast(ClusterSize) \in Nat /\ InitialLast(ClusterSize) >= Milli
  BY <1>1, InitialLastType
<1>3. EmptyBins \in [Bins -> Nat] /\ \A b \in Bins : EmptyBins[b] = None
  BY Sizes DEF EmptyBins
<1>4. /\ v.disk = <<>> /\ v.bins = EmptyBins /\ v.end = FirstOffset
      /\ v.last = InitialLast(ClusterSize) /\ v.cluster = ClusterSize
      /\ v = [disk |-> v.disk, bins |-> v.bins, end |-> v.end, last |-> v.last,
              cluster |-> v.cluster]
  BY DEF NewVolume
<1>5. DOMAIN v.disk = {} /\ v.disk \in [DOMAIN v.disk -> Header]
  BY <1>4
<1> HIDE DEF v
<1>6. IsVolume(v)
  BY <1>1, <1>2, <1>3, <1>4, <1>5, Sizes DEF IsVolume
<1>7. Sound(v, {})
  <2>1. RoomsDisjoint(v) /\ HeadersFit(v, {})
    BY <1>5 DEF RoomsDisjoint, HeadersFit
  <2>2. HeadsFree(v, {}) /\ LinksFree(v, {}) /\ ReferencesUnique(v, {})
    BY <1>3, <1>4, <1>5 DEF HeadsFree, LinksFree, ReferencesUnique, FreeOf
  <2> QED BY <1>6, <2>1, <2>2 DEF Sound
<1>8. vol = v /\ opened = TRUE /\ Current = vol
  BY DEF Init, Current, v
<1>9. HeldOnDevice
  <2>1. DOMAIN held = {} /\ InUse(vol.disk) = {}
    BY <1>5, <1>8 DEF Init, InUse
  <2> QED BY <2>1 DEF HeldOnDevice
<1>10. /\ vol.bins \in [Bins -> Nat] /\ vol.end \in Nat /\ vol.last \in Nat
       /\ vol.cluster = kDefaultClusterSize
       /\ DOMAIN vol = {"disk", "bins", "end", "last", "cluster"}
  BY <1>1, <1>2, <1>3, <1>4, <1>8, Sizes
<1>11. saved.bins \in [Bins -> Nat] /\ saved.end \in Nat /\ saved.index \in Nat
  BY <1>3, Sizes DEF Init
<1>12. DOMAIN durable \subseteq DOMAIN held /\ crashes = 0 /\ writing = Idle
  BY DEF Init
<1> QED
  BY <1>7, <1>8, <1>9, <1>10, <1>11, <1>12 DEF FixedSizeInv

\* In an open session the invariant speaks of the volume itself.
LEMMA OpenInv ==
  ASSUME FixedSizeInv, opened
  PROVE  Sound(vol, {}) /\ IsVolume(vol) /\ InUse(vol.disk) = DOMAIN held
BY DEF FixedSizeInv, Current, Sound, HeldOnDevice

\* A step of an open session keeps the invariant if it leaves a sound volume and
\* what it holds is on the device.
LEMMA OpenStep ==
  ASSUME FixedSizeInv, Sound(vol', {}), HeldOnDevice', opened' = TRUE,
         DOMAIN durable' \subseteq DOMAIN held', UNCHANGED <<writing, crashes, saved>>
  PROVE  FixedSizeInv'
<1>1. Current' = vol'
  BY DEF Current
<1>2. /\ vol'.bins \in [Bins -> Nat] /\ vol'.end \in Nat /\ vol'.last \in Nat
      /\ vol'.cluster = kDefaultClusterSize
      /\ DOMAIN vol' = {"disk", "bins", "end", "last", "cluster"}
  BY DEF Sound, IsVolume
<1>3. /\ writing' = Idle /\ crashes' = 0
      /\ saved'.bins \in [Bins -> Nat] /\ saved'.end \in Nat /\ saved'.index \in Nat
  BY DEF FixedSizeInv
<1> QED BY <1>1, <1>2, <1>3 DEF FixedSizeInv

\* Creating an entry of fixed size keeps the invariant.
LEMMA CreateInv ==
  ASSUME FixedSize, FixedSizeInv, NEW value \in Values, CreateSimple(value)
  PROVE  FixedSizeInv'
<1> DEFINE size == SimpleHeaderSize(value.type)
           provided == Provided(vol, size)
           o == PopFreeEntryOffset(provided.bins, size)
<1>1. /\ opened = TRUE /\ value.type \in SimpleTypes
      /\ UNCHANGED <<opened, writing, saved, durable, crashes>>
  BY DEF CreateSimple, Running, FixedSizeInv
<1>2. Sound(vol, {}) /\ InUse(vol.disk) = DOMAIN held
  BY <1>1, OpenInv
<1>3. size \in {Simple4Size, Simple8Size}
  BY DEF SimpleHeaderSize
<1>4. Sound(provided, {}) /\ SameInUse(vol.disk, provided.disk)
  BY <1>2, <1>3, ProvidedSound
<1>5. CASE o = None
  <2>1. vol' = provided /\ held' = held
    BY <1>5 DEF CreateSimple
  <2> HIDE DEF provided
  <2>2. Sound(vol', {})
    BY <1>4, <2>1
  <2>3. HeldOnDevice'
    BY <1>4, <2>1 DEF FixedSizeInv, HeldOnDevice, SameInUse
  <2>4. DOMAIN durable' \subseteq DOMAIN held'
    BY <1>1, <2>1 DEF FixedSizeInv
  <2> QED BY <1>1, <2>2, <2>3, <2>4, OpenStep
<1>6. CASE o # None
  <2>1. PICK junk \in Junk :
          LET free == FreeEntry(provided, size, junk)
          IN  /\ vol' = [free EXCEPT !.disk = Write(free.disk, o,
                           SimpleHeader(value, RoomAt(free.disk, o)))]
              /\ held' = [p \in DOMAIN held \cup {o} |->
                            IF p = o THEN [value |-> value, expires |-> None]
                            ELSE held[p]]
    BY <1>6 DEF CreateSimple
  <2> DEFINE free == FreeEntry(provided, size, junk)
             room == free.disk[o].room
             h == SimpleHeader(value, room)
  <2>2. junk \in Nat
    BY EntriesAssumption DEF EntriesAssumption
  <2>3. /\ Sound(free, {o}) /\ SameInUse(provided.disk, free.disk)
        /\ o \in DOMAIN free.disk /\ room >= size /\ o \notin InUse(free.disk)
    <3> HIDE DEF provided, size
    <3> QED BY <1>3, <1>4, <1>6, <2>2, FreeEntrySound
  <2>4. vol' = [free EXCEPT !.disk = Write(free.disk, o, h)]
    BY <2>1, <2>3 DEF RoomAt, HeaderAt
  <2>5. held' = [p \in DOMAIN held \cup {o} |->
                   IF p = o THEN [value |-> value, expires |-> None] ELSE held[p]]
    BY <2>1
  <2> HIDE DEF free, provided, size, o
  <2>6. room \in Nat
    BY <2>3 DEF Sound, IsVolume, Header
  <2>7. /\ h \in Header /\ h.type = value.type /\ h.state = {} /\ h.data.value = value
        /\ h.room = room /\ Extent(h) = size
    <3> HIDE DEF room
    <3> QED BY <1>1, <2>6, SimpleHeaderType DEF size
  <2>8. Extent(h) <= h.room
    BY <1>3, <2>3, <2>6, <2>7, Sizes
  <2> HIDE DEF h
  <2>9. /\ Sound(vol', {}) /\ InUse(vol'.disk) = InUse(free.disk) \cup {o}
        /\ vol'.disk[o] = h
        /\ \A p \in DOMAIN free.disk \ {o} : vol'.disk[p] = free.disk[p]
    BY <1>1, <2>3, <2>4, <2>7, <2>8, WriteEntrySound
  <2>10. /\ InUse(free.disk) = DOMAIN held /\ o \notin DOMAIN held
         /\ \A p \in DOMAIN held : p \in DOMAIN free.disk /\ free.disk[p] = vol.disk[p]
    BY <1>2, <1>4, <2>3 DEF SameInUse, InUse
  <2>11. HeldOnDevice'
    <3>1. DOMAIN held' = InUse(vol'.disk)
      BY <2>5, <2>9, <2>10
    <3>2. ASSUME NEW p \in DOMAIN held'
          PROVE  /\ held'[p] = [value |-> vol'.disk[p].data.value,
                                expires |-> IF "kIsExpired" \in vol'.disk[p].state
                                            THEN vol'.disk[p].expires ELSE None]
                 /\ vol'.disk[p].data.value \in Values
      <4>1. CASE p = o
        BY <2>5, <2>7, <2>9, <4>1
      <4>2. CASE p # o
        <5>1. p \in DOMAIN held /\ held'[p] = held[p] /\ vol'.disk[p] = vol.disk[p]
          BY <2>5, <2>9, <2>10, <4>2
        <5> QED BY <5>1 DEF FixedSizeInv, HeldOnDevice
      <4> QED BY <4>1, <4>2
    <3> QED BY <3>1, <3>2 DEF HeldOnDevice
  <2>12. DOMAIN durable' \subseteq DOMAIN held'
    BY <1>1, <2>5 DEF FixedSizeInv
  <2> QED BY <1>1, <2>9, <2>11, <2>12, OpenStep
<1> QED BY <1>5, <1>6

\* Deleting an entry keeps the invariant.
LEMMA DeleteInv ==
  ASSUME FixedSize, FixedSizeInv, NEW o \in DOMAIN held, DeleteEntry(o)
  PROVE  FixedSizeInv'
<1>1. opened = TRUE /\ UNCHANGED <<opened, writing, saved, crashes>>
  BY DEF DeleteEntry, Running, FixedSizeInv
<1>2. Sound(vol, {}) /\ InUse(vol.disk) = DOMAIN held
  BY <1>1, OpenInv
<1>3. vol.disk[o].type \in SimpleTypes /\ HeaderAt(vol.disk, o) = vol.disk[o]
  BY <1>2 DEF InUse, HeaderAt
<1>4. /\ vol' = DeleteSimple(vol, o)
      /\ held' = Without(held, o) /\ durable' = Without(durable, o)
  BY <1>3 DEF DeleteEntry, SimpleTypes
<1>5. /\ Sound(vol', {}) /\ InUse(vol'.disk) = InUse(vol.disk) \ {o}
      /\ \A p \in DOMAIN vol.disk \ {o} : vol'.disk[p] = vol.disk[p]
  BY <1>2, <1>4, DeleteSimpleSound
<1>6. /\ DOMAIN held' = DOMAIN held \ {o} /\ \A p \in DOMAIN held' : held'[p] = held[p]
      /\ DOMAIN durable' = DOMAIN durable \ {o}
  BY <1>4 DEF Without
<1>7. HeldOnDevice'
  <2>1. \A p \in DOMAIN held' : p \in DOMAIN held /\ vol'.disk[p] = vol.disk[p]
    BY <1>2, <1>5, <1>6 DEF InUse
  <2> QED BY <1>2, <1>5, <1>6, <2>1 DEF FixedSizeInv, HeldOnDevice
<1>8. DOMAIN durable' \subseteq DOMAIN held'
  BY <1>6 DEF FixedSizeInv
<1> QED BY <1>1, <1>5, <1>7, <1>8, OpenStep

\* Setting an expiry date keeps the invariant.
LEMMA ExpireInv ==
  ASSUME FixedSize, FixedSizeInv, NEW o \in DOMAIN held, NEW time \in Times,
         SetEntryExpiredDate(o, time)
  PROVE  FixedSizeInv'
<1> DEFINE h == ExpiredHeader(vol.disk[o], time)
<1>1. opened = TRUE /\ UNCHANGED <<opened, writing, saved, crashes>>
  BY DEF SetEntryExpiredDate, Running, FixedSizeInv
<1>2. Sound(vol, {}) /\ InUse(vol.disk) = DOMAIN held
  BY <1>1, OpenInv
<1>3. HeaderAt(vol.disk, o) = vol.disk[o] /\ o \in InUse(vol.disk)
  BY <1>2 DEF InUse, HeaderAt
<1>4. /\ vol' = [vol EXCEPT !.disk = Write(vol.disk, o, h)]
      /\ held' = [held EXCEPT ![o].expires = time]
      /\ DOMAIN durable' = DOMAIN durable
  BY <1>3 DEF SetEntryExpiredDate
<1>5. time \in Nat
  BY LayoutAssumption DEF LayoutAssumption
<1>6. /\ Sound(vol', {}) /\ InUse(vol'.disk) = InUse(vol.disk)
      /\ vol'.disk[o] = h
      /\ h.data = vol.disk[o].data /\ h.state = {"kIsExpired"} /\ h.expires = time
      /\ \A p \in DOMAIN vol.disk \ {o} : vol'.disk[p] = vol.disk[p]
  <2>1. IsVolume(vol) /\ HeadersFit(vol, {})
    BY <1>2 DEF Sound
  <2>2. /\ o \in DOMAIN vol.disk /\ vol.disk[o] \in Header
        /\ vol.disk[o].type \in SimpleTypes
        /\ Extent(vol.disk[o]) <= vol.disk[o].room
    BY <1>3, <2>1 DEF InUse, IsVolume, HeadersFit
  <2>3. /\ h \in Header /\ h.type = vol.disk[o].type /\ h.room = vol.disk[o].room
        /\ h.data = vol.disk[o].data /\ h.state = {"kIsExpired"} /\ h.expires = time
        /\ Extent(h) = Extent(vol.disk[o])
    BY <1>5, <2>2, ExpiredHeaderType
  <2>4. Sound(vol, {o})
    BY <1>2, <1>3, InUsePopped
  <2>5. Extent(h) <= h.room /\ h.type \in SimpleTypes /\ h \in Header
    BY <2>2, <2>3
  <2> DEFINE v == vol
  <2>6. vol' = [v EXCEPT !.disk = Write(v.disk, o, h)] /\ h.room = v.disk[o].room
    BY <1>4, <2>3
  <2>7. Sound(v, {o}) /\ o \in DOMAIN v.disk
    BY <2>2, <2>4
  <2> HIDE DEF h, v
  <2>8. /\ Sound(vol', {}) /\ InUse(vol'.disk) = InUse(v.disk) \cup {o}
        /\ vol'.disk[o] = h
        /\ \A p \in DOMAIN v.disk \ {o} : vol'.disk[p] = v.disk[p]
    BY <2>5, <2>6, <2>7, WriteEntrySound
  <2> QED BY <1>3, <2>3, <2>8 DEF v
<1> HIDE DEF h
<1>7. DOMAIN held' = DOMAIN held
  BY <1>4
<1>8. HeldOnDevice'
  <2>1. ASSUME NEW p \in DOMAIN held'
        PROVE  /\ held'[p] = [value |-> vol'.disk[p].data.value,
                              expires |-> IF "kIsExpired" \in vol'.disk[p].state
                                          THEN vol'.disk[p].expires ELSE None]
               /\ vol'.disk[p].data.value \in Values
    <3>1. /\ held[p] = [value |-> vol.disk[p].data.value,
                        expires |-> IF "kIsExpired" \in vol.disk[p].state
                                    THEN vol.disk[p].expires ELSE None]
          /\ vol.disk[p].data.value \in Values /\ p \in DOMAIN held
      BY <1>7, <2>1 DEF FixedSizeInv, HeldOnDevice
    <3>2. CASE p = o
      <4>1. held'[p] = [held[p] EXCEPT !.expires = time]
        BY <1>4, <3>2
      <4>2. held'[p] = [value |-> vol.disk[p].data.value, expires |-> time]
        BY <3>1, <4>1
      <4> QED BY <1>6, <3>1, <3>2, <4>2
    <3>3. CASE p # o
      <4>1. held'[p] = held[p]
        BY <1>4, <3>1, <3>3
      <4>2. vol'.disk[p] = vol.disk[p]
        BY <1>2, <1>6, <3>1, <3>3 DEF InUse
      <4> QED BY <3>1, <4>1, <4>2
    <3> QED BY <3>2, <3>3
  <2> QED BY <1>2, <1>6, <1>7, <2>1 DEF HeldOnDevice
<1>9. DOMAIN durable' \subseteq DOMAIN held'
  BY <1>4, <1>7 DEF FixedSizeInv
<1> QED BY <1>1, <1>6, <1>8, <1>9, OpenStep

\* Saving closes the session on a device from which the next one starts.
LEMMA SaveInv ==
  ASSUME FixedSize, FixedSizeInv, NEW index \in DOMAIN held \cup {None},
         SaveStartEntries(index)
  PROVE  FixedSizeInv'
<1>1. /\ opened = TRUE /\ opened' = FALSE
      /\ saved' = [bins |-> vol.bins, end |-> vol.end, index |-> index, names |-> DOMAIN held]
      /\ vol' = [vol EXCEPT !.end = FirstOffset]
      /\ UNCHANGED <<writing, held, crashes>>
      /\ durable' = held
  BY DEF SaveStartEntries, Running, FixedSizeInv
<1>2. Sound(vol, {}) /\ IsVolume(vol) /\ InUse(vol.disk) = DOMAIN held
  BY <1>1, OpenInv
<1>3. /\ vol'.disk = vol.disk /\ vol'.bins = vol.bins /\ vol'.end = FirstOffset
      /\ vol'.last = vol.last /\ vol'.cluster = vol.cluster
      /\ DOMAIN vol' = {"disk", "bins", "end", "last", "cluster"}
  BY <1>1, <1>2 DEF IsVolume, FixedSizeInv
<1>4. /\ saved'.bins = vol.bins /\ saved'.end = vol.end /\ saved'.index = index
      /\ vol.bins \in [Bins -> Nat] /\ vol.end \in Nat
  BY <1>1, <1>2 DEF IsVolume
<1>5. index \in Nat
  BY <1>2, Sizes DEF InUse, IsVolume
<1>6. Sound(Loaded(vol', saved'), {})
  <2> DEFINE w == Loaded(vol', saved')
  <2>1. /\ w.disk = vol.disk /\ w.bins = vol.bins /\ w.end = vol.end
        /\ w.last = InitialLast(kDefaultClusterSize) /\ w.cluster = kDefaultClusterSize
        /\ w = [disk |-> w.disk, bins |-> w.bins, end |-> w.end, last |-> w.last,
                cluster |-> w.cluster]
    BY <1>3, <1>4 DEF Loaded
  <2>2. InitialLast(kDefaultClusterSize) \in Nat /\ InitialLast(kDefaultClusterSize) >= Milli
    BY Sizes, InitialLastType
  <2> HIDE DEF w
  <2>3. w.last \in Nat /\ w.last >= Milli
    BY <2>1, <2>2
  <2>4. Sound(w, {})
    BY <1>2, <2>1, <2>3, SameSound
  <2> QED BY <2>4 DEF w
<1>7. Current' = Loaded(vol', saved')
  BY <1>1 DEF Current
<1>8. HeldOnDevice'
  BY <1>1, <1>3 DEF FixedSizeInv, HeldOnDevice
<1>9. /\ vol'.bins \in [Bins -> Nat] /\ vol'.end \in Nat /\ vol'.last \in Nat
      /\ vol'.cluster = kDefaultClusterSize
  BY <1>2, <1>3, Sizes DEF IsVolume
<1>10. writing' = Idle /\ crashes' = 0 /\ opened' \in BOOLEAN
       /\ DOMAIN durable' \subseteq DOMAIN held'
  BY <1>1 DEF FixedSizeInv
<1>11. saved'.bins \in [Bins -> Nat] /\ saved'.end \in Nat /\ saved'.index \in Nat
  BY <1>4, <1>5
<1> QED
  BY <1>3, <1>6, <1>7, <1>8, <1>9, <1>10, <1>11 DEF FixedSizeInv

\* Loading opens the session that the invariant already speaks of.
LEMMA LoadInv ==
  ASSUME FixedSize, FixedSizeInv, LoadStartEntries
  PROVE  FixedSizeInv'
<1>1. /\ opened = FALSE /\ opened' = TRUE /\ vol' = Loaded(vol, saved)
      /\ UNCHANGED <<writing, saved, held, durable, crashes>>
  BY DEF LoadStartEntries, FixedSizeInv
<1>2. Sound(vol', {})
  BY <1>1 DEF FixedSizeInv, Current
<1>3. vol'.disk = vol.disk
  BY <1>1 DEF Loaded
<1>4. HeldOnDevice'
  BY <1>1, <1>3 DEF FixedSizeInv, HeldOnDevice
<1>5. DOMAIN durable' \subseteq DOMAIN held'
  BY <1>1 DEF FixedSizeInv
<1> QED BY <1>1, <1>2, <1>4, <1>5, OpenStep

\* Every step of the program keeps the invariant.
LEMMA NextInv ==
  ASSUME FixedSize, FixedSizeInv, [Next]_vars
  PROVE  FixedSizeInv'
<1>1. ASSUME NEW value \in Values, CreateSimple(value)
      PROVE  FixedSizeInv'
  BY <1>1, CreateInv
<1>2. ASSUME NEW value \in Values, BeginComplex(value)
      PROVE  FixedSizeInv'
  <2>1. value.type = "kString" /\ value.type \in SimpleTypes
    BY <1>2 DEF BeginComplex, FixedSize
  <2> QED BY <2>1 DEF SimpleTypes
<1>3. CASE WriteChunk
  BY <1>3 DEF WriteChunk, FixedSizeInv
<1>4. ASSUME NEW o \in DOMAIN held, DeleteEntry(o)
      PROVE  FixedSizeInv'
  BY <1>4, DeleteInv
<1>5. ASSUME NEW o \in DOMAIN held, NEW time \in Times, SetEntryExpiredDate(o, time)
      PROVE  FixedSizeInv'
  BY <1>5, ExpireInv
<1>6. ASSUME NEW index \in DOMAIN held \cup {None}, SaveStartEntries(index)
      PROVE  FixedSizeInv'
  BY <1>6, SaveInv
<1>7. CASE LoadStartEntries
  BY <1>7, LoadInv
<1>8. CASE UNCHANGED vars
  BY <1>8 DEF vars, FixedSizeInv, Current, HeldOnDevice
<1> QED
  BY <1>1, <1>2, <1>3, <1>4, <1>5, <1>6, <1>7, <1>8 DEF Next

\* Whatever entries of fixed size are created, deleted, expired, saved and
\* loaded, in whatever order: the volume stays sound and holds what is held.
THEOREM FixedSizeSafe ==
  ASSUME FixedSize
  PROVE  Spec => []FixedSizeInv
<1>1. Init => FixedSizeInv
  BY InitInv
<1>2. FixedSizeInv /\ [Next]_vars => FixedSizeInv'
  BY NextInv
<1> QED BY <1>1, <1>2, PTL DEF Spec

-----------------------------------------------------------------------------
(***************************************************************************)
(* What follows from the invariant.                                        *)
(***************************************************************************)

\* The device holds the headers of the current volume.
LEMMA CurrentDisk ==
  ASSUME FixedSizeInv
  PROVE  Current.disk = vol.disk /\ IsVolume(Current)
BY DEF FixedSizeInv, Current, Loaded, Sound

\* Every variable keeps its type, on volumes of any size.
THEOREM TypesOK ==
  ASSUME FixedSize
  PROVE  Spec => []TypeOK
<1>1. FixedSizeInv => TypeOK
  <2> SUFFICES ASSUME FixedSizeInv PROVE TypeOK
    OBVIOUS
  <2>1. \A o \in DOMAIN vol.disk : /\ o \in Nat
                                   /\ vol.disk[o].type \in PVType \cup {"overwritten"}
                                   /\ vol.disk[o].next \in Nat /\ vol.disk[o].room \in Nat
    BY CurrentDisk DEF IsVolume, Header
  <2>2. /\ DOMAIN vol = {"disk", "bins", "end", "last", "cluster"}
        /\ vol.bins \in [Bins -> Nat] /\ vol.end \in Nat /\ vol.last \in Nat
        /\ vol.cluster \in {ClusterSize, kDefaultClusterSize}
        /\ opened \in BOOLEAN /\ writing.value \in Values \cup {NoValue}
        /\ saved.bins \in [Bins -> Nat] /\ saved.end \in Nat /\ saved.index \in Nat
        /\ DOMAIN durable \subseteq DOMAIN held
    BY DEF FixedSizeInv, Idle
  <2>3. \A o \in DOMAIN held : held[o].value \in Values \cup {NoValue}
    BY DEF FixedSizeInv, HeldOnDevice
  <2>4. crashes \in 0 .. MaxCrashes
    BY EntriesAssumption DEF EntriesAssumption, FixedSizeInv
  <2> QED BY <2>1, <2>2, <2>3, <2>4 DEF TypeOK
<1> QED BY <1>1, FixedSizeSafe, PTL

\* No write of a header or of new clusters reaches into another entry.
THEOREM NeverOverwritten ==
  ASSUME FixedSize
  PROVE  Spec => []NothingOverwritten
<1>1. FixedSizeInv => NothingOverwritten
  BY CurrentDisk, SoundUndamaged DEF FixedSizeInv, NothingOverwritten, Damaged
<1> QED BY <1>1, FixedSizeSafe, PTL

\* What is read as the largest header, successors of popped entries too, is on the
\* device, for every size of the volume and of its clusters.
THEOREM ReadsAreOnDevice ==
  ASSUME FixedSize
  PROVE  Spec => []ReadsStayOnDevice
<1>1. FixedSizeInv => ReadsStayOnDevice
  BY OpenInv DEF Sound, RoomsDisjoint, ReadsStayOnDevice
<1> QED BY <1>1, FixedSizeSafe, PTL

\* Every entry of fixed size that is held reads back as what was stored last.
LEMMA ReadsBack ==
  ASSUME FixedSize, FixedSizeInv, NEW o \in DOMAIN held
  PROVE  ReadEntry(vol, o) = held[o]
<1>1. o \in DOMAIN vol.disk /\ vol.disk[o].type \in SimpleTypes
  BY DEF FixedSizeInv, HeldOnDevice, InUse
<1>2. HeaderAt(vol.disk, o) = vol.disk[o]
  BY <1>1 DEF HeaderAt
<1>3. vol.disk[o].data.value \in Values
  BY DEF FixedSizeInv, HeldOnDevice
<1>4. NoValue \notin Values
  BY ValuesAssumption DEF ValuesAssumption, NoValue, UserTypes, SimpleTypes
<1>5. held[o] = [value |-> vol.disk[o].data.value,
                 expires |-> IF "kIsExpired" \in vol.disk[o].state
                             THEN vol.disk[o].expires ELSE None]
  BY DEF FixedSizeInv, HeldOnDevice
<1> QED BY <1>1, <1>2, <1>3, <1>4, <1>5 DEF ReadEntry

\* ... in every state of every behaviour.
THEOREM AlwaysReadBack ==
  ASSUME FixedSize
  PROVE  Spec => []HeldReadBack
<1>1. FixedSizeInv => HeldReadBack
  BY ReadsBack DEF HeldReadBack
<1> QED BY <1>1, FixedSizeSafe, PTL

-----------------------------------------------------------------------------
(***************************************************************************)
(* What allocation can reach.                                              *)
(***************************************************************************)

\* the stages of Reachable up to the n-th
UpTo(disk, bins, n, f) ==
  [m \in 0 .. n |-> IF m = 0 THEN HeadsOf(bins)
                    ELSE f[m - 1] \cup LinkedFrom(disk, f[m - 1])]

\* The recursive function of Reachable exists, up to every stage.
LEMMA StagesExist ==
  ASSUME NEW disk, NEW bins, NEW n \in Nat
  PROVE  \E f : f = UpTo(disk, bins, n, f)
<1> DEFINE T == {m \in Nat : ~ \E f : f = UpTo(disk, bins, m, f)}
<1> SUFFICES ASSUME T # {} PROVE FALSE
  OBVIOUS
<1>1. PICK m \in T : \A l \in T : m <= l
  <2>1. T \subseteq Nat
    OBVIOUS
  <2> HIDE DEF T
  <2> QED BY <2>1, LeastNumber
<1>2. m \in Nat /\ ~ \E f : f = UpTo(disk, bins, m, f)
  BY <1>1
<1>3. m # 0
  <2> DEFINE f == [l \in 0 .. 0 |-> HeadsOf(bins)]
  <2>1. f = UpTo(disk, bins, 0, f)
    BY DEF UpTo
  <2> QED BY <1>2, <2>1
<1>4. m - 1 \in Nat /\ ~(m <= m - 1)
  BY <1>2, <1>3
<1>5. PICK g : g = UpTo(disk, bins, m - 1, g)
  <2>1. m - 1 \notin T
    <3> HIDE DEF T
    <3> QED BY <1>1, <1>4
  <2> QED BY <1>4, <2>1
<1> DEFINE f == [l \in 0 .. m |-> IF l = m THEN g[m - 1] \cup LinkedFrom(disk, g[m - 1])
                                  ELSE g[l]]
<1>6. \A l \in 0 .. m - 1 : f[l] = g[l]
  BY <1>2
<1>7. \A l \in 0 .. m - 1 :
        g[l] = IF l = 0 THEN HeadsOf(bins) ELSE g[l - 1] \cup LinkedFrom(disk, g[l - 1])
  BY <1>4, <1>5, Zenon DEF UpTo
<1>8. \A l \in 0 .. m :
        f[l] = IF l = 0 THEN HeadsOf(bins) ELSE f[l - 1] \cup LinkedFrom(disk, f[l - 1])
  <2> SUFFICES ASSUME NEW l \in 0 .. m
               PROVE  f[l] = IF l = 0 THEN HeadsOf(bins)
                             ELSE f[l - 1] \cup LinkedFrom(disk, f[l - 1])
    OBVIOUS
  <2>1. CASE l = m
    <3>1. f[l] = g[m - 1] \cup LinkedFrom(disk, g[m - 1])
      BY <2>1
    <3>2. f[l - 1] = g[m - 1] /\ l # 0
      BY <1>3, <1>4, <1>6, <2>1
    <3> QED BY <3>1, <3>2
  <2>2. CASE l # m
    <3>1. l \in 0 .. m - 1 /\ (l # 0 => l - 1 \in 0 .. m - 1)
      BY <1>2, <2>2
    <3> HIDE DEF f
    <3> QED BY <1>6, <1>7, <3>1
  <2> QED BY <2>1, <2>2
<1>9. f = [l \in 0 .. m |-> f[l]]
  OBVIOUS
<1> HIDE DEF f
<1>10. f = UpTo(disk, bins, m, f)
  BY <1>8, <1>9, Zenon DEF UpTo
<1> QED BY <1>2, <1>10

\* The set of what can be reached contains the heads and no more than any set that
\* contains the heads and what its members link to.
LEMMA ReachableBounds ==
  ASSUME NEW disk, NEW bins, IsFiniteSet(DOMAIN disk)
  PROVE  /\ HeadsOf(bins) \subseteq Reachable(disk, bins)
         /\ \A S : HeadsOf(bins) \subseteq S /\ LinkedFrom(disk, S) \subseteq S
                  => Reachable(disk, bins) \subseteq S
<1> DEFINE N == Cardinality(DOMAIN disk)
           f == CHOOSE g : g = UpTo(disk, bins, N, g)
<1>1. N \in Nat
  BY FS_CardinalityType
<1>2. Reachable(disk, bins) = f[N]
  BY Zenon DEF Reachable, UpTo, HeadsOf, LinkedFrom
<1> HIDE DEF N
<1>3. f = UpTo(disk, bins, N, f)
  BY <1>1, StagesExist
<1> HIDE DEF f
<1>4. \A l \in 0 .. N :
        f[l] = IF l = 0 THEN HeadsOf(bins) ELSE f[l - 1] \cup LinkedFrom(disk, f[l - 1])
  BY <1>3, Zenon DEF UpTo
<1>5. ASSUME NEW S, HeadsOf(bins) \subseteq S, LinkedFrom(disk, S) \subseteq S
      PROVE  \A n \in 0 .. N : HeadsOf(bins) \subseteq f[n] /\ f[n] \subseteq S
  <2> DEFINE Good(n) == HeadsOf(bins) \subseteq f[n] /\ f[n] \subseteq S
             T == {n \in 0 .. N : ~Good(n)}
  <2> SUFFICES ASSUME T # {} PROVE FALSE
    OBVIOUS
  <2>1. PICK n \in T : \A l \in T : n <= l
    <3>1. T \subseteq Nat
      BY <1>1
    <3> HIDE DEF T
    <3> QED BY <3>1, LeastNumber
  <2>2. n \in 0 .. N /\ ~Good(n)
    BY <2>1
  <2>3. n # 0
    BY <1>4, <1>5, <2>2
  <2>4. n - 1 \in 0 .. N /\ ~(n <= n - 1)
    BY <1>1, <2>2, <2>3
  <2>5. Good(n - 1)
    <3>1. n - 1 \notin T
      <4> HIDE DEF T
      <4> QED BY <2>1, <2>4
    <3> HIDE DEF Good
    <3> QED BY <2>4, <3>1
  <2>6. LinkedFrom(disk, f[n - 1]) \subseteq LinkedFrom(disk, S)
    BY <2>5 DEF LinkedFrom
  <2>7. f[n] = f[n - 1] \cup LinkedFrom(disk, f[n - 1])
    BY <1>4, <2>2, <2>3
  <2> QED BY <1>5, <2>2, <2>5, <2>6, <2>7
<1>6. N \in 0 .. N
  BY <1>1
<1>7. HeadsOf(bins) \subseteq f[N]
  <2> DEFINE S == HeadsOf(bins) \cup {disk[o].next : o \in DOMAIN disk}
                  \cup {Overwritten.next}
  <2>1. LinkedFrom(disk, S) \subseteq S
    BY DEF LinkedFrom, HeaderAt
  <2>2. HeadsOf(bins) \subseteq S
    OBVIOUS
  <2> HIDE DEF S
  <2> QED BY <1>5, <1>6, <2>1, <2>2
<1> QED BY <1>2, <1>5, <1>6, <1>7

\* Headers lie between the start and the end of the device: there are finitely many.
LEMMA FinitelyMany ==
  ASSUME NEW v, IsVolume(v), RoomsDisjoint(v)
  PROVE  IsFiniteSet(DOMAIN v.disk)
<1>1. v.end \in Nat /\ DOMAIN v.disk \subseteq Nat
  BY DEF IsVolume
<1>2. DOMAIN v.disk \subseteq 0 .. v.end
  BY <1>1, Sizes DEF RoomsDisjoint
<1>3. IsFiniteSet(0 .. v.end)
  <2> DEFINE end == v.end
  <2>1. 0 \in Int /\ end \in Int
    BY <1>1
  <2> HIDE DEF end
  <2>2. IsFiniteSet(0 .. end)
    BY <2>1, FS_Interval
  <2> QED BY <2>2 DEF end
<1> QED BY <1>2, <1>3, FS_Subset

\* What can be reached in a sound volume is free.
LEMMA ReachableIsFree ==
  ASSUME NEW v, Sound(v, {})
  PROVE  /\ Reachable(v.disk, v.bins) \subseteq FreeOf(v, {})
         /\ HeadsOf(v.bins) \subseteq Reachable(v.disk, v.bins)
<1>1. IsFiniteSet(DOMAIN v.disk)
  BY FinitelyMany DEF Sound
<1>2. HeadsOf(v.bins) \subseteq FreeOf(v, {})
  BY DEF Sound, HeadsFree, HeadsOf
<1>3. \A p \in FreeOf(v, {}) : HeaderAt(v.disk, p) = v.disk[p]
  BY DEF FreeOf, HeaderAt
<1>4. LinkedFrom(v.disk, FreeOf(v, {})) \subseteq FreeOf(v, {})
  BY <1>3 DEF Sound, LinksFree, LinkedFrom
<1> QED BY <1>1, <1>2, <1>4, ReachableBounds

\* The free lists that the next call works on are those of the current volume.
LEMMA CurrentLists ==
  ASSUME FixedSizeInv
  PROVE  /\ Sound(Current, {}) /\ Current.disk = vol.disk
         /\ Current.bins = IF opened THEN vol.bins ELSE saved.bins
BY DEF FixedSizeInv, Current, Loaded

\* Allocation never reaches an entry that is held.
THEOREM ListsAreSeparate ==
  ASSUME FixedSize
  PROVE  Spec => []FreeListsSeparate
<1>1. FixedSizeInv => FreeListsSeparate
  <2> SUFFICES ASSUME FixedSizeInv PROVE FreeListsSeparate
    OBVIOUS
  <2> DEFINE v == Current
  <2>1. /\ Sound(v, {}) /\ v.disk = vol.disk
        /\ v.bins = IF opened THEN vol.bins ELSE saved.bins
    BY CurrentLists
  <2> HIDE DEF v
  <2>2. Reachable(v.disk, v.bins) \subseteq FreeOf(v, {})
    BY <2>1, ReachableIsFree
  <2>3. DOMAIN held = InUse(v.disk)
    BY <2>1 DEF FixedSizeInv, HeldOnDevice
  <2>4. FreeOf(v, {}) \cap InUse(v.disk) = {}
    BY DEF FreeOf, InUse, FreeTypes, SimpleTypes
  <2> QED BY <2>1, <2>2, <2>3, <2>4 DEF FreeListsSeparate
<1> QED BY <1>1, FixedSizeSafe, PTL

\* No entry is free for two callers.
THEOREM NothingIsFreeTwice ==
  ASSUME FixedSize
  PROVE  Spec => []NoDoubleReference
<1>1. FixedSizeInv => NoDoubleReference
  <2> SUFFICES ASSUME FixedSizeInv PROVE NoDoubleReference
    OBVIOUS
  <2> DEFINE v == Current
             bins == IF opened THEN vol.bins ELSE saved.bins
             links == {<<"next", o>> : o \in Reachable(vol.disk, bins)}
                        \cup {<<"head", b>> : b \in Bins}
             Target(l) == IF l[1] = "next" THEN HeaderAt(vol.disk, l[2]).next ELSE bins[l[2]]
  <2>1. Sound(v, {}) /\ v.disk = vol.disk /\ v.bins = bins
    BY CurrentLists
  <2> HIDE DEF v, bins
  <2>2. Reachable(vol.disk, bins) \subseteq FreeOf(v, {})
    BY <2>1, ReachableIsFree
  <2>3. \A p \in FreeOf(v, {}) : HeaderAt(vol.disk, p) = v.disk[p]
    BY <2>1 DEF FreeOf, HeaderAt
  <2>4. /\ \A b, c \in Bins : b # c /\ bins[b] # None => bins[b] # bins[c]
        /\ \A b \in Bins, o \in FreeOf(v, {}) : bins[b] # None => bins[b] # v.disk[o].next
        /\ \A o, p \in FreeOf(v, {}) :
             o # p /\ v.disk[o].next # None => v.disk[o].next # v.disk[p].next
    BY <2>1 DEF Sound, ReferencesUnique
  <2>5. \A k \in links :
          \/ k[1] = "next" /\ k = <<"next", k[2]>> /\ k[2] \in FreeOf(v, {})
             /\ Target(k) = v.disk[k[2]].next
          \/ k[1] = "head" /\ k = <<"head", k[2]>> /\ k[2] \in Bins /\ Target(k) = bins[k[2]]
    BY <2>2, <2>3
  <2> HIDE DEF Target, links
  <2>6. ASSUME NEW k \in links, NEW l \in links, k # l, Target(k) # None
        PROVE  Target(k) # Target(l)
    BY <2>4, <2>5, <2>6
  <2> QED BY <2>6 DEF NoDoubleReference, Target, links, bins
<1> QED BY <1>1, FixedSizeSafe, PTL

\* A deleted entry can be reached by the allocations to come.
THEOREM DeletedComesBack ==
  ASSUME FixedSize
  PROVE  Spec => DeletedIsReachable
<1> DEFINE Comes == \A o \in DOMAIN held : opened' /\ o \notin DOMAIN held' =>
                      o \in Reachable(vol'.disk, vol'.bins)
<1>1. ASSUME FixedSizeInv, FixedSizeInv', [Next]_vars
      PROVE  Comes
  <2> SUFFICES ASSUME NEW o \in DOMAIN held, opened', o \notin DOMAIN held'
               PROVE  o \in Reachable(vol'.disk, vol'.bins)
    OBVIOUS
  <2>1. ASSUME NEW value \in Values, CreateSimple(value)
        PROVE  FALSE
    BY <2>1 DEF CreateSimple
  <2>2. ASSUME NEW value \in Values, BeginComplex(value)
        PROVE  FALSE
    BY <2>2 DEF BeginComplex, FixedSize, SimpleTypes
  <2>3. ~WriteChunk
    BY <1>1 DEF WriteChunk, FixedSizeInv
  <2>4. ASSUME NEW p \in DOMAIN held, DeleteEntry(p)
        PROVE  o \in Reachable(vol'.disk, vol'.bins)
    <3>1. p = o
      BY <2>4 DEF DeleteEntry, Without
    <3>2. Sound(vol, {}) /\ o \in InUse(vol.disk)
      BY <1>1, <2>4, OpenInv DEF DeleteEntry, Running
    <3>3. vol' = DeleteSimple(vol, o)
      BY <2>4, <3>1, <3>2 DEF DeleteEntry, InUse, HeaderAt, SimpleTypes
    <3>4. Sound(vol', {}) /\ o \in HeadsOf(vol'.bins)
      BY <3>2, <3>3, DeleteSimpleSound
    <3> QED BY <3>4, ReachableIsFree
  <2>5. ASSUME NEW p \in DOMAIN held, NEW time \in Times, SetEntryExpiredDate(p, time)
        PROVE  FALSE
    BY <2>5 DEF SetEntryExpiredDate
  <2>6. ASSUME NEW index \in DOMAIN held \cup {None}, SaveStartEntries(index)
        PROVE  FALSE
    BY <2>6 DEF SaveStartEntries
  <2>7. ~LoadStartEntries
    BY DEF LoadStartEntries
  <2>8. ~UNCHANGED vars
    BY DEF vars
  <2> QED
    BY <1>1, <2>1, <2>2, <2>3, <2>4, <2>5, <2>6, <2>7, <2>8 DEF Next
<1>2. FixedSizeInv /\ FixedSizeInv' /\ [Next]_vars => [Comes]_vars
  BY <1>1
<1> QED
  BY <1>2, FixedSizeSafe, PTL DEF Spec, DeletedIsReachable

-----------------------------------------------------------------------------
(***************************************************************************)
(* What is free stays in reach.                                            *)
(***************************************************************************)

\* Stages that grow at every step outgrow every finite set: the set of what can be
\* reached contains what its members link to.
LEMMA ReachableIsClosed ==
  ASSUME NEW disk, NEW bins, IsFiniteSet(DOMAIN disk),
         NEW F, F \subseteq DOMAIN disk, HeadsOf(bins) \subseteq F, LinkedFrom(disk, F) \subseteq F
  PROVE  LinkedFrom(disk, Reachable(disk, bins)) \subseteq Reachable(disk, bins)
<1> DEFINE N == Cardinality(DOMAIN disk)
           f == CHOOSE g : g = UpTo(disk, bins, N, g)
           Closed(S) == LinkedFrom(disk, S) \subseteq S
<1>1. N \in Nat
  BY FS_CardinalityType
<1>2. Reachable(disk, bins) = f[N]
  BY Zenon DEF Reachable, UpTo, HeadsOf, LinkedFrom
<1> HIDE DEF N
<1>3. f = UpTo(disk, bins, N, f)
  BY <1>1, StagesExist
<1> HIDE DEF f
<1>4. \A l \in 0 .. N :
        f[l] = IF l = 0 THEN HeadsOf(bins) ELSE f[l - 1] \cup LinkedFrom(disk, f[l - 1])
  BY <1>3, Zenon DEF UpTo
<1> DEFINE Good(n) == /\ f[n] \subseteq F
                      /\ Closed(f[n]) \/ Cardinality(f[n]) >= n
           T == {n \in 0 .. N : ~Good(n)}
<1>5. T = {}
  <2> SUFFICES ASSUME T # {} PROVE FALSE
    OBVIOUS
  <2>1. PICK n \in T : \A l \in T : n <= l
    <3>1. T \subseteq Nat
      BY <1>1
    <3> HIDE DEF T
    <3> QED BY <3>1, LeastNumber
  <2>2. n \in 0 .. N /\ ~Good(n)
    BY <2>1
  <2>3. \A S : S \subseteq F => IsFiniteSet(S) /\ Cardinality(S) \in Nat
    <3>1. IsFiniteSet(F)
      BY FS_Subset
    <3> QED BY <3>1, FS_Subset, FS_CardinalityType
  <2>4. n # 0
    <3>1. n = 0 => f[n] = HeadsOf(bins)
      BY <1>4, <2>2
    <3> QED BY <2>2, <2>3, <3>1
  <2>5. n - 1 \in 0 .. N /\ ~(n <= n - 1) /\ n \in Nat
    BY <1>1, <2>2, <2>4
  <2>6. Good(n - 1)
    <3>1. n - 1 \notin T
      <4> HIDE DEF T
      <4> QED BY <2>1, <2>5
    <3> HIDE DEF Good
    <3> QED BY <2>5, <3>1
  <2> DEFINE old == f[n - 1]
             more == LinkedFrom(disk, old)
  <2>7. f[n] = old \cup more
    BY <1>4, <2>2, <2>4
  <2>8. old \subseteq F /\ more \subseteq F
    BY <2>6 DEF LinkedFrom
  <2> HIDE DEF T, old, more
  <2>9. CASE more \subseteq old
    <3>1. f[n] = old
      BY <2>7, <2>9
    <3>2. Closed(f[n])
      BY <2>9, <3>1 DEF more
    <3> QED BY <2>2, <2>8, <3>1, <3>2
  <2>10. CASE ~(more \subseteq old)
    <3>1. Cardinality(old) >= n - 1
      BY <2>6, <2>10 DEF old, more
    <3>2. PICK p \in more : p \notin old
      BY <2>10
    <3>3. IsFiniteSet(old) /\ IsFiniteSet(f[n]) /\ old \cup {p} \subseteq f[n]
          /\ Cardinality(old) \in Nat /\ Cardinality(f[n]) \in Nat
      BY <2>3, <2>7, <2>8, <3>2
    <3>4. Cardinality(old \cup {p}) = Cardinality(old) + 1
      BY <3>2, <3>3, FS_AddElement
    <3>5. Cardinality(old \cup {p}) <= Cardinality(f[n])
      BY <3>3, FS_Subset
    <3>6. Cardinality(f[n]) >= n
      BY <2>5, <3>1, <3>3, <3>4, <3>5
    <3> QED BY <2>2, <2>7, <2>8, <3>6
  <2> QED BY <2>9, <2>10
<1>6. Good(N)
  BY <1>1, <1>5
<1>7. CASE ~Closed(f[N])
  <2>1. f[N] \subseteq DOMAIN disk /\ Cardinality(f[N]) >= N /\ Cardinality(f[N]) <= N
        /\ Cardinality(f[N]) \in Nat
    BY <1>6, <1>7, FS_Subset, FS_CardinalityType DEF N
  <2>2. f[N] = DOMAIN disk
    BY <1>1, <2>1, FS_Subset DEF N
  <2>3. LinkedFrom(disk, f[N]) \subseteq f[N]
    BY <1>6, <2>2 DEF LinkedFrom
  <2> QED BY <1>7, <2>3
<1> QED BY <1>2, <1>7

\* A sound volume's free lists lead from free entries to free entries, and what they
\* reach ends where they end.
LEMMA ListsAreClosed ==
  ASSUME NEW v, NEW popped, Sound(v, popped)
  PROVE  /\ Reachable(v.disk, v.bins) \subseteq FreeOf(v, popped)
         /\ HeadsOf(v.bins) \subseteq Reachable(v.disk, v.bins)
         /\ \A p \in Reachable(v.disk, v.bins) :
              v.disk[p].next # None => v.disk[p].next \in Reachable(v.disk, v.bins)
<1> DEFINE R == Reachable(v.disk, v.bins)
           F == FreeOf(v, popped)
<1>1. IsFiniteSet(DOMAIN v.disk)
  BY FinitelyMany DEF Sound
<1>2. HeadsOf(v.bins) \subseteq F
  BY DEF Sound, HeadsFree, HeadsOf
<1>3. F \subseteq DOMAIN v.disk /\ \A p \in F : HeaderAt(v.disk, p) = v.disk[p]
  BY DEF FreeOf, HeaderAt
<1>4. LinkedFrom(v.disk, F) \subseteq F
  BY <1>3 DEF Sound, LinksFree, LinkedFrom
<1> HIDE DEF F
<1>5. R \subseteq F /\ HeadsOf(v.bins) \subseteq R
  BY <1>1, <1>2, <1>4, ReachableBounds
<1>6. LinkedFrom(v.disk, R) \subseteq R
  BY <1>1, <1>2, <1>3, <1>4, ReachableIsClosed
<1> HIDE DEF R
<1>7. ASSUME NEW p \in R, v.disk[p].next # None PROVE v.disk[p].next \in R
  <2>1. HeaderAt(v.disk, p) = v.disk[p]
    BY <1>3, <1>5
  <2> QED BY <1>6, <1>7, <2>1 DEF LinkedFrom
<1> QED BY <1>5, <1>7 DEF R, F

\* To stay in reach it is enough for the heads and for what follows what stayed.
LEMMA StaysInReach ==
  ASSUME NEW v, NEW popped, Sound(v, popped), NEW G,
         HeadsOf(v.bins) \subseteq G,
         \A p \in FreeOf(v, popped) \cap G : v.disk[p].next # None => v.disk[p].next \in G
  PROVE  Reachable(v.disk, v.bins) \subseteq G
<1> DEFINE S == FreeOf(v, popped) \cap G
<1>1. IsFiniteSet(DOMAIN v.disk)
  BY FinitelyMany DEF Sound
<1>2. HeadsOf(v.bins) \subseteq S
  BY DEF Sound, HeadsFree, HeadsOf
<1>3. \A p \in S : HeaderAt(v.disk, p) = v.disk[p]
  BY DEF FreeOf, HeaderAt
<1>4. LinkedFrom(v.disk, S) \subseteq S
  BY <1>3 DEF Sound, LinksFree, LinkedFrom
<1> HIDE DEF S
<1>5. Reachable(v.disk, v.bins) \subseteq S
  BY <1>1, <1>2, <1>4, ReachableBounds
<1> QED BY <1>5 DEF S

\* A new head links to the one it replaces.
LEMMA FilingKeepsReach ==
  ASSUME NEW v, NEW w, NEW P, NEW Q, NEW n, NEW c, Sound(v, P), Sound(w, Q),
         IsFiled(v, w, P, Q, n, c), n # None
  PROVE  Reachable(v.disk, v.bins) \subseteq Reachable(w.disk, w.bins)
<1> DEFINE R == Reachable(w.disk, w.bins)
<1>1. /\ HeadsOf(w.bins) \subseteq R
      /\ \A p \in R : w.disk[p].next # None => w.disk[p].next \in R
  BY ListsAreClosed
<1> HIDE DEF R
<1>2. v.bins \in [Bins -> Nat] /\ c \in Bins
  BY DEF Sound, IsVolume, IsFiled
<1>3. n \in R
  BY <1>1, <1>2 DEF IsFiled, HeadsOf
<1>4. HeadsOf(v.bins) \subseteq R
  <2> SUFFICES ASSUME NEW b \in Bins, v.bins[b] # None PROVE v.bins[b] \in R
    BY DEF HeadsOf
  <2>1. CASE b = c
    BY <1>1, <1>3, <2>1 DEF IsFiled
  <2>2. CASE b # c
    <3>1. w.bins[b] = v.bins[b]
      BY <1>2, <2>2 DEF IsFiled
    <3> QED BY <1>1, <3>1 DEF HeadsOf
  <2> QED BY <2>1, <2>2
<1>5. \A p \in FreeOf(v, P) \cap R : v.disk[p].next # None => v.disk[p].next \in R
  BY <1>1 DEF IsFiled
<1> QED BY <1>4, <1>5, StaysInReach DEF R

\* A new head that belongs to its bin, and is followed by what may follow it.
LEMMA FilingKeepsFiled ==
  ASSUME NEW v, NEW w, NEW P, NEW Q, NEW n, NEW c, Sound(v, P), Filed(v, P),
         IsFiled(v, w, P, Q, n, c), FiledIn(c, w.disk[n]),
         v.bins[c] # None => IsFollowedBy(w.disk[n].type, v.disk[v.bins[c]])
  PROVE  Filed(w, Q)
<1>1. v.bins \in [Bins -> Nat] /\ c \in Bins
  BY DEF Sound, IsVolume, IsFiled
<1>2. \A b \in Bins : v.bins[b] # None => v.bins[b] \in FreeOf(v, P)
  BY DEF Sound, HeadsFree
<1>3. \A p \in FreeOf(v, P) : v.disk[p].next # None => v.disk[p].next \in FreeOf(v, P)
  BY DEF Sound, LinksFree
<1>4. \A p \in FreeOf(v, P) : w.disk[p] = v.disk[p]
  BY DEF IsFiled
<1>5. w.bins[c] = n /\ \A b \in Bins : b # c => w.bins[b] = v.bins[b]
  BY <1>1 DEF IsFiled
<1>6. ASSUME NEW b \in Bins, w.bins[b] # None PROVE FiledIn(b, w.disk[w.bins[b]])
  <2>1. CASE b = c
    BY <1>5, <2>1
  <2>2. CASE b # c
    BY <1>2, <1>4, <1>5, <1>6, <2>2 DEF Filed
  <2> QED BY <2>1, <2>2
<1>7. ASSUME NEW p \in FreeOf(w, Q), w.disk[p].next # None
      PROVE  IsFollowedBy(w.disk[p].type, w.disk[w.disk[p].next])
  <2>1. CASE p = n
    <3>1. w.disk[n].next = v.bins[c] /\ v.bins[c] # None
      BY <1>7, <2>1 DEF IsFiled
    <3>2. w.disk[v.bins[c]] = v.disk[v.bins[c]]
      BY <1>1, <1>2, <1>4, <3>1
    <3> QED BY <2>1, <3>1, <3>2
  <2>2. CASE p # n
    <3>1. p \in FreeOf(v, P) /\ w.disk[p] = v.disk[p]
      BY <2>2 DEF IsFiled
    <3>2. v.disk[p].next \in FreeOf(v, P) /\ w.disk[v.disk[p].next] = v.disk[v.disk[p].next]
      BY <1>3, <1>4, <1>7, <3>1
    <3> QED BY <1>7, <3>1, <3>2 DEF Filed
  <2> QED BY <2>1, <2>2
<1> QED BY <1>6, <1>7 DEF Filed

\* An expansion adds the new clusters and loses nothing.
LEMMA ExpansionKeepsLists ==
  ASSUME NEW v, NEW w, Sound(v, {}), Sound(w, {}), Filed(v, {}), HasNewClusters(v, w),
         v.bins[kBinCount - 1] = None
  PROVE  Filed(w, {}) /\ Reachable(v.disk, v.bins) \subseteq Reachable(w.disk, w.bins)
<1> DEFINE new == DOMAIN w.disk \ DOMAIN v.disk
           top == kBinCount - 1
<1>1. /\ DOMAIN v.disk \subseteq DOMAIN w.disk
      /\ \A p \in DOMAIN v.disk : w.disk[p] = v.disk[p]
      /\ \A p \in new : IsCluster(w.disk[p]) /\ (w.disk[p].next # None => w.disk[p].next \in new)
      /\ w.bins[top] \in new
      /\ \A b \in Bins : b # top => w.bins[b] = v.bins[b]
  BY DEF HasNewClusters
<1>2. \A b \in Bins : v.bins[b] # None => v.bins[b] \in FreeOf(v, {})
  BY DEF Sound, HeadsFree
<1>3. \A p \in FreeOf(v, {}) : v.disk[p].next # None => v.disk[p].next \in FreeOf(v, {})
  BY DEF Sound, LinksFree
<1>4. FreeOf(v, {}) \subseteq DOMAIN v.disk /\ FreeOf(w, {}) \subseteq FreeOf(v, {}) \cup new
  BY <1>1 DEF FreeOf
<1> HIDE DEF new
<1>5. ASSUME NEW b \in Bins, w.bins[b] # None PROVE FiledIn(b, w.disk[w.bins[b]])
  <2>1. CASE b = top
    BY <1>1, <2>1, ManyBins DEF FiledIn, IsCluster
  <2>2. CASE b # top
    BY <1>1, <1>2, <1>4, <1>5, <2>2 DEF Filed
  <2> QED BY <2>1, <2>2
<1>6. ASSUME NEW p \in FreeOf(w, {}), w.disk[p].next # None
      PROVE  IsFollowedBy(w.disk[p].type, w.disk[w.disk[p].next])
  <2>1. CASE p \in new
    BY <1>1, <1>6, <2>1 DEF IsFollowedBy, IsCluster
  <2>2. CASE p \in FreeOf(v, {})
    BY <1>1, <1>3, <1>4, <1>6, <2>2 DEF Filed
  <2> QED BY <1>4, <2>1, <2>2
<1>7. Reachable(v.disk, v.bins) \subseteq Reachable(w.disk, w.bins)
  <2> DEFINE R == Reachable(w.disk, w.bins)
  <2>1. /\ HeadsOf(w.bins) \subseteq R
        /\ \A p \in R : w.disk[p].next # None => w.disk[p].next \in R
    BY ListsAreClosed
  <2> HIDE DEF R
  <2>2. HeadsOf(v.bins) \subseteq R
    BY <1>1, <2>1 DEF HeadsOf
  <2>3. \A p \in FreeOf(v, {}) \cap R : v.disk[p].next # None => v.disk[p].next \in R
    BY <1>1, <1>4, <2>1
  <2> QED BY <2>2, <2>3, StaysInReach DEF R
<1> QED BY <1>5, <1>6, <1>7 DEF Filed

\* The bin that is popped is the first one that serves the request and is not empty.
LEMMA PopBinIsFirst ==
  ASSUME NEW bins \in [Bins -> Nat], NEW size \in {Simple4Size, Simple8Size},
         PopFreeEntryOffset(bins, size) # None,
         NEW c \in Bins, c >= 1, c < PopBin(bins, size)
  PROVE  bins[c] = None
<1> DEFINE serving == {d \in NonEmptyBins(bins) : size <= kFreelistLimits[d]}
<1>1. PopBin(bins, size) # NoBin /\ size < kDefaultClusterSize
  BY Sizes DEF PopFreeEntryOffset
<1>2. serving # {} /\ PopBin(bins, size) = Lowest(serving)
  BY <1>1 DEF PopBin
<1>3. serving \subseteq Bins
  BY DEF NonEmptyBins
<1>4. size <= kFreelistLimits[c]
  BY ManyBins, Sizes, FreelistAssumption DEF FreelistAssumption
<1> SUFFICES ASSUME bins[c] # None PROVE FALSE
  OBVIOUS
<1>5. c \in serving
  BY <1>4 DEF NonEmptyBins
<1> HIDE DEF serving
<1>6. Lowest(serving) <= c /\ Lowest(serving) \in Bins
  BY <1>2, <1>3, <1>5, LowestIsLeast
<1> QED BY <1>2, <1>6, ManyBins DEF Bins

\* The successor of a popped entry takes its place in the bin it was popped from, and
\* for a complex entry the bins before that one, but for the first, are empty.
LEMMA RecoveryKeepsLists ==
  ASSUME NEW v, Sound(v, {}), Filed(v, {}), NEW size \in {Simple4Size, Simple8Size},
         NEW o, o = PopFreeEntryOffset(v.bins, size), o # None, NEW junk \in Nat
  PROVE  LET r == RecoverAndPushNext(Popped(v, size), o, junk)
             b == PopBin(v.bins, size)
             h == v.disk[o]
         IN  /\ Sound(r, {o}) /\ Filed(r, {o})
             /\ r.disk = v.disk /\ b \in Bins /\ FiledIn(b, h)
             /\ r.bins = [v.bins EXCEPT ![b] = h.next]
             /\ h.next # None => IsFollowedBy(h.type, v.disk[h.next])
             /\ Reachable(v.disk, v.bins) \subseteq Reachable(r.disk, r.bins) \cup {o}
<1> DEFINE popped == Popped(v, size)
           r == RecoverAndPushNext(popped, o, junk)
           b == PopBin(v.bins, size)
           h == v.disk[o]
           n == h.next
           top == kBinCount - 1
<1>1. IsVolume(v) /\ v.bins \in [Bins -> Nat] /\ v.disk \in [DOMAIN v.disk -> Header]
  BY DEF Sound, IsVolume
<1>2. /\ b \in Bins /\ o = v.bins[b]
      /\ PopFreeEntry(v.bins, size) = [v.bins EXCEPT ![b] = None]
  BY <1>1, PopBinServes
<1>3. /\ o \in FreeOf(v, {}) /\ popped.disk = v.disk /\ Sound(popped, {o})
      /\ SuccessorOk(popped, o)
  BY PopSound
<1>4. /\ popped = [v EXCEPT !.bins = [v.bins EXCEPT ![b] = None]]
      /\ popped.bins = [v.bins EXCEPT ![b] = None]
  BY <1>1, <1>2 DEF Popped, IsVolume
<1>5. o \in DOMAIN v.disk /\ h.type \in FreeTypes /\ h \in Header /\ n \in Nat
  BY <1>1, <1>3 DEF FreeOf, Header
<1>6. r.disk = v.disk /\ Sound(r, {o})
  <2>1. o \in DOMAIN popped.disk /\ popped.disk[o].type \in FreeTypes
    BY <1>3, <1>5
  <2> HIDE DEF popped
  <2> QED BY <1>3, <2>1, RecoverSound
<1>7. FiledIn(b, h) /\ (n # None => IsFollowedBy(h.type, v.disk[n]) /\ n \in FreeOf(v, {}))
  BY <1>2, <1>3 DEF Filed, Sound, LinksFree
<1>8. ASSUME n # None
      PROVE  /\ r.bins = [popped.bins EXCEPT ![b] = n]
             /\ FiledIn(b, v.disk[n])
  <2> DEFINE next == HeaderAt(v.disk, n)
             s == CASE h.type = "kEmpty4Simple" -> Simple4Size
                    [] h.type = "kEmpty8Simple" -> Simple8Size
                    [] OTHER -> DataOffset + (IF IsComplexFormat(next)
                                              THEN next.overall ELSE junk)
  <2>1. r = [popped EXCEPT !.bins = PushFreeEntry(popped.bins, n, s)]
    BY <1>3, <1>8 DEF RecoverAndPushNext
  <2>2. r.bins = [popped.bins EXCEPT ![BinIdForSize(s)] = n]
    <3> HIDE DEF s
    <3> QED BY <1>1, <1>4, <2>1 DEF PushFreeEntry, IsVolume
  <2>3. next = v.disk[n]
    BY <1>7, <1>8 DEF HeaderAt, FreeOf
  <2>4. CASE h.type = "kEmpty4Simple"
    <3>1. s = Simple4Size /\ v.disk[n].type = "kEmpty4Simple"
      BY <1>7, <1>8, <2>4 DEF IsFollowedBy
    <3>2. b = 0
      BY <1>7, <1>8, <2>4, ManyBins DEF FiledIn, IsLone8
    <3> HIDE DEF s, r, b, popped
    <3>3. FiledIn(b, v.disk[n])
      BY <3>1, <3>2, ManyBins DEF FiledIn
    <3>4. BinIdForSize(s) = b
      BY <3>1, <3>2, BinIdOfSimple
    <3> QED BY <2>2, <3>3, <3>4
  <2>5. CASE h.type = "kEmpty8Simple"
    <3>1. s = Simple8Size /\ IsLone8(v.disk[n])
      BY <1>7, <1>8, <2>5 DEF IsFollowedBy
    <3>2. b = 1
      BY <1>7, <1>8, <2>5, ManyBins DEF FiledIn, IsLone8
    <3> HIDE DEF s, r, b, popped
    <3>3. FiledIn(b, v.disk[n])
      BY <3>1, <3>2, ManyBins DEF FiledIn
    <3>4. BinIdForSize(s) = b
      BY <3>1, <3>2, BinIdOfSimple
    <3> QED BY <2>2, <3>3, <3>4
  <2>6. CASE h.type = "kEmptyComplex"
    <3>1. next.type = "kEmptyComplex" /\ next.overall = ClusterCapacity(kDefaultClusterSize)
      BY <1>7, <1>8, <2>3, <2>6 DEF IsFollowedBy
    <3>2. s = DataOffset + ClusterCapacity(kDefaultClusterSize)
      BY <2>6, <3>1 DEF IsComplexFormat
    <3>3. s = kDefaultClusterSize /\ kDefaultClusterSize \in Nat
      BY <3>2, Sizes DEF ClusterCapacity
    <3>4. b = top
      BY <1>7, <1>8, <2>6, ManyBins DEF FiledIn, IsLone8
    <3>5. BinIdForSize(s) = top
      BY <3>3, BinIdCapped
    <3>6. FiledIn(top, v.disk[n])
      BY <2>3, <3>1, ManyBins DEF FiledIn
    <3> QED BY <2>2, <3>4, <3>5, <3>6
  <2> QED BY <1>5, <2>4, <2>5, <2>6 DEF FreeTypes
<1>9. r.bins = [v.bins EXCEPT ![b] = n]
  <2>1. CASE n = None
    <3>1. r = popped
      BY <1>3, <2>1 DEF RecoverAndPushNext
    <3> QED BY <1>4, <2>1, <3>1
  <2>2. CASE n # None
    BY <1>1, <1>2, <1>4, <1>8, <2>2
  <2> QED BY <2>1, <2>2
<1> HIDE DEF r, b, popped
<1>10. FreeOf(r, {o}) \subseteq FreeOf(v, {})
  BY <1>6 DEF FreeOf
<1>11. Filed(r, {o})
  <2>1. ASSUME NEW d \in Bins, r.bins[d] # None PROVE FiledIn(d, r.disk[r.bins[d]])
    <3>1. CASE d = b
      BY <1>1, <1>2, <1>6, <1>8, <1>9, <2>1, <3>1
    <3>2. CASE d # b
      BY <1>1, <1>2, <1>6, <1>9, <2>1, <3>2 DEF Filed
    <3> QED BY <3>1, <3>2
  <2>2. \A p \in FreeOf(r, {o}) :
          r.disk[p].next # None => IsFollowedBy(r.disk[p].type, r.disk[r.disk[p].next])
    BY <1>6, <1>10 DEF Filed
  <2> QED BY <2>1, <2>2 DEF Filed
<1>12. Reachable(v.disk, v.bins) \subseteq Reachable(r.disk, r.bins) \cup {o}
  <2> DEFINE R == Reachable(r.disk, r.bins)
             G == R \cup {o}
  <2>1. /\ HeadsOf(r.bins) \subseteq R
        /\ \A p \in R : r.disk[p].next # None => r.disk[p].next \in R
    BY <1>6, ListsAreClosed
  <2> HIDE DEF R
  <2>2. n # None => n \in R
    BY <1>1, <1>2, <1>9, <2>1 DEF HeadsOf
  <2>3. HeadsOf(v.bins) \subseteq G
    <3> SUFFICES ASSUME NEW d \in Bins, v.bins[d] # None PROVE v.bins[d] \in G
      BY DEF HeadsOf
    <3>1. CASE d = b
      BY <1>2, <3>1
    <3>2. CASE d # b
      BY <1>1, <1>2, <1>9, <2>1, <3>2 DEF HeadsOf
    <3> QED BY <3>1, <3>2
  <2>4. \A p \in FreeOf(v, {}) \cap G : v.disk[p].next # None => v.disk[p].next \in G
    BY <1>6, <2>1, <2>2
  <2> HIDE DEF G
  <2>5. Reachable(v.disk, v.bins) \subseteq G
    BY <2>3, <2>4, StaysInReach
  <2> QED BY <2>5 DEF G, R
<1> QED BY <1>2, <1>6, <1>7, <1>9, <1>11, <1>12 DEF r, b, popped

\* In every bin but the last an entry is no larger than the limit.
LEMMA BinIdFits ==
  ASSUME NEW size \in Nat, BinIdForSize(size) # kBinCount - 1
  PROVE  size <= kFreelistLimits[BinIdForSize(size)]
<1> DEFINE wideEnough == {b \in Bins : size <= kFreelistLimits[b]}
<1>1. wideEnough # {}
  BY DEF BinIdForSize
<1> QED BY <1>1, BinIdIsLeast

\* The rest of a complex entry goes to a bin that is empty, unless it is the first or
\* the last one: then what it is linked to may follow it.
LEMMA FreeEntryKeepsLists ==
  ASSUME NEW v, Sound(v, {}), Filed(v, {}), NEW size \in {Simple4Size, Simple8Size},
         NEW o, o = PopFreeEntryOffset(v.bins, size), o # None, NEW junk \in Nat
  PROVE  LET w == FreeEntry(v, size, junk)
         IN  /\ Filed(w, {o})
             /\ Reachable(v.disk, v.bins) \subseteq Reachable(w.disk, w.bins) \cup {o}
<1> DEFINE popped == Popped(v, size)
           r == RecoverAndPushNext(popped, o, junk)
           w == FreeEntry(v, size, junk)
           b == PopBin(v.bins, size)
           h == v.disk[o]
           top == kBinCount - 1
<1>1. /\ Sound(r, {o}) /\ Filed(r, {o})
      /\ r.disk = v.disk /\ b \in Bins /\ FiledIn(b, h)
      /\ r.bins = [v.bins EXCEPT ![b] = h.next]
      /\ h.next # None => IsFollowedBy(h.type, v.disk[h.next])
      /\ Reachable(v.disk, v.bins) \subseteq Reachable(r.disk, r.bins) \cup {o}
  BY RecoveryKeepsLists
<1>2. o \in FreeOf(v, {})
  BY PopSound
<1>3. /\ v.bins \in [Bins -> Nat] /\ o \in DOMAIN v.disk /\ o \in Nat /\ h \in Header
      /\ h.overall \in Nat /\ h.type \in FreeTypes /\ HeaderAt(v.disk, o) = h
      /\ h.type = "kEmptyComplex" => h.room = h.overall + DataOffset
  BY <1>2 DEF Sound, HeadersFit, IsVolume, FreeOf, HeaderAt, Header
<1>4. \A d \in Bins : d >= 1 /\ d < b => v.bins[d] = None
  BY <1>3, PopBinIsFirst
<1> SUFFICES /\ Filed(w, {o})
             /\ Reachable(v.disk, v.bins) \subseteq Reachable(w.disk, w.bins) \cup {o}
  OBVIOUS
<1>9. w = IF h.type = "kEmptyComplex" /\ size <= h.overall
          THEN SplitEntries(r, o, size, h.overall - size) ELSE r
  BY <1>3 DEF FreeEntry
<1> HIDE DEF b, r, w
<1>5. CASE ~(h.type = "kEmptyComplex" /\ size <= h.overall)
  <2>1. w = r
    BY <1>5, <1>9
  <2> QED BY <1>1, <2>1
<1>6. CASE h.type = "kEmptyComplex" /\ size <= h.overall
  <2> DEFINE rest == h.overall - size
             q == o + size
             c == BinIdForSize(rest)
  <2>1. rest \in Nat /\ rest < h.overall /\ q \in Nat /\ q # None
    BY <1>3, <1>6, Sizes
  <2>2. w = SplitEntries(r, o, size, r.disk[o].overall - size)
    BY <1>1, <1>6, <1>9
  <2>3. /\ Sound(w, {o})
        /\ IF rest < Simple4Size THEN w = r
           ELSE /\ IsFiled(r, w, {o}, {o}, q, c)
                /\ w.disk[q].type = SplitType(rest) /\ w.disk[q].overall = rest
    <3>1. /\ o \in DOMAIN r.disk /\ r.disk[o].type = "kEmptyComplex"
          /\ r.disk[o].room = r.disk[o].overall + DataOffset /\ size <= r.disk[o].overall
          /\ r.disk[o].overall = h.overall
      BY <1>1, <1>3, <1>6
    <3>2. /\ Sound(w, {o})
          /\ IF r.disk[o].overall - size < Simple4Size THEN w = r
             ELSE LET m == r.disk[o].overall - size
                  IN  /\ IsFiled(r, w, {o}, {o}, o + size, BinIdForSize(m))
                      /\ w.disk[o + size].type = SplitType(m)
                      /\ w.disk[o + size].overall = m
      <4> HIDE DEF h, top
      <4> QED BY ONLY <1>1, <2>2, <3>1, SplitSound, SMTT(30), size \in {Simple4Size, Simple8Size}
    <3> HIDE DEF h
    <3> QED BY ONLY <3>1, <3>2
  <2>4. CASE rest < Simple4Size
    BY <1>1, <2>3, <2>4
  <2>5. CASE ~(rest < Simple4Size)
    <3>1. b # 0 /\ b # 1 /\ b \in Nat /\ b <= top /\ top \in Bins
      BY <1>1, <1>6, ManyBins DEF FiledIn, IsLone8
    <3>2. b # top => h.next = None /\ h.overall \in Nat /\ h.overall <= kFreelistLimits[b]
      BY <1>1, <1>3, <3>1 DEF FiledIn
    <3>3. c \in Bins /\ c \in Nat /\ c <= b
      <4>1. c \in Bins /\ c \in Nat /\ c <= top
        BY <2>1, BinIdType, ManyBins
      <4>2. kFreelistLimits[b] \in Nat
        BY <1>1, FreelistAssumption DEF FreelistAssumption
      <4>3. b # top => rest <= kFreelistLimits[b]
        BY <1>3, <2>1, <3>2, <4>2
      <4> HIDE DEF rest
      <4>4. b # top => c <= b
        BY <1>1, <2>1, <4>3, BinIdIsLeast
      <4> QED BY <3>1, <4>1, <4>4
    <3>4. c # 0 /\ c # top => r.bins[c] = None
      BY <1>1, <1>3, <1>4, <3>1, <3>2, <3>3
    <3>5. c = top => b = top /\ r.bins[c] = h.next
      BY <1>1, <1>3, <3>1, <3>3
    <3> DEFINE g == w.disk[q]
    <3>6. IsFiled(r, w, {o}, {o}, q, c) /\ g.type = SplitType(rest) /\ g.overall = rest
          /\ g.next = r.bins[c]
      BY <2>3, <2>5 DEF IsFiled
    <3> HIDE DEF g, q, c
    <3>7. FiledIn(c, g) /\ (r.bins[c] # None => IsFollowedBy(g.type, r.disk[r.bins[c]]))
      <4>1. CASE c = 0
        <5>1. rest = Simple4Size
          BY <2>1, <2>5, <4>1, BinIdPositive, Sizes DEF c
        <5>2. g.type = "kEmpty4Simple"
          BY <3>6, <5>1, Sizes DEF SplitType
        <5>3. r.bins[c] # None => FiledIn(c, r.disk[r.bins[c]])
          BY <1>1, <3>3 DEF Filed
        <5> QED BY <4>1, <5>2, <5>3, ManyBins DEF FiledIn, IsFollowedBy
      <4>2. CASE c = 1
        <5>1. g.next = None /\ r.bins[c] = None
          BY <3>4, <3>6, <4>2, ManyBins
        <5>2. rest <= Simple8Size
          <6>1. BinIdForSize(rest) # kBinCount - 1
            BY <4>2, ManyBins DEF c
          <6>2. rest <= kFreelistLimits[BinIdForSize(rest)]
            BY <2>1, <6>1, BinIdFits
          <6> QED BY <4>2, <6>2, FreelistAssumption DEF FreelistAssumption, c
        <5>3. IsLone8(g)
          BY <2>1, <3>6, <5>1, <5>2, Sizes DEF SplitType, IsLone8
        <5> QED BY <4>2, <5>1, <5>3, ManyBins DEF FiledIn
      <4>3. CASE c # 0 /\ c # 1 /\ c # top
        <5>1. g.next = None /\ r.bins[c] = None
          BY <3>4, <3>6, <4>3
        <5>2. g.overall <= kFreelistLimits[c]
          BY <2>1, <3>6, <4>3, BinIdFits DEF c
        <5> QED BY <4>3, <5>1, <5>2 DEF FiledIn
      <4>4. CASE c = top
        <5>1. rest > ComplexSize
          <6> SUFFICES ASSUME rest <= ComplexSize PROVE FALSE
            BY <2>1, Sizes
          <6>1. kBinCount - 2 \in Bins /\ rest <= kFreelistLimits[kBinCount - 2]
            BY <2>1, ManyBins, Sizes, FreelistAssumption DEF FreelistAssumption
          <6>2. c <= kBinCount - 2
            BY <2>1, <6>1, BinIdIsLeast DEF c
          <6> QED BY <3>3, <4>4, <6>2, ManyBins
        <5>2. g.type = "kEmptyComplex"
          BY <3>6, <5>1 DEF SplitType
        <5>3. r.bins[c] # None => IsFollowedBy("kEmptyComplex", r.disk[r.bins[c]])
          BY <1>1, <1>6, <3>5, <4>4
        <5>4. FiledIn(top, g)
          BY <5>2, ManyBins DEF FiledIn
        <5> QED BY <4>4, <5>2, <5>3, <5>4
      <4> QED BY <4>1, <4>2, <4>3, <4>4
    <3>8. Filed(w, {o})
      <4> DEFINE P == {o}
      <4>1. Sound(r, P) /\ Filed(r, P) /\ IsFiled(r, w, P, P, q, c)
        BY <1>1, <3>6
      <4> HIDE DEF P
      <4>2. Filed(w, P)
        BY <3>7, <4>1, FilingKeepsFiled DEF g
      <4> QED BY <4>2 DEF P
    <3>9. Reachable(r.disk, r.bins) \subseteq Reachable(w.disk, w.bins)
      <4>1. q # None
        BY <2>1 DEF q
      <4> QED BY <1>1, <2>3, <3>6, <4>1, FilingKeepsReach
    <3> QED BY <1>1, <3>8, <3>9
  <2> QED BY <2>4, <2>5
<1> QED BY <1>5, <1>6

\* What changes no free entry and no head changes no list.
LEMMA SameLists ==
  ASSUME NEW v, NEW w, NEW P, NEW Q, Sound(v, P), Sound(w, Q), Filed(v, P),
         w.bins = v.bins, FreeOf(w, Q) = FreeOf(v, P),
         \A p \in FreeOf(v, P) : w.disk[p] = v.disk[p]
  PROVE  Filed(w, Q) /\ Reachable(v.disk, v.bins) \subseteq Reachable(w.disk, w.bins)
<1> DEFINE R == Reachable(w.disk, w.bins)
<1>1. \A b \in Bins : v.bins[b] # None => v.bins[b] \in FreeOf(v, P)
  BY DEF Sound, HeadsFree
<1>2. \A p \in FreeOf(v, P) : v.disk[p].next # None => v.disk[p].next \in FreeOf(v, P)
  BY DEF Sound, LinksFree
<1>3. Filed(w, Q)
  BY <1>1, <1>2 DEF Filed
<1>4. /\ HeadsOf(w.bins) \subseteq R
      /\ \A p \in R : w.disk[p].next # None => w.disk[p].next \in R
  BY ListsAreClosed
<1> HIDE DEF R
<1>5. HeadsOf(v.bins) \subseteq R
  BY <1>4 DEF HeadsOf
<1>6. \A p \in FreeOf(v, P) \cap R : v.disk[p].next # None => v.disk[p].next \in R
  BY <1>4
<1> QED BY <1>3, <1>5, <1>6, StaysInReach DEF R

\* The entry that is written is in no list.
LEMMA WritingKeepsLists ==
  ASSUME NEW v, NEW o, Sound(v, {o}), Filed(v, {o}), o \in DOMAIN v.disk,
         NEW h \in Header, h.type \in SimpleTypes, h.room = v.disk[o].room,
         Extent(h) <= h.room
  PROVE  LET w == [v EXCEPT !.disk = Write(v.disk, o, h)]
         IN  /\ Filed(w, {})
             /\ Reachable(v.disk, v.bins) \subseteq Reachable(w.disk, w.bins)
<1> DEFINE w == [v EXCEPT !.disk = Write(v.disk, o, h)]
           P == {o}
<1>1. Sound(w, {}) /\ w.disk[o] = h /\ \A p \in DOMAIN v.disk \ {o} : w.disk[p] = v.disk[p]
  BY WriteEntrySound
<1>2. IsVolume(v) /\ RoomsDisjoint(v) /\ HeadersFit(v, {o})
  BY DEF Sound
<1>3. w.bins = v.bins /\ w.disk = Write(v.disk, o, h)
  BY <1>2 DEF IsVolume
<1>4. DOMAIN w.disk = DOMAIN v.disk
  BY <1>2, <1>3, WriteInRoom
<1> HIDE DEF w
<1>5. FreeOf(w, {}) = FreeOf(v, P) /\ \A p \in FreeOf(v, P) : w.disk[p] = v.disk[p]
  BY <1>1, <1>4 DEF FreeOf, SimpleTypes, FreeTypes
<1>6. Sound(v, P) /\ Filed(v, P)
  OBVIOUS
<1> HIDE DEF P
<1>7. Filed(w, {}) /\ Reachable(v.disk, v.bins) \subseteq Reachable(w.disk, w.bins)
  BY <1>1, <1>3, <1>5, <1>6, SameLists
<1> QED BY <1>7 DEF w

\* A volume to pop from, expanded or not, keeps its lists.
LEMMA ProvidedKeepsLists ==
  ASSUME FixedSize, NEW v, Sound(v, {}), Filed(v, {}),
         NEW size \in {Simple4Size, Simple8Size}
  PROVE  LET w == Provided(v, size)
         IN  /\ Filed(w, {})
             /\ Reachable(v.disk, v.bins) \subseteq Reachable(w.disk, w.bins)
<1>1. CASE PopFreeEntryOffset(v.bins, size) # None
  BY <1>1 DEF Provided
<1>2. CASE PopFreeEntryOffset(v.bins, size) = None
  <2> DEFINE w == Expanded(v)
  <2>1. v.bins \in [Bins -> Nat]
    BY DEF Sound, IsVolume
  <2>2. v.bins[kBinCount - 1] = None
    BY <1>2, <2>1, LastBinEmpty
  <2>3. Sound(w, {}) /\ HasNewClusters(v, w)
    BY <2>2, ExpandSound
  <2>4. Provided(v, size) = w
    BY <1>2 DEF Provided
  <2> HIDE DEF w
  <2>5. Filed(w, {}) /\ Reachable(v.disk, v.bins) \subseteq Reachable(w.disk, w.bins)
    BY <2>2, <2>3, ExpansionKeepsLists
  <2> QED BY <2>4, <2>5
<1> QED BY <1>1, <1>2

\* An entry that is created takes one entry out of the lists: its own.
LEMMA CreatingKeepsLists ==
  ASSUME FixedSize, FiledInv, NEW value \in Values, CreateSimple(value)
  PROVE  /\ Filed(vol', {})
         /\ Reachable(vol.disk, vol.bins)
              \subseteq Reachable(vol'.disk, vol'.bins) \cup DOMAIN held'
<1> DEFINE size == SimpleHeaderSize(value.type)
           v == Provided(vol, size)
           o == PopFreeEntryOffset(v.bins, size)
<1>1. /\ opened = TRUE /\ value.type \in SimpleTypes /\ FixedSizeInv
      /\ Filed(vol, {}) /\ Sound(vol, {})
  BY OpenInv DEF CreateSimple, Running, FiledInv, FixedSizeInv, Current
<1>2. size \in {Simple4Size, Simple8Size}
  BY DEF SimpleHeaderSize
<1>3. Sound(v, {})
  BY <1>1, <1>2, ProvidedSound
<1>4. /\ Filed(v, {})
      /\ Reachable(vol.disk, vol.bins) \subseteq Reachable(v.disk, v.bins)
  BY <1>1, <1>2, ProvidedKeepsLists
<1>5. CASE o = None
  <2>1. vol' = v
    BY <1>5 DEF CreateSimple
  <2> HIDE DEF v
  <2> QED BY <1>4, <2>1
<1>6. CASE o # None
  <2>1. PICK junk \in Junk :
          LET free == FreeEntry(v, size, junk)
          IN  /\ vol' = [free EXCEPT !.disk = Write(free.disk, o,
                           SimpleHeader(value, RoomAt(free.disk, o)))]
              /\ held' = [p \in DOMAIN held \cup {o} |->
                            IF p = o THEN [value |-> value, expires |-> None]
                            ELSE held[p]]
    BY <1>6 DEF CreateSimple
  <2> DEFINE free == FreeEntry(v, size, junk)
             room == free.disk[o].room
             h == SimpleHeader(value, room)
             w == [free EXCEPT !.disk = Write(free.disk, o, h)]
  <2>2. junk \in Nat
    BY EntriesAssumption DEF EntriesAssumption
  <2>3. Sound(free, {o}) /\ o \in DOMAIN free.disk /\ room >= size
    <3> HIDE DEF v, size
    <3> QED BY <1>2, <1>3, <1>6, <2>2, FreeEntrySound
  <2>4. /\ Filed(free, {o})
        /\ Reachable(v.disk, v.bins) \subseteq Reachable(free.disk, free.bins) \cup {o}
    <3> HIDE DEF v, size
    <3> QED BY <1>2, <1>3, <1>4, <1>6, <2>2, FreeEntryKeepsLists
  <2>5. vol' = w
    BY <2>1, <2>3 DEF RoomAt, HeaderAt
  <2>6. o \in DOMAIN held'
    BY <2>1
  <2> HIDE DEF free, v, size, o
  <2>7. room \in Nat
    BY <2>3 DEF Sound, IsVolume, Header
  <2>8. h \in Header /\ h.type = value.type /\ h.room = room /\ Extent(h) = size
    <3> HIDE DEF room
    <3> QED BY <1>1, <2>7, SimpleHeaderType DEF size
  <2>9. Extent(h) <= h.room
    BY <1>2, <2>3, <2>7, <2>8, Sizes
  <2> HIDE DEF h
  <2>10. /\ Filed(w, {})
         /\ Reachable(free.disk, free.bins) \subseteq Reachable(w.disk, w.bins)
    BY <1>1, <2>3, <2>4, <2>8, <2>9, WritingKeepsLists
  <2> HIDE DEF w
  <2> QED BY <1>4, <2>4, <2>5, <2>6, <2>10
<1> QED BY <1>5, <1>6

\* A deleted entry becomes a head, in front of one of its kind.
LEMMA DeletingKeepsLists ==
  ASSUME FixedSize, FiledInv, NEW o \in DOMAIN held, DeleteEntry(o)
  PROVE  /\ Filed(vol', {})
         /\ Reachable(vol.disk, vol.bins) \subseteq Reachable(vol'.disk, vol'.bins)
<1> DEFINE v == vol
           w == DeleteSimple(v, o)
           P == {}
<1>1. /\ opened = TRUE /\ FixedSizeInv
      /\ Filed(v, P) /\ Sound(v, P) /\ o \in InUse(v.disk)
  BY OpenInv DEF DeleteEntry, Running, FiledInv, FixedSizeInv, Current
<1>2. vol' = w
  BY <1>1 DEF DeleteEntry, InUse, HeaderAt, SimpleTypes
<1>3. /\ Sound(w, P)
      /\ \E c \in {0, 1} :
           /\ IsFiled(v, w, P, P, o, c)
           /\ w.disk[o].type = IF c = 0 THEN "kEmpty4Simple" ELSE "kEmpty8Simple"
  BY <1>1, DeleteSimpleSound
<1> HIDE DEF w, P
<1>4. PICK c \in {0, 1} :
        /\ IsFiled(v, w, P, P, o, c)
        /\ w.disk[o].type = IF c = 0 THEN "kEmpty4Simple" ELSE "kEmpty8Simple"
  BY <1>3
<1>5. FiledIn(c, w.disk[o])
  BY <1>4, ManyBins DEF FiledIn, IsLone8
<1>6. v.bins[c] # None => IsFollowedBy(w.disk[o].type, v.disk[v.bins[c]])
  <2>1. c \in Bins
    BY ManyBins
  <2>2. v.bins[c] # None => FiledIn(c, v.disk[v.bins[c]])
    BY <1>1, <2>1 DEF Filed
  <2> HIDE DEF v
  <2> QED BY <1>4, <2>2, ManyBins DEF FiledIn, IsFollowedBy
<1>7. o # None
  BY <1>1 DEF Sound, IsVolume, InUse, None
<1> HIDE DEF v
<1>8. Filed(w, P)
  BY <1>1, <1>4, <1>5, <1>6, FilingKeepsFiled
<1>9. Reachable(v.disk, v.bins) \subseteq Reachable(w.disk, w.bins)
  BY <1>1, <1>3, <1>4, <1>7, FilingKeepsReach
<1> QED BY <1>2, <1>8, <1>9 DEF v, P

\* A date is written into an entry that is in no list.
LEMMA ExpiringKeepsLists ==
  ASSUME FixedSize, FiledInv, NEW o \in DOMAIN held, NEW time \in Times,
         SetEntryExpiredDate(o, time)
  PROVE  /\ Filed(vol', {})
         /\ Reachable(vol.disk, vol.bins) \subseteq Reachable(vol'.disk, vol'.bins)
<1> DEFINE v == vol
           h == ExpiredHeader(v.disk[o], time)
           w == [v EXCEPT !.disk = Write(v.disk, o, h)]
<1>1. /\ opened = TRUE /\ FixedSizeInv
      /\ Filed(v, {}) /\ Sound(v, {}) /\ o \in InUse(v.disk)
  BY OpenInv DEF SetEntryExpiredDate, Running, FiledInv, FixedSizeInv, Current
<1>2. vol' = w
  BY <1>1 DEF SetEntryExpiredDate, InUse, HeaderAt
<1> HIDE DEF v
<1>3. /\ o \in DOMAIN v.disk /\ v.disk[o] \in Header /\ v.disk[o].type \in SimpleTypes
      /\ Extent(v.disk[o]) <= v.disk[o].room
  BY <1>1 DEF Sound, InUse, IsVolume, HeadersFit
<1>4. time \in Nat
  BY LayoutAssumption DEF LayoutAssumption
<1>5. /\ h \in Header /\ h.type = v.disk[o].type /\ h.room = v.disk[o].room
      /\ Extent(h) = Extent(v.disk[o])
  BY <1>3, <1>4, ExpiredHeaderType
<1>6. Sound(v, {o})
  BY <1>1, InUsePopped
<1>7. Filed(v, {o})
  BY <1>1 DEF Filed, FreeOf
<1> HIDE DEF h
<1>8. h.type \in SimpleTypes /\ Extent(h) <= h.room
  BY <1>3, <1>5
<1>9. Filed(w, {}) /\ Reachable(v.disk, v.bins) \subseteq Reachable(w.disk, w.bins)
  BY <1>3, <1>5, <1>6, <1>7, <1>8, WritingKeepsLists
<1> HIDE DEF w
<1> QED BY <1>2, <1>9 DEF v

\* Every step of the program keeps every free entry in its bin, and in reach until
\* it is used.
LEMMA ListsAreKept ==
  ASSUME FixedSize, FiledInv, [Next]_vars
  PROVE  /\ Filed(Current, {})'
         /\ opened /\ opened' => Reachable(vol.disk, vol.bins)
                                   \subseteq Reachable(vol'.disk, vol'.bins) \cup DOMAIN held'
<1>1. FixedSizeInv /\ FixedSizeInv' /\ Filed(Current, {})
  BY NextInv DEF FiledInv
<1>2. opened' = TRUE => Current' = vol'
  BY DEF Current
<1>3. ASSUME NEW value \in Values, CreateSimple(value)
      PROVE  /\ opened' = TRUE /\ Filed(vol', {})
             /\ Reachable(vol.disk, vol.bins)
                  \subseteq Reachable(vol'.disk, vol'.bins) \cup DOMAIN held'
  BY <1>3, CreatingKeepsLists, <1>1 DEF CreateSimple, Running, FixedSizeInv
<1>4. ASSUME NEW value \in Values, BeginComplex(value)
      PROVE  FALSE
  BY <1>4 DEF BeginComplex, FixedSize, SimpleTypes
<1>5. ~WriteChunk
  BY <1>1 DEF WriteChunk, FixedSizeInv
<1>6. ASSUME NEW o \in DOMAIN held, DeleteEntry(o)
      PROVE  /\ opened' = TRUE /\ Filed(vol', {})
             /\ Reachable(vol.disk, vol.bins) \subseteq Reachable(vol'.disk, vol'.bins)
  BY <1>6, DeletingKeepsLists, <1>1 DEF DeleteEntry, Running, FixedSizeInv
<1>7. ASSUME NEW o \in DOMAIN held, NEW time \in Times, SetEntryExpiredDate(o, time)
      PROVE  /\ opened' = TRUE /\ Filed(vol', {})
             /\ Reachable(vol.disk, vol.bins) \subseteq Reachable(vol'.disk, vol'.bins)
  BY <1>7, ExpiringKeepsLists, <1>1 DEF SetEntryExpiredDate, Running, FixedSizeInv
<1>8. ASSUME NEW index \in DOMAIN held \cup {None}, SaveStartEntries(index)
      PROVE  ~opened' /\ Filed(Current, {})'
  <2>1. /\ opened = TRUE /\ opened' = FALSE /\ saved'.bins = vol.bins
        /\ vol'.disk = vol.disk
    BY <1>1, <1>8 DEF SaveStartEntries, Running, FixedSizeInv
  <2>2. Current = vol /\ Current' = Loaded(vol', saved')
    BY <2>1 DEF Current
  <2>3. Current'.disk = vol.disk /\ Current'.bins = vol.bins
    BY <2>1, <2>2 DEF Loaded
  <2>4. Filed(vol, {})
    BY <1>1, <2>2
  <2>5. Filed(Current', {})
    BY <2>3, <2>4 DEF Filed, FreeOf
  <2> QED BY <2>1, <2>5
<1>9. CASE LoadStartEntries
  <2>1. opened = FALSE /\ opened' = TRUE /\ vol' = Loaded(vol, saved)
    BY <1>1, <1>9 DEF LoadStartEntries, FixedSizeInv
  <2>2. Current' = Current
    BY <2>1 DEF Current
  <2>3. Filed(Current', {})
    BY <1>1, <2>2
  <2> QED BY <2>1, <2>3
<1>10. CASE UNCHANGED vars
  <2>1. Current' = Current /\ vol' = vol
    BY <1>10 DEF vars, Current
  <2>2. Filed(Current', {})
    BY <1>1, <2>1
  <2> QED BY <2>1, <2>2
<1> QED
  BY <1>2, <1>3, <1>4, <1>5, <1>6, <1>7, <1>8, <1>9, <1>10 DEF Next

\* Every bin's list holds what belongs into that bin, whatever the calls so far.
THEOREM FiledSafe ==
  ASSUME FixedSize
  PROVE  Spec => []FiledInv
<1>1. Init => FiledInv
  <2> SUFFICES ASSUME Init PROVE FiledInv
    OBVIOUS
  <2>1. FixedSizeInv
    BY InitInv
  <2>2. /\ Current.bins = EmptyBins /\ Current.disk = <<>>
    BY DEF Init, Current, NewVolume
  <2>3. Filed(Current, {})
    <3>1. DOMAIN Current.disk = {}
      BY <2>2
    <3> QED BY <2>2, <3>1 DEF Filed, FreeOf, EmptyBins
  <2> QED BY <2>1, <2>3 DEF FiledInv
<1>2. FiledInv /\ [Next]_vars => FiledInv'
  BY NextInv, ListsAreKept DEF FiledInv
<1> QED BY <1>1, <1>2, PTL DEF Spec

\* No call loses a free entry: what allocation can reach it can reach after every
\* call of the session, but for the entry that the call hands out.
THEOREM FreeStays ==
  ASSUME FixedSize
  PROVE  Spec => FreeStaysReachable
<1> DEFINE Stays == opened /\ opened' =>
                      \A o \in Reachable(vol.disk, vol.bins) :
                        \/ o \in Reachable(vol'.disk, vol'.bins)
                        \/ o \in DOMAIN held' \cup {writing'.free}
<1>1. FiledInv /\ [Next]_vars => [Stays]_vars
  BY ListsAreKept
<1> QED
  BY <1>1, FiledSafe, PTL DEF Spec, FreeStaysReachable

-----------------------------------------------------------------------------
(***************************************************************************)
(* What was saved survives crashes.                                        *)
(***************************************************************************)

IsDisk(disk) == disk \in [DOMAIN disk -> Header] /\ DOMAIN disk \subseteq Nat \ {0}

\* the kept entries are the same on both devices
SameKept(disk, e, kept) == kept \subseteq DOMAIN e /\ \A d \in kept : e[d] = disk[d]

\* What lies within bytes that are clear of the kept entries is clear of them.
LEMMA ClearWithin ==
  ASSUME NEW disk, IsDisk(disk), NEW kept, kept \subseteq DOMAIN disk,
         NEW o \in Nat, NEW n \in Nat, IsClear(disk, kept, o, n),
         NEW q \in Nat, NEW m \in Nat, o <= q, q + m <= o + n
  PROVE  IsClear(disk, kept, q, m)
<1> SUFFICES ASSUME NEW d \in kept PROVE q + m <= d \/ d + Extent(disk[d]) <= q
  BY DEF IsClear
<1>1. d \in Nat /\ Extent(disk[d]) \in Nat
  BY ExtentType DEF IsDisk
<1>2. o + n <= d \/ d + Extent(disk[d]) <= o
  BY DEF IsClear
<1> QED BY <1>1, <1>2

\* Where bytes are clear of the kept entries, none of these begins.
LEMMA ClearIsElsewhere ==
  ASSUME NEW disk, IsDisk(disk), NEW kept, kept \subseteq DOMAIN disk,
         NEW o \in Nat, NEW n \in Nat, IsClear(disk, kept, o, n),
         NEW q \in Nat, o <= q, q < o + n
  PROVE  q \notin kept
<1> SUFFICES ASSUME q \in kept PROVE FALSE
  OBVIOUS
<1>1. Extent(disk[q]) \in Nat /\ Extent(disk[q]) >= 12
  BY ExtentType, Sizes DEF IsDisk
<1>2. o + n <= q \/ q + Extent(disk[q]) <= o
  BY DEF IsClear
<1> QED BY <1>1, <1>2

\* Being clear depends on what the kept headers cover, and on fewer of them the less.
LEMMA ClearOfFewer ==
  ASSUME NEW disk, NEW e, NEW kept, NEW fewer, fewer \subseteq kept,
         \A d \in fewer : Extent(e[d]) = Extent(disk[d])
  PROVE  /\ \A o, n : IsClear(disk, kept, o, n) => IsClear(e, fewer, o, n)
         /\ \A o, h : IsClearHeader(disk, kept, o, h) => IsClearHeader(e, fewer, o, h)
<1>1. \A o, n : IsClear(disk, kept, o, n) => IsClear(e, fewer, o, n)
  BY DEF IsClear
<1> QED BY <1>1 DEF IsClearHeader

\* The span of a header is a size, and what is written for it lies within.
LEMMA SpanType ==
  ASSUME NEW h \in Header
  PROVE  /\ Span(h) \in Nat
         /\ h.type \in {"kInt32", "kEmpty4Simple"} => Span(h) = Simple4Size
         /\ h.type \in {"kInt64", "kEmpty8Simple"} => Span(h) = Simple8Size
         /\ h.type = "kEmptyComplex" => Span(h) = h.overall + DataOffset
<1>1. h.overall \in Nat
  BY DEF Header
<1> QED BY <1>1, ExtentType, Sizes DEF Span

\* A header that is overwritten, or clear of what is kept, keeps the device safe.
LEMMA KeptWrite ==
  ASSUME NEW disk, NEW kept, NEW o, o \in Nat \ {0}, NEW h \in Header,
         NEW others, others = kept \ {o},
         IsDisk(disk), DiskKeeps(disk, kept), h.type # "kString",
         h.type = "kEmptyComplex" => h.room = h.overall + DataOffset,
         IsClear(disk, others, o, Extent(h)),
         o \in kept => h.type \in SimpleTypes /\ Extent(h) = Extent(disk[o]),
         o \notin kept => IsClearHeader(disk, kept, o, h)
  PROVE  LET e == Write(disk, o, h)
         IN  /\ IsDisk(e) /\ DiskKeeps(e, kept) /\ e[o] = h
             /\ SameKept(disk, e, others)
<1> DEFINE e == Write(disk, o, h)
<1>1. e \in [DOMAIN disk \cup {o} -> Header] /\ e[o] = h
  <2>1. e \in [DOMAIN disk \cup {o} -> Header]
    BY WriteKeeps DEF IsDisk
  <2>2. e[o] = h
    BY DEF Write
  <2> QED BY <2>1, <2>2
<1>2. IsDisk(e) /\ DOMAIN e = DOMAIN disk \cup {o}
  <2> HIDE DEF e
  <2> QED BY <1>1 DEF IsDisk
<1>3. \A p \in DOMAIN disk \ {o} : e[p] = disk[p] \/ e[p].type = "overwritten"
  <2>1. \A p \in DOMAIN disk : disk[p].room \in Nat
    BY DEF IsDisk, Header
  <2> QED BY <2>1, WriteElsewhere
<1>4. ASSUME NEW d \in others PROVE d \in DOMAIN disk \ {o} /\ e[d] = disk[d]
  <2>1. d \in DOMAIN disk \ {o} /\ DOMAIN disk \subseteq Nat /\ o \in Nat
    BY DEF DiskKeeps, IsDisk
  <2>2. d + Extent(disk[d]) <= o \/ o + Extent(h) <= d
    BY DEF IsClear
  <2>3. Extent(h) \in Nat /\ Extent(h) <= Extent(h) /\ disk \in [DOMAIN disk -> Header]
    BY ExtentType DEF IsDisk
  <2> DEFINE width == Extent(h)
  <2>4. width \in Nat /\ Extent(h) <= width /\ (d + Extent(disk[d]) <= o \/ o + width <= d)
    BY <2>2, <2>3
  <2> HIDE DEF width
  <2>5. Write(disk, o, h)[d] = disk[d]
    BY <2>1, <2>3, <2>4, WriteApart
  <2> QED BY <2>1, <2>5
<1> HIDE DEF e
<1>5. \A d \in kept : Extent(e[d]) = Extent(disk[d])
  BY <1>1, <1>4
<1>6. \A p \in DOMAIN e :
        /\ e[p].type # "kString"
        /\ e[p].type = "kEmptyComplex" => e[p].room = e[p].overall + DataOffset
  BY <1>1, <1>2, <1>3 DEF DiskKeeps
<1>7. kept \subseteq DOMAIN e
  BY <1>2 DEF DiskKeeps
<1>8. \A d \in kept : e[d].type \in SimpleTypes /\ IsClear(e, kept \ {d}, d, Extent(e[d]))
  <2> SUFFICES ASSUME NEW d \in kept
               PROVE  e[d].type \in SimpleTypes /\ IsClear(e, kept \ {d}, d, Extent(e[d]))
    OBVIOUS
  <2>1. disk[d].type \in SimpleTypes /\ IsClear(disk, kept \ {d}, d, Extent(disk[d]))
    BY DEF DiskKeeps
  <2>2. IsClear(e, kept \ {d}, d, Extent(e[d]))
    BY <1>5, <2>1 DEF IsClear
  <2> QED BY <1>1, <1>4, <2>1, <2>2
<1>9. \A p \in DOMAIN e \ kept : IsClearHeader(e, kept, p, e[p])
  <2> SUFFICES ASSUME NEW p \in DOMAIN e \ kept
               PROVE  IsClearHeader(e, kept, p, e[p])
    OBVIOUS
  <2>1. \A q, g : IsClearHeader(disk, kept, q, g) => IsClearHeader(e, kept, q, g)
    BY <1>5, ClearOfFewer
  <2>2. CASE p = o
    BY <1>1, <2>1, <2>2
  <2>3. CASE p # o
    <3>1. e[p] = disk[p] \/ e[p].type = "overwritten"
      BY <1>2, <1>3, <2>3
    <3>2. e[p] = disk[p] => IsClearHeader(e, kept, p, e[p])
      BY <1>2, <2>1, <2>3 DEF DiskKeeps
    <3>3. e[p].type = "overwritten" => IsClearHeader(e, kept, p, e[p])
      BY DEF IsClearHeader
    <3> QED BY <3>1, <3>2, <3>3
  <2> QED BY <2>2, <2>3
<1>10. DiskKeeps(e, kept)
  BY <1>6, <1>7, <1>8, <1>9 DEF DiskKeeps
<1>11. SameKept(disk, e, others)
  BY <1>4, <1>7 DEF SameKept
<1> QED BY <1>1, <1>2, <1>10, <1>11 DEF e

\* Keeping less is easier: what is dropped has a header of its own size.
LEMMA KeepsFewer ==
  ASSUME NEW v, NEW kept, NEW fewer, Keeps(v, kept), fewer \subseteq kept
  PROVE  Keeps(v, fewer)
<1>1. /\ \A o, n : IsClear(v.disk, kept, o, n) => IsClear(v.disk, fewer, o, n)
      /\ \A o, h : IsClearHeader(v.disk, kept, o, h) => IsClearHeader(v.disk, fewer, o, h)
  BY ClearOfFewer
<1>2. \A d \in fewer : IsClear(v.disk, fewer \ {d}, d, Extent(v.disk[d]))
  <2> SUFFICES ASSUME NEW d \in fewer
               PROVE  IsClear(v.disk, fewer \ {d}, d, Extent(v.disk[d]))
    OBVIOUS
  <2>1. IsClear(v.disk, kept \ {d}, d, Extent(v.disk[d]))
    BY DEF Keeps, DiskKeeps
  <2> QED BY <2>1 DEF IsClear
<1>3. ASSUME NEW o \in DOMAIN v.disk \ fewer
      PROVE  IsClearHeader(v.disk, fewer, o, v.disk[o])
  <2>1. CASE o \in kept
    <3>1. v.disk[o].type \in SimpleTypes /\ IsClear(v.disk, kept \ {o}, o, Extent(v.disk[o]))
      BY <2>1 DEF Keeps, DiskKeeps
    <3>2. IsClear(v.disk, fewer, o, Extent(v.disk[o]))
      BY <3>1 DEF IsClear
    <3> QED BY <3>1, <3>2 DEF IsClearHeader, Span, SimpleTypes, FreeTypes
  <2>2. CASE o \notin kept
    BY <1>1, <2>2 DEF Keeps, DiskKeeps
  <2> QED BY <2>1, <2>2
<1>4. DiskKeeps(v.disk, fewer)
  BY <1>2, <1>3 DEF Keeps, DiskKeeps
<1>5. ListsKeep(v, fewer)
  BY <1>1 DEF Keeps, ListsKeep
<1> QED BY <1>4, <1>5 DEF Keeps

\* Other free lists, on a device where less is kept and covers the same, keep it.
LEMMA ListsOfFewer ==
  ASSUME NEW v, NEW w, NEW kept, NEW fewer, fewer \subseteq kept, ListsKeep(v, kept),
         w.bins = v.bins, w.end = v.end,
         \A d \in fewer : Extent(w.disk[d]) = Extent(v.disk[d])
  PROVE  ListsKeep(w, fewer)
<1> DEFINE e == w.disk  disk == v.disk
<1>1. \A d \in fewer : Extent(e[d]) = Extent(disk[d])
  OBVIOUS
<1>2. \A o, n : IsClear(disk, kept, o, n) => IsClear(e, fewer, o, n)
  <2> HIDE DEF e, disk
  <2> QED BY <1>1, ClearOfFewer
<1> QED BY <1>2 DEF ListsKeep

\* A sound volume keeps whatever is in use on it.
LEMMA SoundKeeps ==
  ASSUME NEW v, Sound(v, {})
  PROVE  Keeps(v, InUse(v.disk))
<1> DEFINE kept == InUse(v.disk)
<1>1. IsVolume(v) /\ IsDisk(v.disk)
  BY DEF Sound, IsVolume, IsDisk
<1>2. \A p \in DOMAIN v.disk :
        /\ p \in Nat /\ v.disk[p] \in Header /\ v.disk[p].room \in Nat
        /\ Extent(v.disk[p]) \in Nat /\ Extent(v.disk[p]) <= v.disk[p].room
        /\ p + v.disk[p].room <= v.end /\ v.end \in Nat
        /\ v.disk[p].type \in SimpleTypes \cup FreeTypes
        /\ v.disk[p].type = "kEmptyComplex" => v.disk[p].room = v.disk[p].overall + DataOffset
  BY <1>1, ExtentType DEF IsDisk, IsVolume, Header, Sound, HeadersFit, RoomsDisjoint
<1>3. ASSUME NEW p \in DOMAIN v.disk, NEW n \in Nat, n <= v.disk[p].room
      PROVE  IsClear(v.disk, kept \ {p}, p, n)
  <2> SUFFICES ASSUME NEW d \in kept \ {p}
               PROVE  p + n <= d \/ d + Extent(v.disk[d]) <= p
    BY DEF IsClear
  <2>1. d \in DOMAIN v.disk /\ d # p
    BY DEF InUse
  <2>2. p + v.disk[p].room <= d \/ d + v.disk[d].room <= p
    BY <1>2, <2>1 DEF Sound, RoomsDisjoint
  <2> QED BY <1>2, <1>3, <2>1, <2>2
<1>4. ASSUME NEW p \in FreeOf(v, {}), NEW n \in Nat, n <= v.disk[p].room
      PROVE  IsClear(v.disk, kept, p, n)
  <2>1. p \in DOMAIN v.disk /\ p \notin kept
    BY DEF FreeOf, InUse, FreeTypes, SimpleTypes
  <2>2. IsClear(v.disk, kept \ {p}, p, n)
    BY <1>3, <1>4, <2>1
  <2> QED BY <2>1, <2>2 DEF IsClear
<1>5. kept \subseteq DOMAIN v.disk
  BY DEF InUse
<1>6. \A d \in kept : v.disk[d].type \in SimpleTypes
                      /\ IsClear(v.disk, kept \ {d}, d, Extent(v.disk[d]))
  BY <1>2, <1>3 DEF InUse
<1>7. ASSUME NEW o \in DOMAIN v.disk \ kept
      PROVE  IsClearHeader(v.disk, kept, o, v.disk[o])
  <2> DEFINE h == v.disk[o]
  <2>1. o \in FreeOf(v, {}) /\ h.type \in FreeTypes
    BY <1>2 DEF FreeOf, InUse
  <2>2. h \in Header /\ h.overall \in Nat
    BY <1>2 DEF Header
  <2>3. Span(h) \in Nat /\ Span(h) <= h.room
    BY <1>2, <2>1, <2>2, SpanType, ExtentType, Sizes DEF FreeTypes, Span
  <2>4. IsClear(v.disk, kept, o, Span(h))
    BY <1>4, <2>1, <2>3
  <2>5. h.next # None => IsClear(v.disk, kept, h.next, LinkSize(h.type))
    <3> SUFFICES ASSUME h.next # None
                 PROVE  IsClear(v.disk, kept, h.next, LinkSize(h.type))
      OBVIOUS
    <3>1. /\ h.next \in FreeOf(v, {})
          /\ h.type # "kEmpty4Simple" => v.disk[h.next].room >= Simple8Size
      BY <2>1 DEF Sound, LinksFree
    <3>2. h.next \in DOMAIN v.disk
      BY <3>1 DEF FreeOf
    <3>3. v.disk[h.next].room >= Simple4Size
      BY <1>2, <3>2, ExtentType, Sizes
    <3>4. LinkSize(h.type) \in Nat /\ LinkSize(h.type) <= v.disk[h.next].room
      BY <3>1, <3>3, Sizes DEF LinkSize
    <3> QED BY <1>4, <3>1, <3>4
  <2> QED BY <2>4, <2>5 DEF IsClearHeader
<1>8. DiskKeeps(v.disk, kept)
  <2>1. \A o \in DOMAIN v.disk :
          /\ v.disk[o].type # "kString"
          /\ v.disk[o].type = "kEmptyComplex" => v.disk[o].room = v.disk[o].overall + DataOffset
    BY <1>2 DEF SimpleTypes, FreeTypes
  <2> QED BY <1>5, <1>6, <1>7, <2>1 DEF DiskKeeps
<1>9. ListsKeep(v, kept)
  <2>1. ASSUME NEW b \in Bins, v.bins[b] # None
        PROVE  IsClear(v.disk, kept, v.bins[b], BinSize(b))
    <3>1. v.bins[b] \in FreeOf(v, {}) /\ (b > 0 => v.disk[v.bins[b]].room >= Simple8Size)
      BY <2>1 DEF Sound, HeadsFree
    <3>2. v.bins[b] \in DOMAIN v.disk
      BY <3>1 DEF FreeOf
    <3>3. v.disk[v.bins[b]].room >= Simple4Size /\ b \in Nat
      BY <1>2, <3>2, ExtentType, Sizes DEF Bins
    <3>4. BinSize(b) \in Nat /\ BinSize(b) <= v.disk[v.bins[b]].room
      BY <3>1, <3>3, Sizes DEF BinSize
    <3> QED BY <1>4, <3>1, <3>4
  <2>2. \A d \in kept : d + Extent(v.disk[d]) <= v.end
    <3> SUFFICES ASSUME NEW d \in kept PROVE d + Extent(v.disk[d]) <= v.end
      OBVIOUS
    <3>1. d \in DOMAIN v.disk
      BY <1>5
    <3> QED BY <1>2, <3>1
  <2> QED BY <2>1, <2>2 DEF ListsKeep
<1> QED BY <1>1, <1>8, <1>9 DEF Keeps
\* The popped offset is clear of what is kept, for as many bytes as were requested.
LEMMA PopKeeps ==
  ASSUME NEW v, NEW kept, Keeps(v, kept), NEW size \in {Simple4Size, Simple8Size},
         NEW o, o = PopFreeEntryOffset(v.bins, size), o # None
  PROVE  /\ o \in Nat \ {0} /\ IsClear(v.disk, kept, o, size)
         /\ Popped(v, size).disk = v.disk /\ Keeps(Popped(v, size), kept)
<1> DEFINE b == PopBin(v.bins, size)
           w == Popped(v, size)
<1>1. IsVolume(v) /\ IsDisk(v.disk) /\ kept \subseteq DOMAIN v.disk
  BY DEF Keeps, IsVolume, IsDisk, DiskKeeps
<1>2. /\ b \in Bins /\ o = v.bins[b]
      /\ size = Simple8Size => b > 0
      /\ PopFreeEntry(v.bins, size) = [v.bins EXCEPT ![b] = None]
  BY <1>1, PopBinServes DEF IsVolume
<1>3. o \in Nat \ {0}
  BY <1>1, <1>2, Sizes DEF IsVolume
<1>4. /\ w.disk = v.disk /\ w.bins = [v.bins EXCEPT ![b] = None] /\ w.end = v.end
      /\ w.last = v.last /\ w.cluster = v.cluster
      /\ w = [disk |-> w.disk, bins |-> w.bins, end |-> w.end, last |-> w.last,
              cluster |-> w.cluster]
  BY <1>1, <1>2 DEF IsVolume, Popped
<1> HIDE DEF w, b
<1>5. IsVolume(w)
  <2>1. v.bins \in [Bins -> Nat] /\ None \in Nat
    BY <1>1, Sizes DEF IsVolume
  <2>2. w.bins \in [Bins -> Nat]
    BY <1>4, <2>1
  <2> QED BY <1>1, <1>4, <2>2 DEF IsVolume
<1>6. IsClear(v.disk, kept, o, BinSize(b))
  BY <1>2 DEF Keeps, ListsKeep
<1>7. size <= BinSize(b) /\ BinSize(b) \in Nat /\ size \in Nat
  BY <1>2, Sizes DEF BinSize
<1>8. IsClear(v.disk, kept, o, size)
  <2> DEFINE disk == v.disk
             n == BinSize(b)
  <2>1. /\ IsDisk(disk) /\ kept \subseteq DOMAIN disk /\ o \in Nat /\ n \in Nat
        /\ IsClear(disk, kept, o, n) /\ size \in Nat /\ o <= o /\ o + size <= o + n
    BY <1>1, <1>3, <1>6, <1>7
  <2> HIDE DEF disk, n
  <2>2. IsClear(disk, kept, o, size)
    BY <2>1, ClearWithin
  <2> QED BY <2>2 DEF disk
<1>9. ListsKeep(w, kept)
  <2>1. \A c \in Bins : w.bins[c] # None => w.bins[c] = v.bins[c]
    BY <1>1, <1>2, <1>4 DEF IsVolume
  <2> QED BY <1>4, <2>1 DEF Keeps, ListsKeep
<1> QED
  BY <1>3, <1>4, <1>5, <1>8, <1>9 DEF Keeps, w

\* An entry that a bin is told of by recovering or freeing must be clear of what is
\* kept, for the largest header that the bin's entries are taken for.
LEMMA PushKeeps ==
  ASSUME NEW v, NEW kept, Keeps(v, kept), NEW c \in Bins, NEW n \in Nat,
         NEW size \in Nat, IsClear(v.disk, kept, n, size), BinSize(c) <= size
  PROVE  LET w == [v EXCEPT !.bins = [v.bins EXCEPT ![c] = n]]
         IN  Keeps(w, kept) /\ w.disk = v.disk /\ w.end = v.end
<1> DEFINE w == [v EXCEPT !.bins = [v.bins EXCEPT ![c] = n]]
<1>1. IsVolume(v) /\ IsDisk(v.disk) /\ kept \subseteq DOMAIN v.disk
  BY DEF Keeps, IsVolume, IsDisk, DiskKeeps
<1>2. /\ w.disk = v.disk /\ w.bins = [v.bins EXCEPT ![c] = n] /\ w.end = v.end
      /\ w.last = v.last /\ w.cluster = v.cluster
      /\ w = [disk |-> w.disk, bins |-> w.bins, end |-> w.end, last |-> w.last,
              cluster |-> w.cluster]
  BY <1>1 DEF IsVolume
<1> HIDE DEF w
<1>3. IsVolume(w)
  <2>1. w.bins \in [Bins -> Nat]
    BY <1>1, <1>2 DEF IsVolume
  <2> QED BY <1>1, <1>2, <2>1 DEF IsVolume
<1>4. IsClear(v.disk, kept, n, BinSize(c))
  <2> DEFINE disk == v.disk
             m == BinSize(c)
  <2>1. m \in Nat /\ n <= n /\ n + m <= n + size
    BY Sizes DEF BinSize
  <2>2. IsDisk(disk) /\ kept \subseteq DOMAIN disk /\ IsClear(disk, kept, n, size)
    BY <1>1
  <2> HIDE DEF disk, m
  <2>3. IsClear(disk, kept, n, m)
    BY <2>1, <2>2, ClearWithin
  <2> QED BY <2>3 DEF disk, m
<1>5. \A b \in Bins : w.bins[b] = IF b = c THEN n ELSE v.bins[b]
  BY <1>1, <1>2 DEF IsVolume
<1>6. ListsKeep(w, kept)
  BY <1>2, <1>4, <1>5 DEF Keeps, ListsKeep
<1> QED BY <1>2, <1>3, <1>6 DEF Keeps, w

\* Recovering the successor of a popped entry keeps everything, whatever bin the
\* size that is read for it leads to.
LEMMA RecoverKeeps ==
  ASSUME NEW v, NEW kept, Keeps(v, kept), NEW o \in DOMAIN v.disk \ kept,
         v.disk[o].type \in FreeTypes, NEW junk \in Nat
  PROVE  /\ RecoverAndPushNext(v, o, junk).disk = v.disk
         /\ Keeps(RecoverAndPushNext(v, o, junk), kept)
<1> DEFINE h == v.disk[o]
           n == h.next
<1>1. CASE n = None
  BY <1>1 DEF RecoverAndPushNext
<1>2. CASE n # None
  <2> DEFINE next == HeaderAt(v.disk, n)
             size == CASE h.type = "kEmpty4Simple" -> Simple4Size
                       [] h.type = "kEmpty8Simple" -> Simple8Size
                       [] OTHER -> DataOffset + (IF IsComplexFormat(next)
                                                 THEN next.overall ELSE junk)
             c == BinIdForSize(size)
  <2>1. h \in Header /\ n \in Nat
    BY DEF Keeps, IsVolume, Header
  <2>2. next.overall \in Nat
    BY Sizes DEF Keeps, IsVolume, Header, HeaderAt, Overwritten, FreeHeader
  <2>3. size \in Nat /\ (h.type = "kEmpty4Simple" => size = Simple4Size)
    BY <2>2, Sizes DEF FreeTypes
  <2>4. c \in Bins /\ (h.type = "kEmpty4Simple" => c = 0)
    BY <2>3, BinIdType, Sizes
  <2>5. IsClear(v.disk, kept, n, LinkSize(h.type))
    BY <1>2 DEF Keeps, DiskKeeps, IsClearHeader, FreeTypes
  <2>6. LinkSize(h.type) \in Nat /\ BinSize(c) <= LinkSize(h.type)
    BY <2>4, Sizes DEF LinkSize, BinSize
  <2>7. RecoverAndPushNext(v, o, junk) = [v EXCEPT !.bins = [v.bins EXCEPT ![c] = n]]
    BY <1>2 DEF RecoverAndPushNext, PushFreeEntry
  <2> DEFINE s == LinkSize(h.type)
  <2> HIDE DEF c, n, s
  <2>8. /\ s \in Nat /\ n \in Nat /\ c \in Bins /\ IsClear(v.disk, kept, n, s)
        /\ BinSize(c) <= s
    BY <2>1, <2>4, <2>5, <2>6 DEF s, n
  <2> QED BY <2>7, <2>8, PushKeeps
<1> QED BY <1>1, <1>2

\* Overwriting a header that is not kept keeps the device safe.
LEMMA KeptDamage ==
  ASSUME NEW disk, NEW kept, IsDisk(disk), DiskKeeps(disk, kept),
         NEW o \in DOMAIN disk \ kept, NEW h \in Header, h.type = "overwritten"
  PROVE  LET e == [disk EXCEPT ![o] = h]
         IN  IsDisk(e) /\ DiskKeeps(e, kept) /\ SameKept(disk, e, kept)
<1> DEFINE e == [disk EXCEPT ![o] = h]
<1>1. DOMAIN e = DOMAIN disk /\ \A p \in DOMAIN disk : e[p] = IF p = o THEN h ELSE disk[p]
  OBVIOUS
<1>2. IsDisk(e)
  BY DEF IsDisk
<1> HIDE DEF e
<1>3. kept \subseteq DOMAIN e /\ \A d \in kept : e[d] = disk[d]
  BY <1>1 DEF DiskKeeps
<1>4. \A q, g : IsClearHeader(disk, kept, q, g) => IsClearHeader(e, kept, q, g)
  BY <1>3, ClearOfFewer
<1>5. \A d \in kept : e[d].type \in SimpleTypes /\ IsClear(e, kept \ {d}, d, Extent(e[d]))
  BY <1>3 DEF DiskKeeps, IsClear
<1>6. \A p \in DOMAIN e \ kept : IsClearHeader(e, kept, p, e[p])
  BY <1>1, <1>4 DEF DiskKeeps, IsClearHeader
<1>7. \A p \in DOMAIN e :
        /\ e[p].type # "kString"
        /\ e[p].type = "kEmptyComplex" => e[p].room = e[p].overall + DataOffset
  BY <1>1 DEF DiskKeeps
<1>8. DiskKeeps(e, kept)
  BY <1>3, <1>5, <1>6, <1>7 DEF DiskKeeps
<1> QED BY <1>2, <1>3, <1>8 DEF SameKept, e

\* Splitting an entry writes behind the bytes that were requested and before the end
\* that its header gives, and overwrites that header itself.
LEMMA SplitKeeps ==
  ASSUME NEW v, NEW kept, Keeps(v, kept), NEW o \in DOMAIN v.disk \ kept,
         v.disk[o].type = "kEmptyComplex",
         NEW size \in {Simple4Size, Simple8Size}, size <= v.disk[o].overall
  PROVE  LET w == SplitEntries(v, o, size, v.disk[o].overall - size)
         IN  Keeps(w, kept) /\ SameKept(v.disk, w.disk, kept)
<1> DEFINE h == v.disk[o]
           rest == h.overall - size
           w == SplitEntries(v, o, size, rest)
           q == o + size
           c == BinIdForSize(rest)
           next == GetFreeEntry(v.bins, rest)
           type == SplitType(rest)
           behind == FreeHeader(type, rest, next, h.room - size)
           cut == [v.disk EXCEPT ![o].room = size]
           e == Write(v.disk, q, behind)
           hurt == [Overwritten EXCEPT !.room = size]
<1>1. IsVolume(v) /\ IsDisk(v.disk) /\ kept \subseteq DOMAIN v.disk /\ DiskKeeps(v.disk, kept)
  BY DEF Keeps, IsVolume, IsDisk, DiskKeeps
<1>2. /\ h \in Header /\ h.overall \in Nat /\ h.room \in Nat /\ o \in Nat \ {0}
      /\ size \in Nat /\ size >= 12 /\ size <= 16
      /\ rest \in Nat /\ q \in Nat \ {0} /\ o < q
      /\ h.room = h.overall + DataOffset /\ h.room - size = rest + DataOffset
      /\ h.room - size \in Nat
  BY <1>1, Sizes DEF IsDisk, Header, DiskKeeps
<1>3. CASE rest < Simple4Size
  <2>1. w = v
    BY <1>3 DEF SplitEntries
  <2> HIDE DEF w
  <2>2. Keeps(w, kept) /\ SameKept(v.disk, w.disk, kept)
    BY <1>1, <2>1 DEF SameKept
  <2> QED BY <2>2 DEF w
<1>4. CASE rest >= Simple4Size
  <2>1. c \in Bins /\ next = v.bins[c] /\ next \in Nat /\ (rest > Simple4Size => c > 0)
    BY <1>1, <1>2, BinIdType, BinIdPositive, GetFreeEntryBin DEF IsVolume
  <2>2. /\ type \in FreeTypes
        /\ type = "kEmptyComplex" => rest > ComplexSize
        /\ type = "kEmpty8Simple" => rest >= Simple8Size
        /\ type # "kEmpty4Simple" => rest >= Simple8Size
    BY <1>2, Sizes DEF SplitType, FreeTypes
  <2>3. w = [v EXCEPT !.disk = Write(cut, q, behind), !.bins = [v.bins EXCEPT ![c] = q]]
    BY <1>2, <1>4, Sizes DEF SplitEntries, PushFreeEntry
  <2> HIDE DEF rest, c, next, type, w
  <2>4. /\ behind \in Header /\ behind.type = type /\ behind.overall = rest
        /\ behind.next = next /\ behind.room = rest + DataOffset
    <3> DEFINE room == h.room - size
    <3>1. rest \in Nat /\ room \in Nat /\ next \in Nat /\ type \in FreeTypes
      BY <1>2, <2>1, <2>2
    <3> HIDE DEF room
    <3>2. /\ FreeHeader(type, rest, next, room) \in Header
          /\ FreeHeader(type, rest, next, room).type = type
          /\ FreeHeader(type, rest, next, room).overall = rest
          /\ FreeHeader(type, rest, next, room).next = next
          /\ FreeHeader(type, rest, next, room).room = room
      BY <3>1, FreeHeaderType
    <3> QED BY <1>2, <3>2 DEF room
  <2> HIDE DEF behind
  <2>5. /\ Extent(behind) \in Nat /\ Extent(behind) >= 12
        /\ Extent(behind) <= rest + DataOffset
        /\ Span(behind) \in Nat /\ Span(behind) <= rest + DataOffset
    BY <1>2, <1>4, <2>2, <2>4, ExtentType, SpanType, Sizes DEF FreeTypes
  <2>6. IsClear(v.disk, kept, o, h.overall + DataOffset)
    BY DEF Keeps, DiskKeeps, IsClearHeader, Span
  <2>7. q \notin kept /\ \A m \in Nat : m <= rest + DataOffset => IsClear(v.disk, kept, q, m)
    <3> DEFINE disk == v.disk
               n == h.overall + DataOffset
    <3>1. /\ IsDisk(disk) /\ kept \subseteq DOMAIN disk /\ o \in Nat /\ n \in Nat
          /\ IsClear(disk, kept, o, n) /\ q \in Nat /\ o <= q /\ q < o + n
          /\ q + rest + DataOffset = o + n
      BY <1>1, <1>2, <2>6, Sizes DEF rest
    <3> HIDE DEF disk, n, q
    <3>2. q \notin kept
      BY <3>1, ClearIsElsewhere
    <3>3. ASSUME NEW m \in Nat, m <= rest + DataOffset PROVE IsClear(disk, kept, q, m)
      <4>1. q + m <= o + n
        BY <1>2, <3>1, <3>3, Sizes
      <4> QED BY <3>1, <4>1, ClearWithin
    <3> QED BY <3>2, <3>3 DEF disk
  <2>8. IsClearHeader(v.disk, kept, q, behind)
    <3>1. IsClear(v.disk, kept, q, Span(behind))
      BY <2>5, <2>7
    <3>2. behind.next # None => IsClear(v.disk, kept, behind.next, LinkSize(type))
      <4> SUFFICES ASSUME next # None PROVE IsClear(v.disk, kept, next, LinkSize(type))
        BY <2>4
      <4>1. IsClear(v.disk, kept, next, BinSize(c))
        BY <2>1 DEF Keeps, ListsKeep
      <4>2. /\ LinkSize(type) <= BinSize(c) /\ LinkSize(type) \in Nat /\ BinSize(c) \in Nat
        BY <1>2, <2>1, <2>2, Sizes DEF LinkSize, BinSize
      <4> DEFINE disk == v.disk
                 n == BinSize(c)
                 m == LinkSize(type)
      <4>3. /\ IsDisk(disk) /\ kept \subseteq DOMAIN disk /\ next \in Nat /\ n \in Nat
            /\ m \in Nat /\ IsClear(disk, kept, next, n)
            /\ next <= next /\ next + m <= next + n
        BY <1>1, <2>1, <4>1, <4>2
      <4> HIDE DEF disk, n, m
      <4>4. IsClear(disk, kept, next, m)
        BY <4>3, ClearWithin
      <4> QED BY <4>4 DEF disk, m
    <3> QED BY <2>4, <3>1, <3>2 DEF IsClearHeader
  <2>9. /\ IsDisk(e) /\ DiskKeeps(e, kept) /\ DOMAIN e = DOMAIN v.disk \cup {q}
        /\ SameKept(v.disk, e, kept)
    <3> DEFINE disk == v.disk
               others == kept \ {q}
    <3>1. /\ IsDisk(disk) /\ DiskKeeps(disk, kept) /\ q \in Nat \ {0} /\ behind \in Header
          /\ behind.type # "kString"
          /\ behind.type = "kEmptyComplex" => behind.room = behind.overall + DataOffset
          /\ q \notin kept /\ others = kept /\ others = kept \ {q}
          /\ IsClear(disk, others, q, Extent(behind))
          /\ IsClearHeader(disk, kept, q, behind)
      BY <1>1, <1>2, <2>2, <2>4, <2>5, <2>7, <2>8 DEF FreeTypes
    <3> HIDE DEF disk, q, others
    <3>2. /\ IsDisk(Write(disk, q, behind)) /\ DiskKeeps(Write(disk, q, behind), kept)
          /\ DOMAIN Write(disk, q, behind) = DOMAIN disk \cup {q}
          /\ SameKept(disk, Write(disk, q, behind), others)
      <4>1. q \in kept => behind.type \in SimpleTypes /\ Extent(behind) = Extent(disk[q])
        BY <3>1
      <4>2. q \notin kept => IsClearHeader(disk, kept, q, behind)
        BY <3>1
      <4>3. IsDisk(Write(disk, q, behind))
        BY <3>1, <4>1, <4>2, KeptWrite
      <4>4. DiskKeeps(Write(disk, q, behind), kept)
        BY <3>1, <4>1, <4>2, KeptWrite
      <4>5. SameKept(disk, Write(disk, q, behind), others)
        BY <3>1, <4>1, <4>2, KeptWrite
      <4>6. DOMAIN Write(disk, q, behind) = DOMAIN disk \cup {q}
        BY DEF Write
      <4> QED BY <4>3, <4>4, <4>5, <4>6
    <3> QED BY <3>1, <3>2 DEF disk
  <2>10. Write(cut, q, behind) = [e EXCEPT ![o] = hurt]
    <3>1. /\ DOMAIN cut = DOMAIN v.disk /\ o # q
          /\ \A p \in DOMAIN v.disk \ {o} : cut[p] = v.disk[p]
          /\ cut[o] = [h EXCEPT !.room = size]
      BY <1>2
    <3>2. cut[o].room = size /\ cut[o] \in Header /\ cut[o].type = "kEmptyComplex"
      BY <1>2, <3>1 DEF Header
    <3> HIDE DEF cut
    <3>3. q < o + Extent(cut[o])
      BY <1>2, <3>2, ExtentType, Sizes
    <3>4. o < q + Extent(behind)
      BY <1>2, <2>5
    <3>5. Write(cut, q, behind)[o] = hurt
      BY <3>1, <3>2, <3>3, <3>4 DEF Write
    <3>6. \A p \in DOMAIN e : p # o => Write(cut, q, behind)[p] = e[p]
      BY <3>1 DEF Write
    <3>7. DOMAIN Write(cut, q, behind) = DOMAIN e
      BY <3>1 DEF Write
    <3>8. Write(cut, q, behind) = [p \in DOMAIN Write(cut, q, behind) |-> Write(cut, q, behind)[p]]
      BY DEF Write
    <3> QED BY <3>5, <3>6, <3>7, <3>8
  <2>11. hurt \in Header /\ hurt.type = "overwritten"
    BY <1>2, OverwrittenType
  <2> DEFINE f == [e EXCEPT ![o] = hurt]
  <2>12. IsDisk(f) /\ DiskKeeps(f, kept) /\ SameKept(e, f, kept)
    <3> HIDE DEF e, hurt
    <3>1. o \in DOMAIN e \ kept
      BY <2>9
    <3> QED BY <2>9, <2>11, <3>1, KeptDamage
  <2> HIDE DEF f, e, q
  <2>13. /\ w.disk = f /\ w.bins = [v.bins EXCEPT ![c] = q] /\ w.end = v.end
         /\ w.last = v.last /\ w.cluster = v.cluster
         /\ w = [disk |-> w.disk, bins |-> w.bins, end |-> w.end, last |-> w.last,
                 cluster |-> w.cluster]
    BY <1>1, <2>3, <2>10 DEF IsVolume, f
  <2>14. IsVolume(w)
    <3>1. w.bins \in [Bins -> Nat]
      BY <1>1, <1>2, <2>13 DEF IsVolume
    <3> QED BY <1>1, <2>12, <2>13, <3>1 DEF IsVolume, IsDisk
  <2>15. \A d \in kept : f[d] = v.disk[d]
    BY <2>9, <2>12 DEF SameKept
  <2>16. ListsKeep(w, kept)
    <3>1. \A b \in Bins : w.bins[b] = IF b = c THEN q ELSE v.bins[b]
      BY <1>1, <2>13 DEF IsVolume
    <3>2. BinSize(c) \in Nat /\ BinSize(c) <= rest + DataOffset
      BY <1>2, Sizes DEF BinSize
    <3>3. \A b \in Bins : w.bins[b] # None => IsClear(v.disk, kept, w.bins[b], BinSize(b))
      BY <2>7, <3>1, <3>2 DEF Keeps, ListsKeep
    <3>4. \A p, n : IsClear(v.disk, kept, p, n) => IsClear(w.disk, kept, p, n)
      BY <2>13, <2>15 DEF IsClear
    <3>5. \A d \in kept : d + Extent(w.disk[d]) <= w.end
      BY <2>13, <2>15 DEF Keeps, ListsKeep
    <3> QED BY <3>3, <3>4, <3>5 DEF ListsKeep
  <2>17. SameKept(v.disk, w.disk, kept)
    BY <2>12, <2>13, <2>15 DEF SameKept
  <2> QED BY <2>12, <2>13, <2>14, <2>16, <2>17 DEF Keeps, w, rest
<1> QED BY <1>2, <1>3, <1>4, Sizes
\* Expanding writes behind the end of the device, and nothing that is kept lies there,
\* whatever a session that crashed has left behind it.
LEMMA ExpandKeeps ==
  ASSUME FixedSize, NEW v, NEW kept, Keeps(v, kept), v.bins[kBinCount - 1] = None
  PROVE  Keeps(Expanded(v), kept) /\ SameKept(v.disk, Expanded(v).disk, kept)
<1> DEFINE c == kDefaultClusterSize
           end == v.end
           last == Grown(v.last)
           count == NewClusters(last, c)
           new == ClusterOffsets(end, c, count)
           newest == end + (count - 1) * c
           finish == end + count * c
           top == kBinCount - 1
           w == Expanded(v)
           Cluster(o) == FreeHeader("kEmptyComplex", c - DataOffset,
                                    IF o = end THEN None ELSE o - c, c)
           Left == {p \in DOMAIN v.disk : p < end \/ finish <= p}
           Was(o) == IF o < end /\ count > 0 /\ end < o + Extent(v.disk[o])
                     THEN [Overwritten EXCEPT !.room = v.disk[o].room] ELSE v.disk[o]
<1>1. /\ IsVolume(v) /\ c \in Nat /\ c > 0 /\ top \in Bins /\ top > 0 /\ ClusterSize = c
      /\ IsDisk(v.disk) /\ kept \subseteq DOMAIN v.disk /\ DiskKeeps(v.disk, kept)
  <2>1. IsVolume(v) /\ DiskKeeps(v.disk, kept)
    BY DEF Keeps
  <2>2. IsDisk(v.disk) /\ kept \subseteq DOMAIN v.disk
    BY <2>1 DEF IsDisk, IsVolume, DiskKeeps
  <2>3. /\ c \in Nat /\ c > 0 /\ top \in Bins /\ top > 0 /\ ClusterSize = c
    BY Sizes DEF FixedSize, Bins
  <2> QED BY <2>1, <2>2, <2>3
<1>2. GetFreeEntry(v.bins, ClusterSize) = None /\ BinIdForSize(ClusterSize) = top
  BY <1>1, BinIdCapped, GetFreeEntryBin DEF IsVolume
<1>3. last \in Nat /\ last >= Milli /\ count \in Nat \ {0}
  BY <1>1, ExpandsByClusters DEF IsVolume
<1>4. end \in Nat \ {0}
  BY <1>1 DEF IsVolume
<1>5. /\ finish \in Nat /\ end <= finish /\ newest \in new
      /\ new \subseteq Nat
      /\ \A o \in new : o \in Nat /\ end <= o /\ o < finish /\ (o # end => o - c \in new)
  <2> HIDE DEF c, count
  <2>1. /\ count * c \in Nat /\ newest \in new /\ newest \in Nat
        /\ new \subseteq Nat
        /\ \A o \in new : /\ o \in Nat /\ end <= o /\ o <= newest
                          /\ o + c <= finish
                          /\ o # end => o - c \in new
    BY <1>1, <1>3, <1>4, ClusterOffsetsType
  <2> QED BY <1>1, <1>4, <2>1
<1>6. /\ w.disk = ExpandDisk(v.disk, None, end, c, count)
      /\ w.bins = [v.bins EXCEPT ![top] = newest]
      /\ w.end = finish /\ w.last = last /\ w.cluster = c
      /\ w = [disk |-> w.disk, bins |-> w.bins, end |-> w.end, last |-> w.last,
              cluster |-> w.cluster]
  BY <1>1, <1>2 DEF Expanded, PushFreeEntry, ExpandOffset, IsVolume
<1>7. w.disk = [o \in Left \cup new |-> IF o \in new THEN Cluster(o) ELSE Was(o)]
  BY <1>6 DEF ExpandDisk, ClusterCapacity, ClusterLink
<1> HIDE DEF w, last, count, newest, finish
<1>8. ASSUME NEW o \in new
      PROVE  /\ Cluster(o) \in Header /\ Cluster(o).type = "kEmptyComplex"
             /\ Cluster(o).overall = c - DataOffset /\ Cluster(o).room = c
             /\ Cluster(o).next = IF o = end THEN None ELSE o - c
  <2> DEFINE next == IF o = end THEN None ELSE o - c
             size == c - DataOffset
  <2>1. next \in Nat /\ size \in Nat
    <3>1. size \in Nat
      BY <1>1, Sizes
    <3>2. o # end => o - c \in Nat
      BY <1>5
    <3>3. None \in Nat
      BY Sizes
    <3> QED BY <3>1, <3>2, <3>3
  <2>2. Cluster(o) = FreeHeader("kEmptyComplex", size, next, c)
    OBVIOUS
  <2> HIDE DEF next, size, Cluster, c
  <2>3. /\ Cluster(o) \in Header /\ Cluster(o).type = "kEmptyComplex"
        /\ Cluster(o).overall = size /\ Cluster(o).room = c /\ Cluster(o).next = next
    BY <1>1, <2>1, <2>2, FreeHeaderType DEF FreeTypes
  <2> QED BY <2>3 DEF next, size
<1>9. ASSUME NEW o \in Left
      PROVE  Was(o) \in Header /\ (Was(o) = v.disk[o] \/ Was(o).type = "overwritten")
  <2>1. v.disk[o] \in Header /\ v.disk[o].room \in Nat
    BY <1>1 DEF IsDisk, Header
  <2> QED BY <2>1, OverwrittenType
<1>10. \A d \in kept : /\ d \in Nat /\ Extent(v.disk[d]) \in Nat /\ Extent(v.disk[d]) >= 12
                       /\ d + Extent(v.disk[d]) <= end
  BY <1>1, ExtentType, Sizes DEF Keeps, ListsKeep, IsDisk
<1>11. ASSUME NEW d \in kept PROVE d \in Left /\ d \notin new /\ Was(d) = v.disk[d]
  <2>1. d < end /\ ~(end < d + Extent(v.disk[d]))
    BY <1>4, <1>10
  <2> QED BY <1>1, <1>4, <1>5, <1>10, <2>1
<1> HIDE DEF Cluster, Was
<1>12. /\ DOMAIN w.disk = Left \cup new
       /\ \A o \in new : w.disk[o] = Cluster(o)
       /\ \A o \in Left \ new : w.disk[o] = Was(o)
       /\ \A o \in DOMAIN w.disk : w.disk[o] \in Header
       /\ IsDisk(w.disk)
  <2> HIDE DEF new, Left
  <2>1. /\ DOMAIN w.disk = Left \cup new
        /\ \A o \in new : w.disk[o] = Cluster(o)
        /\ \A o \in Left \ new : w.disk[o] = Was(o)
    BY <1>7
  <2>2. \A o \in DOMAIN w.disk : w.disk[o] \in Header
    BY <1>8, <1>9, <2>1
  <2>3. w.disk = [o \in DOMAIN w.disk |-> w.disk[o]]
    BY <1>7
  <2>4. DOMAIN w.disk \subseteq Nat \ {0}
    <3>1. Left \subseteq Nat \ {0}
      BY <1>1 DEF IsDisk, Left
    <3>2. new \subseteq Nat \ {0}
      BY <1>4, <1>5
    <3> QED BY <2>1, <3>1, <3>2
  <2>5. IsDisk(w.disk)
    BY <2>2, <2>3, <2>4 DEF IsDisk
  <2> QED BY <2>1, <2>2, <2>5
<1> HIDE DEF new, Left
<1>13. kept \subseteq DOMAIN w.disk /\ \A d \in kept : w.disk[d] = v.disk[d]
  BY <1>11, <1>12
<1>14. \A o, n : IsClear(v.disk, kept, o, n) => IsClear(w.disk, kept, o, n)
  BY <1>13 DEF IsClear
<1>15. \A o, h : IsClearHeader(v.disk, kept, o, h) => IsClearHeader(w.disk, kept, o, h)
  BY <1>14 DEF IsClearHeader
<1>16. ASSUME NEW o \in new, NEW n PROVE IsClear(w.disk, kept, o, n)
  <2> SUFFICES ASSUME NEW d \in kept PROVE d + Extent(w.disk[d]) <= o
    BY DEF IsClear
  <2> QED BY <1>4, <1>5, <1>10, <1>13
<1>17. ASSUME NEW o \in DOMAIN w.disk \ kept
       PROVE  IsClearHeader(w.disk, kept, o, w.disk[o])
  <2>1. CASE o \in new
    <3>1. w.disk[o] = Cluster(o) /\ (Cluster(o).next # None => Cluster(o).next \in new)
      BY <1>5, <1>8, <1>12, <2>1
    <3> QED BY <1>16, <2>1, <3>1 DEF IsClearHeader
  <2>2. CASE o \notin new
    <3>1. /\ o \in DOMAIN v.disk /\ w.disk[o] = Was(o)
          /\ Was(o) = v.disk[o] \/ Was(o).type = "overwritten"
      BY <1>9, <1>12, <2>2 DEF Left
    <3>2. Was(o) = v.disk[o] => IsClearHeader(w.disk, kept, o, w.disk[o])
      BY <1>1, <1>15, <3>1 DEF DiskKeeps
    <3> QED BY <3>1, <3>2 DEF IsClearHeader
  <2> QED BY <2>1, <2>2
<1>18. \A o \in DOMAIN w.disk :
         /\ w.disk[o].type # "kString"
         /\ w.disk[o].type = "kEmptyComplex" => w.disk[o].room = w.disk[o].overall + DataOffset
  <2> SUFFICES ASSUME NEW o \in DOMAIN w.disk
               PROVE  /\ w.disk[o].type # "kString"
                      /\ w.disk[o].type = "kEmptyComplex"
                           => w.disk[o].room = w.disk[o].overall + DataOffset
    OBVIOUS
  <2>1. CASE o \in new
    BY <1>1, <1>8, <1>12, <2>1, Sizes
  <2>2. CASE o \notin new
    <3>1. /\ o \in DOMAIN v.disk /\ w.disk[o] = Was(o)
          /\ Was(o) = v.disk[o] \/ Was(o).type = "overwritten"
      BY <1>9, <1>12, <2>2 DEF Left
    <3> QED BY <1>1, <3>1 DEF DiskKeeps
  <2> QED BY <2>1, <2>2
<1>19. DiskKeeps(w.disk, kept)
  <2>1. \A d \in kept : /\ w.disk[d].type \in SimpleTypes
                        /\ IsClear(w.disk, kept \ {d}, d, Extent(w.disk[d]))
    BY <1>1, <1>13 DEF DiskKeeps, IsClear
  <2> QED BY <1>13, <1>17, <1>18, <2>1 DEF DiskKeeps
<1>20. IsVolume(w)
  <2>1. w.bins \in [Bins -> Nat]
    BY <1>1, <1>5, <1>6 DEF IsVolume
  <2>2. w.disk \in [DOMAIN w.disk -> Header] /\ DOMAIN w.disk \subseteq Nat \ {0}
    BY <1>12 DEF IsDisk
  <2>3. w.end \in Nat \ {0}
    BY <1>4, <1>5, <1>6
  <2> QED BY <1>3, <1>6, <2>1, <2>2, <2>3 DEF IsVolume
<1>21. ListsKeep(w, kept)
  <2>1. \A b \in Bins : w.bins[b] = IF b = top THEN newest ELSE v.bins[b]
    BY <1>1, <1>6 DEF IsVolume
  <2>2. \A b \in Bins : w.bins[b] # None => IsClear(w.disk, kept, w.bins[b], BinSize(b))
    BY <1>5, <1>14, <1>16, <2>1 DEF Keeps, ListsKeep
  <2>3. \A d \in kept : d + Extent(w.disk[d]) <= w.end
    BY <1>4, <1>5, <1>6, <1>10, <1>13
  <2> QED BY <2>2, <2>3 DEF ListsKeep
<1> QED BY <1>13, <1>19, <1>20, <1>21 DEF Keeps, SameKept, w

\* What is kept is kept when getFreeOffset is about to pop from the volume.
LEMMA ProvidedKeeps ==
  ASSUME FixedSize, NEW v, NEW kept, Keeps(v, kept), NEW size \in {Simple4Size, Simple8Size}
  PROVE  Keeps(Provided(v, size), kept) /\ SameKept(v.disk, Provided(v, size).disk, kept)
<1>1. CASE PopFreeEntryOffset(v.bins, size) # None
  BY <1>1 DEF Provided, SameKept, Keeps, DiskKeeps
<1>2. CASE PopFreeEntryOffset(v.bins, size) = None
  <2>1. v.bins \in [Bins -> Nat]
    BY DEF Keeps, IsVolume
  <2>2. v.bins[kBinCount - 1] = None
    BY <1>2, <2>1, LastBinEmpty
  <2> QED BY <1>2, <2>2, ExpandKeeps DEF Provided
<1> QED BY <1>1, <1>2

\* Taking a free entry, of whatever kind the lists of the last save lead to, keeps
\* everything; the entry is clear of what is kept for the bytes that were requested.
LEMMA FreeEntryKeeps ==
  ASSUME NEW v, NEW kept, Keeps(v, kept), NEW size \in {Simple4Size, Simple8Size},
         NEW o, o = PopFreeEntryOffset(v.bins, size), o # None, NEW junk \in Nat
  PROVE  LET w == FreeEntry(v, size, junk)
         IN  /\ Keeps(w, kept) /\ SameKept(v.disk, w.disk, kept)
             /\ o \in Nat \ {0} /\ o \notin kept /\ IsClear(w.disk, kept, o, size)
<1> DEFINE p == Popped(v, size)
           r == RecoverAndPushNext(p, o, junk)
           w == FreeEntry(v, size, junk)
           h == HeaderAt(v.disk, o)
<1>1. /\ o \in Nat \ {0} /\ IsClear(v.disk, kept, o, size)
      /\ p.disk = v.disk /\ Keeps(p, kept)
  BY PopKeeps
<1>2. IsDisk(v.disk) /\ kept \subseteq DOMAIN v.disk
  BY DEF Keeps, IsVolume, IsDisk, DiskKeeps
<1>3. o \notin kept
  <2> DEFINE disk == v.disk
  <2>1. /\ IsDisk(disk) /\ kept \subseteq DOMAIN disk /\ o \in Nat /\ size \in Nat
        /\ IsClear(disk, kept, o, size) /\ o <= o /\ o < o + size
    BY <1>1, <1>2, Sizes
  <2> HIDE DEF disk
  <2> QED BY <2>1, ClearIsElsewhere
<1>4. Keeps(w, kept) /\ SameKept(v.disk, w.disk, kept)
  <2>1. CASE h.type \notin FreeTypes
    <3>1. w = p
      BY <2>1 DEF FreeEntry
    <3> HIDE DEF w, p
    <3> QED BY <1>1, <1>2, <3>1 DEF SameKept
  <2>2. CASE h.type \in FreeTypes
    <3>1. o \in DOMAIN v.disk \ kept /\ h = v.disk[o]
      BY <1>3, <2>2 DEF HeaderAt, Overwritten, FreeHeader, FreeTypes
    <3>2. r.disk = v.disk /\ Keeps(r, kept)
      <4>1. o \in DOMAIN p.disk \ kept /\ p.disk[o].type \in FreeTypes
        BY <1>1, <2>2, <3>1
      <4> HIDE DEF p
      <4> QED BY <1>1, <4>1, RecoverKeeps
    <3>3. CASE h.type = "kEmptyComplex" /\ size <= h.overall
      <4>1. w = SplitEntries(r, o, size, r.disk[o].overall - size)
        BY <2>2, <3>1, <3>2, <3>3 DEF FreeEntry
      <4>2. /\ o \in DOMAIN r.disk \ kept /\ r.disk[o].type = "kEmptyComplex"
            /\ size <= r.disk[o].overall
        BY <3>1, <3>2, <3>3
      <4> HIDE DEF r, w
      <4>3. Keeps(w, kept) /\ SameKept(r.disk, w.disk, kept)
        BY <3>2, <4>1, <4>2, SplitKeeps
      <4> QED BY <3>2, <4>3
    <3>4. CASE ~(h.type = "kEmptyComplex" /\ size <= h.overall)
      <4>1. w = r
        BY <2>2, <3>4 DEF FreeEntry
      <4> HIDE DEF w, r
      <4> QED BY <1>2, <3>2, <4>1 DEF SameKept
    <3> QED BY <3>3, <3>4
  <2> QED BY <2>1, <2>2
<1>5. IsClear(w.disk, kept, o, size)
  <2> HIDE DEF w
  <2> QED BY <1>1, <1>4 DEF SameKept, IsClear
<1> QED BY <1>1, <1>3, <1>4, <1>5
\* A header that is written clear of what is kept, or into a kept entry with the bytes
\* it had, keeps the volume.
LEMMA WriteKeepsVolume ==
  ASSUME NEW v, NEW kept, Keeps(v, kept), NEW o \in Nat \ {0}, NEW h \in Header,
         h.type \in SimpleTypes \cup {"kEmpty4Simple", "kEmpty8Simple"},
         IsClear(v.disk, kept \ {o}, o, Extent(h)),
         o \in kept => h.type \in SimpleTypes /\ Extent(h) = Extent(v.disk[o]),
         h.type \in FreeTypes /\ h.next # None =>
           IsClear(v.disk, kept, h.next, LinkSize(h.type))
  PROVE  LET w == [v EXCEPT !.disk = Write(v.disk, o, h)]
         IN  /\ Keeps(w, kept) /\ SameKept(v.disk, w.disk, kept \ {o}) /\ w.disk[o] = h
             /\ w.bins = v.bins /\ w.end = v.end
<1> DEFINE w == [v EXCEPT !.disk = Write(v.disk, o, h)]
           others == kept \ {o}
           disk == v.disk
           e == Write(disk, o, h)
<1>1. /\ IsVolume(v) /\ IsDisk(disk) /\ DiskKeeps(disk, kept) /\ ListsKeep(v, kept)
      /\ kept \subseteq DOMAIN disk
  BY DEF Keeps, IsVolume, IsDisk, DiskKeeps
<1>2. h.type # "kString" /\ h.type # "kEmptyComplex"
  BY DEF SimpleTypes
<1>3. o \notin kept => IsClearHeader(disk, kept, o, h)
  BY <1>2 DEF IsClearHeader, Span
<1>4. /\ w.disk = e /\ w.bins = v.bins /\ w.end = v.end
      /\ w.last = v.last /\ w.cluster = v.cluster
      /\ w = [disk |-> w.disk, bins |-> w.bins, end |-> w.end, last |-> w.last,
              cluster |-> w.cluster]
  BY <1>1 DEF IsVolume
<1>5. IsDisk(e) /\ DiskKeeps(e, kept) /\ e[o] = h /\ SameKept(disk, e, others)
  <2>1. /\ others = kept \ {o} /\ IsClear(disk, others, o, Extent(h))
        /\ o \in kept => h.type \in SimpleTypes /\ Extent(h) = Extent(disk[o])
    OBVIOUS
  <2> HIDE DEF disk, others, w
  <2>2. IsDisk(e)
    BY <1>1, <1>2, <1>3, <2>1, KeptWrite
  <2>3. DiskKeeps(e, kept)
    BY <1>1, <1>2, <1>3, <2>1, KeptWrite
  <2>4. e[o] = h
    BY DEF Write
  <2>5. SameKept(disk, e, others)
    BY <1>1, <1>2, <1>3, <2>1, KeptWrite
  <2> QED BY <2>2, <2>3, <2>4, <2>5
<1> HIDE DEF w, e
<1>6. \A d \in kept : Extent(w.disk[d]) = Extent(v.disk[d])
  BY <1>4, <1>5 DEF SameKept
<1>7. IsVolume(w)
  BY <1>1, <1>4, <1>5 DEF IsVolume, IsDisk
<1>8. ListsKeep(w, kept)
  BY <1>1, <1>4, <1>6, ListsOfFewer
<1> QED BY <1>4, <1>5, <1>7, <1>8 DEF Keeps, w

\* Creating an entry keeps what is kept.
LEMMA CreateKeeps ==
  ASSUME NEW v, NEW kept, Keeps(v, kept),
         NEW value \in Values, value.type \in SimpleTypes,
         NEW size, size = SimpleHeaderSize(value.type),
         NEW p, Keeps(p, kept), SameKept(v.disk, p.disk, kept),
         NEW o, o = PopFreeEntryOffset(p.bins, size), o # None, NEW junk \in Nat
  PROVE  LET free == FreeEntry(p, size, junk)
             w == [free EXCEPT !.disk = Write(free.disk, o,
                                          SimpleHeader(value, RoomAt(free.disk, o)))]
         IN  Keeps(w, kept) /\ SameKept(v.disk, w.disk, kept)
<1> DEFINE free == FreeEntry(p, size, junk)
           room == RoomAt(free.disk, o)
           h == SimpleHeader(value, room)
           w == [free EXCEPT !.disk = Write(free.disk, o, h)]
<1>1. size \in {Simple4Size, Simple8Size}
  BY DEF SimpleHeaderSize
<1>2. /\ Keeps(free, kept) /\ SameKept(p.disk, free.disk, kept)
      /\ o \in Nat \ {0} /\ o \notin kept /\ IsClear(free.disk, kept, o, size)
  BY <1>1, FreeEntryKeeps
<1> HIDE DEF free
<1>3. room \in Nat
  BY <1>2, Sizes DEF RoomAt, HeaderAt, Keeps, IsVolume, Header, Overwritten, FreeHeader
<1> HIDE DEF room
<1>4. h \in Header /\ h.type = value.type /\ Extent(h) = size
  BY <1>3, SimpleHeaderType
<1> HIDE DEF h
<1>5. IsClear(free.disk, kept \ {o}, o, Extent(h))
  BY <1>2, <1>4 DEF IsClear
<1>6. h.type \notin FreeTypes
  BY <1>4 DEF SimpleTypes, FreeTypes
<1>7. Keeps(w, kept) /\ SameKept(free.disk, w.disk, kept \ {o})
  <2>1. h.type \in SimpleTypes \cup {"kEmpty4Simple", "kEmpty8Simple"}
    BY <1>4
  <2> QED BY <1>2, <1>4, <1>5, <1>6, <2>1, WriteKeepsVolume
<1> HIDE DEF w
<1>8. SameKept(v.disk, w.disk, kept)
  <2>1. kept \ {o} = kept
    BY <1>2
  <2> QED BY <1>2, <1>7, <2>1 DEF SameKept
<1> QED BY <1>7, <1>8 DEF w, h, room, free

\* Deleting an entry keeps the others.
LEMMA DeleteKeeps ==
  ASSUME NEW v, NEW kept, Keeps(v, kept), NEW o \in DOMAIN v.disk \ kept,
         v.disk[o].type \in SimpleTypes
  PROVE  Keeps(DeleteSimple(v, o), kept) /\ SameKept(v.disk, DeleteSimple(v, o).disk, kept)
<1> DEFINE h == v.disk[o]
           size == SimpleHeaderSize(h.type)
           type == IF size = Simple4Size THEN "kEmpty4Simple" ELSE "kEmpty8Simple"
           c == BinIdForSize(size)
           next == GetFreeEntry(v.bins, size)
           freed == FreeHeader(type, 0, next, h.room)
           u == [v EXCEPT !.disk = Write(v.disk, o, freed)]
           w == DeleteSimple(v, o)
<1>1. /\ IsVolume(v) /\ IsDisk(v.disk) /\ DiskKeeps(v.disk, kept) /\ ListsKeep(v, kept)
      /\ kept \subseteq DOMAIN v.disk
  BY DEF Keeps, IsVolume, IsDisk, DiskKeeps
<1>2. h \in Header /\ o \in Nat \ {0} /\ h.room \in Nat
  BY <1>1 DEF IsDisk, Header
<1>3. Extent(h) = size /\ size \in {Simple4Size, Simple8Size}
  BY <1>2, ExtentType DEF SimpleHeaderSize, SimpleTypes
<1>4. /\ c \in Bins /\ next = v.bins[c] /\ next \in Nat
      /\ size = Simple8Size => c > 0 /\ type = "kEmpty8Simple"
      /\ size = Simple4Size => c = 0 /\ type = "kEmpty4Simple"
  BY <1>1, <1>3, BinIdType, BinIdPositive, GetFreeEntryBin, Sizes DEF IsVolume
<1>5. type \in {"kEmpty4Simple", "kEmpty8Simple"} /\ type \in FreeTypes
  BY DEF FreeTypes
<1>6. IsClear(v.disk, kept, o, size)
  <2>1. IsClearHeader(v.disk, kept, o, h)
    BY <1>1 DEF DiskKeeps
  <2> QED BY <1>3, <2>1 DEF IsClearHeader, Span, SimpleTypes
<1>7. w = [u EXCEPT !.bins = [u.bins EXCEPT ![c] = o]]
  BY <1>1 DEF DeleteSimple, PushFreeEntry, IsVolume
<1> HIDE DEF type, w, c, next
<1>8. freed \in Header /\ freed.type = type /\ freed.next = next
  <2> DEFINE room == h.room
  <2>1. 0 \in Nat /\ next \in Nat /\ room \in Nat /\ type \in FreeTypes
    BY <1>2, <1>4, <1>5
  <2> HIDE DEF room
  <2>2. /\ FreeHeader(type, 0, next, room) \in Header
        /\ FreeHeader(type, 0, next, room).type = type
        /\ FreeHeader(type, 0, next, room).next = next
    BY <2>1, FreeHeaderType
  <2> QED BY <2>2 DEF room
<1> HIDE DEF freed
<1>9. Extent(freed) = size
  BY <1>3, <1>4, <1>8, ExtentType, Sizes
<1>10. next # None => IsClear(v.disk, kept, next, LinkSize(type))
  <2> SUFFICES ASSUME next # None PROVE IsClear(v.disk, kept, next, LinkSize(type))
    OBVIOUS
  <2>1. IsClear(v.disk, kept, next, BinSize(c))
    BY <1>1, <1>4 DEF ListsKeep
  <2>2. LinkSize(type) = BinSize(c)
    BY <1>3, <1>4, Sizes DEF LinkSize, BinSize
  <2> QED BY <2>1, <2>2
<1> HIDE DEF u
<1>11. Keeps(u, kept) /\ SameKept(v.disk, u.disk, kept)
  <2>1. kept \ {o} = kept
    OBVIOUS
  <2>2. IsClear(v.disk, kept \ {o}, o, Extent(freed))
    BY <1>6, <1>9, <2>1
  <2>3. /\ freed.type \in SimpleTypes \cup {"kEmpty4Simple", "kEmpty8Simple"}
        /\ freed.type \in FreeTypes /\ freed.next # None =>
             IsClear(v.disk, kept, freed.next, LinkSize(freed.type))
    BY <1>5, <1>8, <1>10
  <2>4. u = [v EXCEPT !.disk = Write(v.disk, o, freed)]
    BY DEF u
  <2>5. Keeps(u, kept) /\ SameKept(v.disk, u.disk, kept \ {o})
    BY <1>2, <1>8, <2>2, <2>3, <2>4, WriteKeepsVolume
  <2> QED BY <2>1, <2>5
<1>12. Keeps(w, kept) /\ w.disk = u.disk
  <2>1. IsClear(u.disk, kept, o, size)
    BY <1>6, <1>11 DEF SameKept, IsClear
  <2>2. BinSize(c) <= size /\ size \in Nat /\ o \in Nat
    BY <1>2, <1>3, <1>4, Sizes DEF BinSize
  <2> HIDE DEF size
  <2> QED BY <1>4, <1>7, <1>11, <2>1, <2>2, PushKeeps
<1> QED BY <1>11, <1>12 DEF w

\* Setting the expiry date of an entry, kept or not, keeps all of them where they are.
LEMMA ExpireKeeps ==
  ASSUME NEW v, NEW kept, Keeps(v, kept), NEW o \in DOMAIN v.disk,
         v.disk[o].type \in SimpleTypes, NEW time \in Nat,
         NEW others, others = kept \ {o}
  PROVE  LET h == ExpiredHeader(v.disk[o], time)
             w == [v EXCEPT !.disk = Write(v.disk, o, h)]
         IN  /\ Keeps(w, kept) /\ SameKept(v.disk, w.disk, others) /\ w.disk[o] = h
             /\ Extent(h) = Extent(v.disk[o]) /\ Content(h).value = Content(v.disk[o]).value
             /\ Content(h).expires = time
<1> DEFINE old == v.disk[o]
           h == ExpiredHeader(old, time)
           w == [v EXCEPT !.disk = Write(v.disk, o, h)]
<1>1. /\ IsDisk(v.disk) /\ DiskKeeps(v.disk, kept) /\ kept \subseteq DOMAIN v.disk
  BY DEF Keeps, IsVolume, IsDisk, DiskKeeps
<1>2. old \in Header /\ o \in Nat \ {0}
  BY <1>1 DEF IsDisk
<1>3. /\ h \in Header /\ h.type = old.type /\ h.data = old.data
      /\ h.state = {"kIsExpired"} /\ h.expires = time /\ Extent(h) = Extent(old)
  BY <1>2, ExpiredHeaderType
<1> HIDE DEF h
<1>4. IsClear(v.disk, kept \ {o}, o, Extent(old))
  <2>1. CASE o \in kept
    BY <1>1, <2>1 DEF DiskKeeps
  <2>2. CASE o \notin kept
    <3>1. IsClearHeader(v.disk, kept, o, old)
      BY <1>1, <2>2 DEF DiskKeeps
    <3> QED BY <3>1 DEF IsClearHeader, IsClear, Span, SimpleTypes
  <2> QED BY <2>1, <2>2
<1>5. h.type \in SimpleTypes /\ h.type \notin FreeTypes
  BY <1>3 DEF SimpleTypes, FreeTypes
<1>6. Keeps(w, kept) /\ SameKept(v.disk, w.disk, kept \ {o}) /\ w.disk[o] = h
  <2>1. /\ IsClear(v.disk, kept \ {o}, o, Extent(h))
        /\ h.type \in SimpleTypes \cup {"kEmpty4Simple", "kEmpty8Simple"}
        /\ o \in kept => h.type \in SimpleTypes /\ Extent(h) = Extent(v.disk[o])
    BY <1>3, <1>4, <1>5
  <2> QED BY <1>2, <1>3, <1>5, <2>1, WriteKeepsVolume
<1>7. Content(h).value = Content(old).value /\ Content(h).expires = time
  BY <1>3 DEF Content
<1> QED BY <1>3, <1>6, <1>7 DEF h
\* The session to come finds on another device what it would have found on this one,
\* if as much is kept there or less.
LEMMA LoadedKeeps ==
  ASSUME NEW v, NEW w, NEW start, NEW kept, Keeps(Loaded(v, start), kept),
         NEW fewer, fewer \subseteq kept, IsDisk(w.disk), DiskKeeps(w.disk, fewer),
         \A d \in fewer : Extent(w.disk[d]) = Extent(v.disk[d])
  PROVE  Keeps(Loaded(w, start), fewer)
<1> DEFINE x == Loaded(v, start)
           y == Loaded(w, start)
<1>1. /\ x.disk = v.disk /\ y.disk = w.disk /\ y.bins = x.bins /\ y.end = x.end
      /\ y.last = x.last /\ y.cluster = x.cluster
      /\ y = [disk |-> y.disk, bins |-> y.bins, end |-> y.end, last |-> y.last,
              cluster |-> y.cluster]
  BY DEF Loaded
<1>2. IsVolume(x) /\ ListsKeep(x, kept)
  BY DEF Keeps
<1> HIDE DEF x, y
<1>3. IsVolume(y)
  BY <1>1, <1>2 DEF IsVolume, IsDisk
<1>4. ListsKeep(y, fewer)
  BY <1>1, <1>2, ListsOfFewer
<1> QED BY <1>1, <1>3, <1>4 DEF Keeps, y

\* The headers of the current volume are those of the device, open or not.
LEMMA CurrentIsDevice ==
  Current.disk = vol.disk /\ (opened => Current = vol) /\ (~opened => Current = Loaded(vol, saved))
BY DEF Current, Loaded

\* A step keeps the invariant if the volume keeps what is still to be kept, as it was.
LEMMA CrashStep ==
  ASSUME CrashInv, UNCHANGED <<saved, writing>>, crashes' \in Nat, opened' \in BOOLEAN,
         crashes' = 0 => FixedSizeInv',
         Keeps(Current', DOMAIN durable'), DOMAIN durable' \subseteq DOMAIN durable,
         \A d \in DOMAIN durable' : /\ Extent(vol'.disk[d]) = Extent(vol.disk[d])
                                    /\ durable'[d] = Content(vol'.disk[d])
                                    /\ durable'[d].value \in Values
  PROVE  CrashInv'
<1>1. Current'.disk = vol'.disk
  BY DEF Current, Loaded
<1>2. IsDisk(vol'.disk) /\ DiskKeeps(vol'.disk, DOMAIN durable')
  BY <1>1 DEF Keeps, IsVolume, IsDisk
<1>3. Keeps(Loaded(vol, saved), DOMAIN durable)
  BY DEF CrashInv
<1>4. Keeps(Loaded(vol', saved), DOMAIN durable')
  <2> DEFINE kept == DOMAIN durable
             fewer == DOMAIN durable'
             v == vol
             w == vol'
  <2>1. /\ Keeps(Loaded(v, saved), kept) /\ fewer \subseteq kept
        /\ IsDisk(w.disk) /\ DiskKeeps(w.disk, fewer)
        /\ \A d \in fewer : Extent(w.disk[d]) = Extent(v.disk[d])
    BY <1>2, <1>3
  <2> HIDE DEF kept, fewer, v, w
  <2>2. Keeps(Loaded(w, saved), fewer)
    BY <2>1, LoadedKeeps
  <2> QED BY <2>2 DEF w, fewer
<1>5. Loaded(vol', saved') = Loaded(vol', saved)
  OBVIOUS
<1>6. Keeps(Loaded(vol', saved'), DOMAIN durable')
  BY <1>4, <1>5
<1> QED BY <1>6 DEF CrashInv

\* ... in particular if it leaves everything that is kept alone.
LEMMA CrashSameStep ==
  ASSUME CrashInv, UNCHANGED <<saved, writing, durable>>, crashes' \in Nat,
         opened' \in BOOLEAN, crashes' = 0 => FixedSizeInv',
         Keeps(Current', DOMAIN durable),
         SameKept(vol.disk, vol'.disk, DOMAIN durable)
  PROVE  CrashInv'
<1>1. \A d \in DOMAIN durable : /\ vol'.disk[d] = vol.disk[d] /\ durable'[d] = durable[d]
                                /\ durable[d] = Content(vol.disk[d])
                                /\ durable[d].value \in Values
  BY DEF CrashInv, SameKept
<1>2. DOMAIN durable' = DOMAIN durable
  OBVIOUS
<1>3. Keeps(Current', DOMAIN durable')
  BY <1>2
<1>4. \A d \in DOMAIN durable' : /\ Extent(vol'.disk[d]) = Extent(vol.disk[d])
                                 /\ durable'[d] = Content(vol'.disk[d])
                                 /\ durable'[d].value \in Values
  BY <1>1, <1>2
<1> QED BY <1>2, <1>3, <1>4, CrashStep

\* A new volume has saved nothing.
LEMMA CrashInit ==
  ASSUME FixedSize, Init
  PROVE  CrashInv
<1>1. FixedSizeInv /\ opened = TRUE
  BY InitInv DEF Init
<1>2. Sound(vol, {}) /\ IsVolume(vol)
  BY <1>1, OpenInv
<1>3. DOMAIN durable = {} /\ DOMAIN vol.disk = {}
  BY DEF Init, NewVolume
<1>4. Keeps(vol, InUse(vol.disk)) /\ InUse(vol.disk) = {}
  BY <1>2, <1>3, SoundKeeps DEF InUse
<1>5. Current = vol
  BY <1>1 DEF Current
<1>6. saved = [bins |-> vol.bins, end |-> vol.end, index |-> None, names |-> {}]
  BY DEF Init, NewVolume
<1>7. Keeps(Loaded(vol, saved), {})
  <2> DEFINE w == Loaded(vol, saved)
  <2>1. /\ w.disk = vol.disk /\ w.bins = vol.bins /\ w.end = vol.end
        /\ w.last = InitialLast(kDefaultClusterSize) /\ w.cluster = kDefaultClusterSize
        /\ w = [disk |-> w.disk, bins |-> w.bins, end |-> w.end, last |-> w.last,
                cluster |-> w.cluster]
    BY <1>6 DEF Loaded
  <2>2. w.last \in Nat /\ w.last >= Milli
    BY <2>1, Sizes, InitialLastType
  <2> HIDE DEF w
  <2>3. IsVolume(w)
    BY <1>2, <2>1, <2>2 DEF IsVolume
  <2>4. ListsKeep(w, {})
    BY DEF ListsKeep, IsClear
  <2>5. DiskKeeps(w.disk, {})
    BY <1>4, <2>1 DEF Keeps
  <2>6. Keeps(w, {})
    BY <2>3, <2>4, <2>5 DEF Keeps
  <2> QED BY <2>6 DEF w
<1>8. crashes = 0 /\ writing = Idle
  BY DEF Init
<1> QED BY <1>1, <1>3, <1>4, <1>5, <1>7, <1>8 DEF CrashInv

\* In an open session the invariant speaks of the volume itself.
LEMMA CrashOpen ==
  ASSUME CrashInv, opened
  PROVE  /\ opened = TRUE /\ Current = vol /\ Keeps(vol, DOMAIN durable)
         /\ IsDisk(vol.disk) /\ DOMAIN durable \subseteq DOMAIN vol.disk
         /\ \A o : HeaderAt(vol.disk, o).type \in UserTypes =>
              /\ o \in DOMAIN vol.disk /\ HeaderAt(vol.disk, o) = vol.disk[o]
              /\ vol.disk[o].type \in SimpleTypes
<1>1. opened = TRUE /\ Current = vol
  BY DEF CrashInv, Current
<1>2. Keeps(vol, DOMAIN durable)
  BY <1>1 DEF CrashInv
<1>3. IsDisk(vol.disk) /\ DiskKeeps(vol.disk, DOMAIN durable)
  BY <1>2 DEF Keeps, IsVolume, IsDisk
<1>4. ASSUME NEW o, HeaderAt(vol.disk, o).type \in UserTypes
      PROVE  /\ o \in DOMAIN vol.disk /\ HeaderAt(vol.disk, o) = vol.disk[o]
             /\ vol.disk[o].type \in SimpleTypes
  <2>1. o \in DOMAIN vol.disk /\ HeaderAt(vol.disk, o) = vol.disk[o]
    BY <1>4 DEF HeaderAt, Overwritten, FreeHeader, UserTypes, SimpleTypes
  <2> QED BY <1>3, <1>4, <2>1 DEF DiskKeeps, UserTypes
<1> QED BY <1>1, <1>2, <1>3, <1>4 DEF DiskKeeps

\* Creating an entry keeps the invariant.
LEMMA CrashCreate ==
  ASSUME FixedSize, CrashInv, NEW value \in Values, CreateSimple(value),
         crashes' = 0 => FixedSizeInv'
  PROVE  CrashInv'
<1> DEFINE size == SimpleHeaderSize(value.type)
           p == Provided(vol, size)
           o == PopFreeEntryOffset(p.bins, size)
           kept == DOMAIN durable
<1>1. /\ opened /\ value.type \in SimpleTypes
      /\ UNCHANGED <<opened, writing, saved, durable, crashes>>
  BY DEF CreateSimple, Running
<1>2. opened = TRUE /\ opened' = TRUE /\ Keeps(vol, kept)
  BY <1>1, CrashOpen
<1>3. size \in {Simple4Size, Simple8Size}
  BY DEF SimpleHeaderSize
<1>4. Keeps(p, kept) /\ SameKept(vol.disk, p.disk, kept)
  <2> HIDE DEF kept, size
  <2> QED BY <1>2, <1>3, ProvidedKeeps
<1>5. Keeps(vol', kept) /\ SameKept(vol.disk, vol'.disk, kept)
  <2>1. CASE o = None
    <3>1. vol' = p
      BY <2>1 DEF CreateSimple
    <3> HIDE DEF p, kept
    <3> QED BY <1>4, <3>1
  <2>2. CASE o # None
    <3>1. PICK junk \in Junk :
            LET free == FreeEntry(p, size, junk)
            IN  vol' = [free EXCEPT !.disk = Write(free.disk, o,
                           SimpleHeader(value, RoomAt(free.disk, o)))]
      BY <2>2 DEF CreateSimple
    <3>2. junk \in Nat
      BY EntriesAssumption DEF EntriesAssumption
    <3> DEFINE v == vol
    <3>3. Keeps(v, kept) /\ SameKept(v.disk, p.disk, kept) /\ o = PopFreeEntryOffset(p.bins, size)
      BY <1>2, <1>4
    <3>4. size = SimpleHeaderSize(value.type)
      OBVIOUS
    <3> HIDE DEF p, kept, size, o, v
    <3>5. Keeps(vol', kept) /\ SameKept(v.disk, vol'.disk, kept)
      BY <1>1, <1>4, <2>2, <3>1, <3>2, <3>3, <3>4, CreateKeeps
    <3> QED BY <3>5 DEF v
  <2> QED BY <2>1, <2>2
<1>6. Current' = vol'
  BY <1>2 DEF Current
<1>7. crashes' \in Nat
  BY <1>1 DEF CrashInv
<1> HIDE DEF p, size, o
<1> QED BY <1>1, <1>2, <1>5, <1>6, <1>7, CrashSameStep

\* Deleting an entry keeps the invariant: it is not to be kept any longer.
LEMMA CrashDelete ==
  ASSUME FixedSize, CrashInv, NEW o, DeleteEntry(o), crashes' = 0 => FixedSizeInv'
  PROVE  CrashInv'
<1> DEFINE kept == DOMAIN durable \ {o}
<1>1. /\ opened /\ HeaderAt(vol.disk, o).type \in UserTypes
      /\ durable' = Without(durable, o)
      /\ UNCHANGED <<opened, writing, saved, crashes>>
  BY DEF DeleteEntry, Running
<1>2. /\ opened' = TRUE /\ Keeps(vol, DOMAIN durable)
      /\ o \in DOMAIN vol.disk /\ HeaderAt(vol.disk, o) = vol.disk[o]
      /\ vol.disk[o].type \in SimpleTypes
  BY <1>1, CrashOpen
<1>3. vol' = DeleteSimple(vol, o)
  BY <1>2 DEF DeleteEntry, SimpleTypes
<1>4. DOMAIN durable' = kept /\ \A d \in kept : durable'[d] = durable[d]
  BY <1>1 DEF Without
<1>5. Keeps(vol, kept)
  <2> DEFINE all == DOMAIN durable
             v == vol
  <2>1. Keeps(v, all) /\ kept \subseteq all
    BY <1>2
  <2> HIDE DEF v, all, kept
  <2>2. Keeps(v, kept)
    BY <2>1, KeepsFewer
  <2> QED BY <2>2 DEF v
<1>6. Keeps(vol', kept) /\ SameKept(vol.disk, vol'.disk, kept)
  <2> DEFINE v == vol
  <2>1. Keeps(v, kept) /\ o \in DOMAIN v.disk \ kept /\ v.disk[o].type \in SimpleTypes
    BY <1>2, <1>5
  <2> HIDE DEF v, kept
  <2>2. Keeps(DeleteSimple(v, o), kept) /\ SameKept(v.disk, DeleteSimple(v, o).disk, kept)
    BY <2>1, DeleteKeeps
  <2> QED BY <1>3, <2>2 DEF v
<1>7. Keeps(Current', DOMAIN durable')
  BY <1>2, <1>4, <1>6 DEF Current
<1>8. \A d \in DOMAIN durable' : /\ Extent(vol'.disk[d]) = Extent(vol.disk[d])
                                 /\ durable'[d] = Content(vol'.disk[d])
                                 /\ durable'[d].value \in Values
  BY <1>4, <1>6 DEF CrashInv, SameKept
<1>9. crashes' \in Nat /\ opened' \in BOOLEAN /\ DOMAIN durable' \subseteq DOMAIN durable
  BY <1>1, <1>2, <1>4 DEF CrashInv
<1> HIDE DEF kept
<1> QED BY <1>1, <1>7, <1>8, <1>9, CrashStep

\* Setting an expiry date keeps the invariant: a kept entry is written where it is.
LEMMA CrashExpire ==
  ASSUME FixedSize, CrashInv, NEW o, NEW time \in Times, SetEntryExpiredDate(o, time),
         crashes' = 0 => FixedSizeInv'
  PROVE  CrashInv'
<1> DEFINE kept == DOMAIN durable
           h == ExpiredHeader(vol.disk[o], time)
<1>1. /\ opened /\ HeaderAt(vol.disk, o).type \in UserTypes
      /\ durable' = IF o \in DOMAIN durable THEN [durable EXCEPT ![o].expires = time]
                    ELSE durable
      /\ UNCHANGED <<opened, writing, saved, crashes>>
  BY DEF SetEntryExpiredDate, Running
<1>2. /\ opened' = TRUE /\ Keeps(vol, kept)
      /\ o \in DOMAIN vol.disk /\ HeaderAt(vol.disk, o) = vol.disk[o]
      /\ vol.disk[o].type \in SimpleTypes
  BY <1>1, CrashOpen
<1>3. vol' = [vol EXCEPT !.disk = Write(vol.disk, o, h)]
  BY <1>2 DEF SetEntryExpiredDate
<1>4. time \in Nat
  BY LayoutAssumption DEF LayoutAssumption
<1>5. /\ Keeps(vol', kept) /\ SameKept(vol.disk, vol'.disk, kept \ {o}) /\ vol'.disk[o] = h
      /\ Extent(h) = Extent(vol.disk[o]) /\ Content(h).value = Content(vol.disk[o]).value
      /\ Content(h).expires = time
  <2> DEFINE v == vol
             w == [v EXCEPT !.disk = Write(v.disk, o, ExpiredHeader(v.disk[o], time))]
             others == kept \ {o}
  <2>1. Keeps(v, kept) /\ o \in DOMAIN v.disk /\ v.disk[o].type \in SimpleTypes /\ vol' = w
        /\ others = kept \ {o}
    BY <1>2, <1>3
  <2> HIDE DEF v, kept, others
  <2>2. /\ Keeps(w, kept) /\ SameKept(v.disk, w.disk, others)
        /\ w.disk[o] = ExpiredHeader(v.disk[o], time)
        /\ Extent(ExpiredHeader(v.disk[o], time)) = Extent(v.disk[o])
        /\ Content(ExpiredHeader(v.disk[o], time)).value = Content(v.disk[o]).value
        /\ Content(ExpiredHeader(v.disk[o], time)).expires = time
    BY <1>4, <2>1, ExpireKeeps
  <2> HIDE DEF w
  <2> QED BY <2>1, <2>2 DEF v, others
<1> HIDE DEF h
<1>6. DOMAIN durable' = kept /\ \A d \in kept \ {o} : durable'[d] = durable[d]
  BY <1>1
<1>7. \A d \in kept : /\ durable[d] = Content(vol.disk[d]) /\ durable[d].value \in Values
  BY DEF CrashInv
<1>8. o \in kept => durable'[o] = Content(h) /\ durable'[o].value \in Values
  <2> SUFFICES ASSUME o \in kept
               PROVE  durable'[o] = Content(h) /\ durable'[o].value \in Values
    OBVIOUS
  <2>1. durable'[o] = [durable[o] EXCEPT !.expires = time]
    BY <1>1
  <2>2. durable[o] = [value |-> Content(h).value, expires |-> Content(vol.disk[o]).expires]
    BY <1>5, <1>7 DEF Content
  <2>3. Content(h) = [value |-> Content(h).value, expires |-> time]
    BY <1>5 DEF Content
  <2>4. durable'[o] = [value |-> Content(h).value, expires |-> time]
    BY <2>1, <2>2
  <2>5. Content(h).value \in Values
    BY <1>5, <1>7
  <2> QED BY <2>3, <2>4, <2>5
<1>9. \A d \in DOMAIN durable' : /\ Extent(vol'.disk[d]) = Extent(vol.disk[d])
                                 /\ durable'[d] = Content(vol'.disk[d])
                                 /\ durable'[d].value \in Values
  BY <1>5, <1>6, <1>7, <1>8 DEF SameKept
<1>10. Keeps(Current', DOMAIN durable')
  BY <1>2, <1>5, <1>6 DEF Current
<1>11. crashes' \in Nat /\ opened' \in BOOLEAN /\ DOMAIN durable' \subseteq DOMAIN durable
  BY <1>1, <1>2, <1>6 DEF CrashInv
<1> HIDE DEF kept
<1> QED BY <1>1, <1>9, <1>10, <1>11, CrashStep
\* Saving before any crash makes all that is held what is kept; after one, what was kept
\* stays so.
LEMMA CrashSave ==
  ASSUME FixedSize, CrashInv, NEW index \in DOMAIN held \cup {None}, SaveStartEntries(index),
         crashes' = 0 => FixedSizeInv'
  PROVE  CrashInv'
<1>1. /\ opened /\ opened' = FALSE
      /\ saved' = [bins |-> vol.bins, end |-> vol.end, index |-> index, names |-> DOMAIN held]
      /\ vol' = [vol EXCEPT !.end = FirstOffset]
      /\ UNCHANGED <<writing, held, crashes>>
      /\ durable' = IF crashes = 0 THEN held ELSE durable
  BY DEF SaveStartEntries, Running
<1>2. Keeps(vol, DOMAIN durable) /\ IsVolume(vol)
  BY <1>1, CrashOpen DEF Keeps
<1>3. vol'.disk = vol.disk
  BY <1>1, <1>2 DEF IsVolume
<1>4. Current' = Loaded(vol', saved')
  BY <1>1 DEF Current
<1>5. /\ crashes' = 0 => FixedSizeInv'
      /\ crashes' \in Nat /\ opened' \in BOOLEAN /\ writing' = Idle
  BY <1>1 DEF CrashInv
<1>6. CASE crashes = 0
  <2>1. FixedSizeInv /\ FixedSizeInv' /\ durable' = held
    BY <1>1, <1>6 DEF CrashInv
  <2>2. Sound(Current', {})
    BY <2>1 DEF FixedSizeInv
  <2>3. Current'.disk = vol.disk
    BY <1>3, <1>4 DEF Loaded
  <2>4. Keeps(Current', InUse(vol.disk))
    <3> DEFINE v == Current'
    <3>1. Sound(v, {}) /\ v.disk = vol.disk
      BY <2>2, <2>3
    <3> HIDE DEF v
    <3>2. Keeps(v, InUse(v.disk))
      BY <3>1, SoundKeeps
    <3>3. Keeps(v, InUse(vol.disk))
      BY <3>1, <3>2
    <3> QED BY <3>3 DEF v
  <2>5. /\ DOMAIN held = InUse(vol.disk)
        /\ \A d \in DOMAIN held : held[d] = Content(vol.disk[d]) /\ held[d].value \in Values
    BY <2>1 DEF FixedSizeInv, HeldOnDevice, Content
  <2>6. Keeps(Current', DOMAIN durable')
    BY <2>1, <2>4, <2>5
  <2>7. \A d \in DOMAIN durable' : /\ durable'[d] = Content(vol'.disk[d])
                                   /\ durable'[d].value \in Values
    BY <1>3, <2>1, <2>5
  <2> QED BY <1>4, <1>5, <2>6, <2>7 DEF CrashInv
<1>7. CASE crashes # 0
  <2>1. durable' = durable
    BY <1>1, <1>7
  <2> DEFINE w == Loaded(vol', saved')
             kept == DOMAIN durable
  <2>2. /\ w.disk = vol.disk /\ w.bins = vol.bins /\ w.end = vol.end
        /\ w.last = InitialLast(kDefaultClusterSize) /\ w.cluster = kDefaultClusterSize
        /\ w = [disk |-> w.disk, bins |-> w.bins, end |-> w.end, last |-> w.last,
                cluster |-> w.cluster]
    BY <1>1, <1>3 DEF Loaded
  <2>3. w.last \in Nat /\ w.last >= Milli
    BY <2>2, Sizes, InitialLastType
  <2>4. Keeps(vol, kept)
    BY <1>2
  <2>5. w = Current'
    BY <1>4
  <2>6. \A d \in DOMAIN durable' : /\ durable'[d] = Content(vol'.disk[d])
                                   /\ durable'[d].value \in Values
    BY <1>3, <2>1 DEF CrashInv
  <2>7. DOMAIN durable' = kept
    BY <2>1
  <2> HIDE DEF w, kept
  <2>8. IsVolume(w)
    BY <1>2, <2>2, <2>3 DEF IsVolume
  <2>9. DiskKeeps(w.disk, kept) /\ ListsKeep(w, kept)
    BY <2>2, <2>4 DEF Keeps, ListsKeep, IsClear
  <2>10. Keeps(w, kept)
    BY <2>8, <2>9 DEF Keeps
  <2>11. Keeps(Current', DOMAIN durable') /\ Keeps(Loaded(vol', saved'), DOMAIN durable')
    BY <1>4, <2>5, <2>7, <2>10
  <2> QED BY <1>5, <1>7, <1>1, <2>6, <2>11 DEF CrashInv
<1> QED BY <1>6, <1>7

\* Loading opens the session that the invariant already speaks of.
LEMMA CrashLoad ==
  ASSUME FixedSize, CrashInv, LoadStartEntries, crashes' = 0 => FixedSizeInv'
  PROVE  CrashInv'
<1>1. /\ opened = FALSE /\ opened' = TRUE /\ vol' = Loaded(vol, saved)
      /\ UNCHANGED <<writing, saved, held, durable, crashes>>
  BY DEF LoadStartEntries, CrashInv
<1>2. vol'.disk = vol.disk
  BY <1>1 DEF Loaded
<1>3. Current' = Current
  BY <1>1 DEF Current
<1>4. Keeps(Current', DOMAIN durable) /\ crashes' \in Nat
  BY <1>1, <1>3 DEF CrashInv
<1>5. SameKept(vol.disk, vol'.disk, DOMAIN durable)
  <2>1. Current.disk = vol.disk
    BY DEF Current, Loaded
  <2> QED BY <1>2, <2>1 DEF SameKept, CrashInv, Keeps, DiskKeeps
<1> QED BY <1>1, <1>4, <1>5, CrashSameStep

\* A crash keeps the invariant if what the call had written by then keeps the device.
LEMMA CrashStop ==
  ASSUME CrashInv, NEW disk, Stop(disk), IsDisk(disk), DiskKeeps(disk, DOMAIN durable),
         SameKept(vol.disk, disk, DOMAIN durable)
  PROVE  CrashInv'
<1>1. /\ opened /\ opened' = FALSE /\ writing' = Idle /\ crashes' = crashes + 1
      /\ vol' = [vol EXCEPT !.disk = disk]
      /\ UNCHANGED <<saved, durable>>
  BY DEF Stop
<1>2. vol'.disk = disk
  <2>1. Keeps(vol, DOMAIN durable)
    BY <1>1, CrashOpen
  <2> QED BY <1>1, <2>1 DEF Keeps, IsVolume
<1>3. crashes' \in Nat /\ crashes' # 0
  BY <1>1 DEF CrashInv
<1>4. \A d \in DOMAIN durable : vol'.disk[d] = vol.disk[d]
  BY <1>2 DEF SameKept
<1>5. Keeps(Loaded(vol', saved), DOMAIN durable)
  <2> DEFINE kept == DOMAIN durable
             v == vol
             w == vol'
  <2>1. /\ Keeps(Loaded(v, saved), kept) /\ kept \subseteq kept
        /\ IsDisk(w.disk) /\ DiskKeeps(w.disk, kept)
        /\ \A d \in kept : Extent(w.disk[d]) = Extent(v.disk[d])
    BY <1>2, <1>4 DEF CrashInv
  <2> HIDE DEF kept, v, w
  <2>2. Keeps(Loaded(w, saved), kept)
    BY <2>1, LoadedKeeps
  <2> QED BY <2>2 DEF w, kept
<1>6. Keeps(Loaded(vol', saved'), DOMAIN durable')
  BY <1>1, <1>5
<1>7. Current' = Loaded(vol', saved')
  BY <1>1 DEF Current
<1>8. \A d \in DOMAIN durable' : /\ durable'[d] = Content(vol'.disk[d])
                                 /\ durable'[d].value \in Values
  BY <1>1, <1>4 DEF CrashInv
<1> QED BY <1>1, <1>3, <1>6, <1>7, <1>8 DEF CrashInv

\* A crash before a call or in the middle of getFreeEntryOffset keeps the invariant.
LEMMA CrashCrash ==
  ASSUME FixedSize, CrashInv, Crash
  PROVE  CrashInv'
<1> DEFINE kept == DOMAIN durable
<1>1. CASE CrashBetweenCalls
  <2>1. Stop(vol.disk) /\ opened
    BY <1>1 DEF CrashBetweenCalls, Stop
  <2>2. Keeps(vol, kept)
    BY <2>1, CrashOpen
  <2> DEFINE disk == vol.disk
  <2>3. Stop(disk) /\ IsDisk(disk) /\ DiskKeeps(disk, kept) /\ SameKept(vol.disk, disk, kept)
    BY <2>1, <2>2 DEF Keeps, IsVolume, IsDisk, SameKept, DiskKeeps
  <2> HIDE DEF disk
  <2> QED BY <2>3, CrashStop
<1>2. CASE CrashInFreeEntry
  <2>1. PICK value \in Values :
          LET size == IF value.type \in SimpleTypes THEN SimpleHeaderSize(value.type)
                      ELSE value.size + ComplexSize
              p == Provided(vol, size)
          IN  /\ Running
              /\ \/ Stop(p.disk)
                 \/ /\ PopFreeEntryOffset(p.bins, size) # None
                    /\ \E junk \in Junk : Stop(FreeEntry(p, size, junk).disk)
    BY <1>2 DEF CrashInFreeEntry
  <2> DEFINE size == SimpleHeaderSize(value.type)
             p == Provided(vol, size)
             o == PopFreeEntryOffset(p.bins, size)
             v == vol
  <2>2. /\ opened
        /\ \/ Stop(p.disk)
           \/ o # None /\ \E junk \in Junk : Stop(FreeEntry(p, size, junk).disk)
    BY <2>1 DEF FixedSize, Running
  <2>3. size \in {Simple4Size, Simple8Size}
    BY DEF SimpleHeaderSize
  <2>4. Keeps(v, kept) /\ p = Provided(v, size)
    BY <2>2, CrashOpen
  <2> HIDE DEF size, kept, v, p
  <2>5. Keeps(p, kept) /\ SameKept(v.disk, p.disk, kept)
    BY <2>3, <2>4, ProvidedKeeps
  <2>6. CASE Stop(p.disk)
    <3> DEFINE disk == p.disk
    <3>1. Stop(disk) /\ IsDisk(disk) /\ DiskKeeps(disk, kept) /\ SameKept(v.disk, disk, kept)
      BY <2>5, <2>6 DEF Keeps, IsVolume, IsDisk
    <3> HIDE DEF disk
    <3> QED BY <3>1, CrashStop DEF kept, v
  <2>7. CASE o # None /\ \E junk \in Junk : Stop(FreeEntry(p, size, junk).disk)
    <3>1. PICK junk \in Junk : Stop(FreeEntry(p, size, junk).disk)
      BY <2>7
    <3>2. junk \in Nat
      BY EntriesAssumption DEF EntriesAssumption
    <3> DEFINE free == FreeEntry(p, size, junk)
    <3>3. Keeps(free, kept) /\ SameKept(p.disk, free.disk, kept)
      BY <2>3, <2>5, <2>7, <3>2, FreeEntryKeeps
    <3> DEFINE disk == free.disk
    <3>4. Stop(disk) /\ IsDisk(disk) /\ DiskKeeps(disk, kept) /\ SameKept(v.disk, disk, kept)
      <4> HIDE DEF free
      <4>1. Stop(disk)
        BY <3>1 DEF free
      <4> QED BY <2>5, <3>3, <4>1 DEF Keeps, IsVolume, IsDisk, SameKept
    <3> HIDE DEF disk
    <3> QED BY <3>4, CrashStop DEF kept, v
  <2> QED BY <2>2, <2>6, <2>7
<1>3. CASE CrashInChunk
  BY <1>3 DEF CrashInChunk, CrashInv
<1> QED BY <1>1, <1>2, <1>3 DEF Crash

\* Every step, of the program or of the world that stops it, keeps the invariant.
LEMMA CrashNext ==
  ASSUME FixedSize, CrashInv, [Next \/ Crash]_vars
  PROVE  CrashInv'
<1>1. CASE Next
  <2>1. crashes' = crashes
    BY <1>1 DEF Next, CreateSimple, BeginComplex, WriteChunk, DeleteEntry,
                SetEntryExpiredDate, SaveStartEntries, LoadStartEntries
  <2>2. crashes' = 0 => FixedSizeInv'
    BY <1>1, <2>1, NextInv DEF CrashInv
  <2>3. ASSUME NEW value \in Values, CreateSimple(value)
        PROVE  CrashInv'
    BY <2>2, <2>3, CrashCreate
  <2>4. ASSUME NEW value \in Values, BeginComplex(value)
        PROVE  CrashInv'
    <3>1. value.type = "kString" /\ value.type \in SimpleTypes
      BY <2>4 DEF BeginComplex, FixedSize
    <3> QED BY <3>1 DEF SimpleTypes
  <2>5. CASE WriteChunk
    BY <2>5 DEF WriteChunk, CrashInv
  <2>6. ASSUME NEW o \in DOMAIN held, DeleteEntry(o)
        PROVE  CrashInv'
    BY <2>2, <2>6, CrashDelete
  <2>7. ASSUME NEW o \in DOMAIN held, NEW time \in Times, SetEntryExpiredDate(o, time)
        PROVE  CrashInv'
    BY <2>2, <2>7, CrashExpire
  <2>8. ASSUME NEW index \in DOMAIN held \cup {None}, SaveStartEntries(index)
        PROVE  CrashInv'
    BY <2>2, <2>8, CrashSave
  <2>9. CASE LoadStartEntries
    BY <2>2, <2>9, CrashLoad
  <2> QED BY <1>1, <2>3, <2>4, <2>5, <2>6, <2>7, <2>8, <2>9 DEF Next
<1>2. CASE Crash
  BY <1>2, CrashCrash
<1>3. CASE UNCHANGED vars
  BY <1>3 DEF vars, CrashInv, FixedSizeInv, Current, HeldOnDevice
<1> QED BY <1>1, <1>2, <1>3

\* Whatever is stored, saved and loaded, and whenever the program stops: the free lists
\* of this session and of the next lead to nothing that was saved.
THEOREM CrashSafe ==
  ASSUME FixedSize
  PROVE  CrashSpec => []CrashInv
<1>1. Init => CrashInv
  BY CrashInit
<1>2. CrashInv /\ [Next \/ Crash]_vars => CrashInv'
  BY CrashNext
<1> QED BY <1>1, <1>2, PTL DEF CrashSpec

\* What is kept reads back.
LEMMA KeptReadsBack ==
  ASSUME CrashInv
  PROVE  SurvivesCrash
<1> SUFFICES ASSUME NEW o \in DOMAIN durable PROVE ReadEntry(vol, o) = durable[o]
  BY DEF SurvivesCrash
<1>1. /\ durable[o] = Content(vol.disk[o]) /\ durable[o].value \in Values
      /\ o \in DOMAIN vol.disk /\ vol.disk[o].type \in SimpleTypes
  BY CurrentIsDevice DEF CrashInv, Keeps, DiskKeeps
<1>2. vol.disk[o].data.value # NoValue
  BY <1>1, ValuesAssumption
     DEF ValuesAssumption, Content, NoValue, UserTypes, SimpleTypes
<1> QED BY <1>1, <1>2 DEF ReadEntry, HeaderAt, Content, SimpleTypes

\* Entries that were held at the last save and not deleted since keep value and date,
\* through any number of crashes at any of the moments modelled and whatever the
\* sessions between them store.
THEOREM SavedSurvives ==
  ASSUME FixedSize
  PROVE  CrashSpec => []SurvivesCrash
<1>1. CrashInv => SurvivesCrash
  BY KeptReadsBack
<1> QED BY <1>1, CrashSafe, PTL

-----------------------------------------------------------------------------
(***************************************************************************)
(* The device implements EntryStore.                                       *)
(***************************************************************************)

\* Where the invariant holds, what a caller reads on the device is what it holds.
LEMMA OnDeviceIsHeld ==
  ASSUME FixedSize, FixedSizeInv
  PROVE  OnDevice = [o \in DOMAIN held |-> held[o]]
BY ReadsBack DEF OnDevice

\* The offset of a new entry is one that no entry in use has.
LEMMA NewOffset ==
  ASSUME FixedSize, FixedSizeInv, opened, NEW size \in {Simple4Size, Simple8Size},
         NEW o, o = PopFreeEntryOffset(Provided(vol, size).bins, size), o # None,
         Provided(vol, size).end <= MaxDeviceEnd
  PROVE  o \in (1 .. MaxDeviceEnd) \ DOMAIN held
<1> DEFINE v == Provided(vol, size)
<1>1. Sound(vol, {}) /\ InUse(vol.disk) = DOMAIN held
  BY OpenInv
<1>2. Sound(v, {}) /\ SameInUse(vol.disk, v.disk)
  BY <1>1, ProvidedSound
<1> HIDE DEF v
<1>3. o \in FreeOf(v, {}) /\ v.disk[o].room >= size
  BY <1>2, PopSound DEF v
<1>4. /\ o \in DOMAIN v.disk /\ v.disk[o].type \in FreeTypes
      /\ o \in Nat \ {0} /\ v.disk[o].room \in Nat /\ v.end \in Nat
      /\ o + v.disk[o].room <= v.end
  BY <1>2, <1>3 DEF FreeOf, Sound, IsVolume, RoomsDisjoint, Header
<1>5. o \notin DOMAIN held
  BY <1>1, <1>2, <1>4 DEF SameInUse, InUse, SimpleTypes, FreeTypes
<1>6. v.end <= MaxDeviceEnd /\ MaxDeviceEnd \in Nat
  BY EntriesAssumption DEF EntriesAssumption, v
<1> QED BY <1>4, <1>5, <1>6

\* Every step of the program is a step of the store, or changes nothing in it.
LEMMA StepImplements ==
  ASSUME FixedSize, FixedSizeInv, FixedSizeInv', [Next]_vars
  PROVE  [Store!Next]_OnDevice
<1> DEFINE e == OnDevice
           f == OnDevice'
<1>1. e = [p \in DOMAIN held |-> held[p]]
  BY OnDeviceIsHeld
<1>2. f = [p \in DOMAIN held' |-> held'[p]]
  <2>1. \A p \in DOMAIN held' : ReadEntry(vol', p) = held'[p]
    <3> SUFFICES ASSUME NEW p \in DOMAIN held' PROVE ReadEntry(vol', p) = held'[p]
      OBVIOUS
    <3>1. p \in DOMAIN vol'.disk /\ vol'.disk[p].type \in SimpleTypes
      BY DEF FixedSizeInv, HeldOnDevice, InUse
    <3>2. HeaderAt(vol'.disk, p) = vol'.disk[p]
      BY <3>1 DEF HeaderAt
    <3>3. vol'.disk[p].data.value \in Values
      BY DEF FixedSizeInv, HeldOnDevice
    <3>4. NoValue \notin Values
      BY ValuesAssumption DEF ValuesAssumption, NoValue, UserTypes, SimpleTypes
    <3>5. held'[p] = [value |-> vol'.disk[p].data.value,
                      expires |-> IF "kIsExpired" \in vol'.disk[p].state
                                  THEN vol'.disk[p].expires ELSE None]
      BY DEF FixedSizeInv, HeldOnDevice
    <3> QED BY <3>1, <3>2, <3>3, <3>4, <3>5 DEF ReadEntry
  <2> QED BY <2>1 DEF OnDevice
<1> HIDE DEF e, f
<1>3. SUFFICES Store!Next \/ f = e
  BY DEF e, f
<1>4. CASE held' = held
  BY <1>1, <1>2, <1>4
<1>5. ASSUME NEW value \in Values, CreateSimple(value), held' # held
      PROVE  Store!Next
  <2> DEFINE size == SimpleHeaderSize(value.type)
             o == PopFreeEntryOffset(Provided(vol, size).bins, size)
  <2>1. /\ opened /\ Provided(vol, size).end <= MaxDeviceEnd /\ o # None
        /\ held' = [p \in DOMAIN held \cup {o} |->
                      IF p = o THEN [value |-> value, expires |-> None] ELSE held[p]]
    BY <1>5 DEF CreateSimple, Running
  <2>2. size \in {Simple4Size, Simple8Size}
    BY DEF SimpleHeaderSize
  <2> HIDE DEF size
  <2>3. o \in (1 .. MaxDeviceEnd) \ DOMAIN held
    BY <2>1, <2>2, NewOffset
  <2> HIDE DEF o
  <2>4. DOMAIN e = DOMAIN held
    BY <1>1
  <2>5. f = [p \in DOMAIN e \cup {o} |->
               IF p = o THEN [value |-> value, expires |-> None] ELSE e[p]]
    BY <1>1, <1>2, <2>1 DEF None
  <2>6. Store!Create(o, value)
    BY <2>5 DEF Store!Create, e, f
  <2>7. o \in Store!NewNames
    BY <2>3, <2>4, <2>5 DEF Store!NewNames, e, f
  <2> QED BY <2>6, <2>7 DEF Store!Next
<1>6. ASSUME NEW o \in DOMAIN held, DeleteEntry(o)
      PROVE  Store!Next
  <2>1. f = [p \in DOMAIN e \ {o} |-> e[p]] /\ o \in DOMAIN e
    BY <1>1, <1>2, <1>6 DEF DeleteEntry, Without
  <2> QED BY <2>1 DEF Store!Next, Store!Delete, e, f
<1>7. ASSUME NEW o \in DOMAIN held, NEW time \in Times, SetEntryExpiredDate(o, time)
      PROVE  Store!Next
  <2>1. held' = [held EXCEPT ![o].expires = time]
    BY <1>7 DEF SetEntryExpiredDate
  <2>2. f = [e EXCEPT ![o].expires = time] /\ o \in DOMAIN e
    BY <1>1, <1>2, <2>1
  <2> QED BY <2>2 DEF Store!Next, Store!SetExpiredDate, e, f
<1>8. ASSUME NEW value \in Values, BeginComplex(value)
      PROVE  FALSE
  BY <1>8 DEF BeginComplex, FixedSize, SimpleTypes
<1>9. ~WriteChunk
  BY DEF WriteChunk, FixedSizeInv
<1>10. ASSUME NEW index \in DOMAIN held \cup {None}, SaveStartEntries(index)
       PROVE  held' = held
  BY <1>10 DEF SaveStartEntries
<1>11. LoadStartEntries => held' = held
  BY DEF LoadStartEntries
<1>12. UNCHANGED vars => held' = held
  BY DEF vars
<1> QED
  BY <1>4, <1>5, <1>6, <1>7, <1>8, <1>9, <1>10, <1>11, <1>12 DEF Next

\* PVEntriesManager implements EntryStore: what is read at the offsets changes
\* as a store of independent, durable entries does.
THEOREM Implements ==
  ASSUME FixedSize
  PROVE  Spec => ImplementsEntryStore
<1>1. Init => Store!Init
  BY DEF Init, Store!Init, OnDevice
<1>2. FixedSizeInv /\ FixedSizeInv' /\ [Next]_vars => [Store!Next]_OnDevice
  BY StepImplements
<1> QED
  BY <1>1, <1>2, FixedSizeSafe, PTL DEF Spec, Store!Spec, ImplementsEntryStore
=============================================================================
