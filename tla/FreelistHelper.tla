--------------------------- MODULE FreelistHelper ---------------------------
(***************************************************************************)
(* FreelistHelper (FreelistHelper.hpp): for every bin the offset of the    *)
(* first free entry of that bin, or None.  The entries behind the first    *)
(* one are linked on the device, by next_free_entry_offset_: the caller of *)
(* these operations keeps that chain, this class only sees its head.       *)
(*                                                                         *)
(* bins is a function from bin numbers to offsets; an operation that       *)
(* changes the bins is an operator that returns the new ones.              *)
(***************************************************************************)
EXTENDS PVLayout

CONSTANTS
  kFreelistLimits,    \* the largest entry size of every bin, in increasing order
  LastSmallBin        \* the "5" of PopFreeEntryOffset: bins behind it may serve
                      \* requests of a cluster or more

Bins == 0 .. kBinCount - 1

NoBin == -1

ASSUME FreelistAssumption ==
  /\ kFreelistLimits \in [Bins -> Nat]
  /\ \A b, c \in Bins : b < c => kFreelistLimits[b] < kFreelistLimits[c]
  /\ kBinCount >= 2
  /\ kFreelistLimits[0] = Simple4Size /\ kFreelistLimits[1] = Simple8Size
  /\ kFreelistLimits[kBinCount - 1] = kDefaultClusterSize
  /\ kFreelistLimits[kBinCount - 2] >= ComplexSize
  /\ LastSmallBin \in Nat

EmptyBins == [b \in Bins |-> None]

Lowest(S)  == CHOOSE b \in S : \A c \in S : b <= c
Highest(S) == CHOOSE b \in S : \A c \in S : c <= b

\* the first bin whose limit holds the size, the last bin if none does
BinIdForSize(size) ==
  LET wideEnough == {b \in Bins : size <= kFreelistLimits[b]}
  IN  IF wideEnough = {} THEN kBinCount - 1 ELSE Lowest(wideEnough)

NonEmptyBins(bins) == {b \in Bins : bins[b] # None}

\* the bin PopFreeEntryOffset takes its entry from, NoBin if it finds none
PopBin(bins, size) ==
  LET serving == {b \in NonEmptyBins(bins) : size <= kFreelistLimits[b]}
      isLessClusterSize == size < kDefaultClusterSize
      lastViewed == IF NonEmptyBins(bins) = {} THEN NoBin ELSE Highest(NonEmptyBins(bins))
  IN  IF serving # {} THEN Lowest(serving)
      ELSE IF ~isLessClusterSize /\ lastViewed > LastSmallBin THEN lastViewed
      ELSE NoBin

\* mutant: the head that was handed out stays in its bin
PopLeavesHead(bins, size) == bins

\* the bins that PopFreeEntryOffset leaves behind ...
PopFreeEntry(bins, size) ==
  LET b == PopBin(bins, size) IN IF b = NoBin THEN bins ELSE [bins EXCEPT ![b] = None]

\* ... and the offset it returns
PopFreeEntryOffset(bins, size) ==
  LET b == PopBin(bins, size) IN IF b = NoBin THEN None ELSE bins[b]

PushFreeEntry(bins, offset, size) == [bins EXCEPT ![BinIdForSize(size)] = offset]

GetFreeEntry(bins, size) ==
  bins[BinIdForSize(IF size > kDefaultClusterSize THEN kDefaultClusterSize ELSE size)]
=============================================================================
