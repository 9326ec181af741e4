------------------------------ MODULE PVLayout ------------------------------
(***************************************************************************)
(* The on-device layout of a physical volume (pv_layout_headers.h and      *)
(* settings.h): the sizes of the packed headers, the types an entry header *)
(* can carry, and the records that stand for headers on the device.        *)
(*                                                                         *)
(* Offsets are byte numbers from the start of the device, sizes are bytes. *)
(***************************************************************************)
EXTENDS Integers

CONSTANTS
  OffsetSize,           \* sizeof(DOffsetType): 4 or 8, the bitness of the build
  kBinCount,            \* number of free lists
  kDefaultClusterSize,  \* cluster size of a loaded PV and limit of the last bin
  kMaximumTypeSize,     \* largest complex value that can be read back
  Times,                \* expiry dates a caller may set
  Values                \* values a caller may store: records [type, size, id]

(***************************************************************************)
(* Types of entries.  One user type stands for each header format: kInt32  *)
(* for the types stored in a Simple4TypeHeader, kInt64 for those stored in *)
(* a Simple8TypeHeader, kString for the ones stored in chains of           *)
(* ComplexTypeHeaders.                                                     *)
(***************************************************************************)
SimpleTypes == {"kInt32", "kInt64"}
UserTypes   == SimpleTypes \cup {"kString"}
FreeTypes   == {"kEmpty4Simple", "kEmpty8Simple", "kEmptyComplex"}
PVType      == UserTypes \cup FreeTypes

PVTypeState == SUBSET {"kIsExpired", "kComplexBegin", "kComplexSequel"}

\* offset_traits<OffsetType>::NonExistValue()
None == 0

\* sizeof of the packed headers, as the static_asserts of the header file fix them
Simple4Size        == 12
Simple8Size        == 16
ComplexSize        == 8 + 4 * OffsetSize
PVHeaderSize       == 20 + 2 * OffsetSize
FreelistHeaderSize == kBinCount * OffsetSize

\* offset_of(&ComplexTypeHeader::data_)
DataOffset == 8 + 3 * OffsetSize

\* the first byte behind PVHeader and FreelistHeader
FirstOffset == PVHeaderSize + FreelistHeaderSize

ASSUME LayoutAssumption ==
  /\ OffsetSize \in {4, 8}
  /\ kBinCount \in Nat \ {0}
  /\ kDefaultClusterSize \in Nat
  /\ kDefaultClusterSize >= ComplexSize
  /\ kMaximumTypeSize \in Nat
  /\ Times \subseteq Nat

ASSUME ValuesAssumption ==
  \A v \in Values : v.type \in UserTypes /\ v.size \in Nat

(***************************************************************************)
(* Contents of entries.                                                    *)
(***************************************************************************)
NoValue == [type |-> "none", size |-> 0, id |-> 0]

\* bytes from .. from + len - 1 of a value
Piece(value, from, len) == [value |-> value, from |-> from, len |-> len]

NoPiece == Piece(NoValue, 0, 0)

(***************************************************************************)
(* A header on the device.  One record stands for the three header formats *)
(* and for their union with the free-list link: type tells which fields    *)
(* mean something.  room is a ghost: the number of bytes up to the next    *)
(* header, which the code stores nowhere.                                  *)
(***************************************************************************)
FreeHeader(type, size, next, room) ==
  [type |-> type, state |-> {}, expires |-> 0, overall |-> size, chunk |-> size,
   sequel |-> None, next |-> next, data |-> NoPiece, room |-> room]

SimpleHeaderSize(type) == IF type = "kInt32" THEN Simple4Size ELSE Simple8Size

\* the formats whose bytes are those of a ComplexTypeHeader
IsComplexFormat(h) == h.type \in {"kString", "kEmptyComplex"}

\* how many bytes, from its offset on, writing a header and its data covers
Extent(h) ==
  CASE h.type \in {"kInt32", "kEmpty4Simple"} -> Simple4Size
    [] h.type \in {"kInt64", "kEmpty8Simple"} -> Simple8Size
    [] h.type = "kString" /\ h.chunk > OffsetSize -> DataOffset + h.chunk
    [] OTHER -> ComplexSize

(***************************************************************************)
(* What a reader finds where no header is, or where a header or its data   *)
(* were partly overwritten by something else.                              *)
(***************************************************************************)
Overwritten == [FreeHeader("overwritten", 0, None, 0) EXCEPT !.state = {"overwritten"}]

HeaderAt(disk, offset) == IF offset \in DOMAIN disk THEN disk[offset] ELSE Overwritten

(***************************************************************************)
(* PVDeviceDataReaderWriter::Write and WriteComplexType: header and data   *)
(* go to the device at an offset.  Headers whose bytes the write covers,   *)
(* and headers whose data the write falls into, are overwritten.           *)
(***************************************************************************)
Write(disk, offset, header) ==
  [p \in DOMAIN disk \cup {offset} |->
     IF p = offset THEN header
     ELSE IF /\ p < offset + Extent(header)
             /\ offset < p + Extent(disk[p])
       THEN [Overwritten EXCEPT !.room = disk[p].room]
       ELSE disk[p]]
=============================================================================
