------------------------- MODULE EntriesTypeConverter -------------------------
(***************************************************************************)
(* EntriesTypeConverter: the twelve types of values and what the device    *)
(* keeps of them.  Numbers go through a field of four or of eight bytes,   *)
(* whatever their width; strings and blobs are their bytes.                *)
(*                                                                         *)
(* A number is its type and its bits, a natural number; whether the type   *)
(* has a sign, or is a floating-point type, changes how a caller reads the *)
(* bits and nothing here.                                                  *)
(***************************************************************************)
EXTENDS Integers

CONSTANT ByteSize    \* number of values of a byte, 256 in the code

ASSUME ByteSizeAssumption == ByteSize \in Nat /\ ByteSize >= 2

OneByteTypes   == {"kInt8", "kUint8"}
TwoByteTypes   == {"kInt16", "kUint16"}
FourByteTypes  == {"kInt32", "kUint32", "kFloat"}
EightByteTypes == {"kInt64", "kUint64", "kDouble"}

\* those with a Simple4TypeHeader, a Simple8TypeHeader, a ComplexTypeHeader
Simple4Types == OneByteTypes \cup TwoByteTypes \cup FourByteTypes
Simple8Types == EightByteTypes
ComplexTypes == {"kString", "kBlob"}
NumberTypes  == Simple4Types \cup Simple8Types

TwoBytes   == ByteSize * ByteSize
FourBytes  == TwoBytes * TwoBytes
EightBytes == FourBytes * FourBytes

\* how many values a type has
TypeSize(type) ==
  CASE type \in OneByteTypes   -> ByteSize
    [] type \in TwoByteTypes   -> TwoBytes
    [] type \in FourByteTypes  -> FourBytes
    [] type \in EightByteTypes -> EightBytes

\* how many values value_ of the header of a type has
FieldSize(type) == IF type \in Simple4Types THEN FourBytes ELSE EightBytes

Numbers == {n \in [type : NumberTypes, bits : Nat] : n.bits < TypeSize(n.type)}

(***************************************************************************)
(* createNewEntryValue reads a whole field at the address of the number:   *)
(* its upper bytes are what lies behind a number that is narrower.         *)
(***************************************************************************)
EntryOf(value, behind) ==
  IF value.type \in ComplexTypes THEN [type |-> value.type, bytes |-> value.bytes]
  ELSE [type |-> value.type,
        field |-> (value.bits + TypeSize(value.type) * behind) % FieldSize(value.type)]

\* mutant: the field is taken for the number
UserValueWhole(entry) ==
  IF entry.type \in ComplexTypes THEN [type |-> entry.type, bytes |-> entry.bytes]
  ELSE [type |-> entry.type, bits |-> entry.field]

\* ConvertToEntryType, then ConvertToUserType: a field is cast to the type of the
\* entry, which for the types of its own width takes over its bits
UserValue(entry) ==
  IF entry.type \in ComplexTypes THEN [type |-> entry.type, bytes |-> entry.bytes]
  ELSE [type |-> entry.type, bits |-> entry.field % TypeSize(entry.type)]
=============================================================================
