------------------------- MODULE MCPVEntriesManager -------------------------
(***************************************************************************)
(* PVEntriesManager on small instances: four bins, clusters that hold a    *)
(* few entries, the sizes of 64-bit and of 32-bit builds.                  *)
(***************************************************************************)
EXTENDS PVEntriesInvariant, TLC

\* a 32-bit build and clusters of 60 bytes
NarrowLimits == 0 :> 12 @@ 1 :> 16 @@ 2 :> 40 @@ 3 :> 60

Value(type, size, id) == [type |-> type, size |-> size, id |-> id]

SimpleValues == {Value("kInt32", 0, 1), Value("kInt64", 0, 2)}

\* a 64-bit build and clusters of 256 bytes
WideLimits == 0 :> 12 @@ 1 :> 16 @@ 2 :> 64 @@ 3 :> 256

\* a 64-bit build and clusters of 128 bytes
HalfLimits == 0 :> 12 @@ 1 :> 16 @@ 2 :> 64 @@ 3 :> 128

\* a small value and a string of two chunks: 224 data bytes fill a cluster of 256, and
\* both 23 bytes, the second chunk, and 23 + DataOffset bytes fall in one bin
MixedValues == {Value("kInt64", 0, 2), Value("kString", 247, 4)}

\* a string of one chunk, small and large sizes of which fall in one bin
ShortValues == {Value("kInt64", 0, 2), Value("kString", 24, 3)}

\* a cluster of 128 bytes behind an entry of 16 has 80 bytes left for the first
\* chunk: the second one has 39 bytes, in the third bin, and with DataOffset 71,
\* in the last one
SplitValues == {Value("kInt64", 0, 2), Value("kString", 119, 4)}
=============================================================================
