---------------------- MODULE EntriesTypeConverterProofs ----------------------
(***************************************************************************)
(* A number comes back from the field of its entry as it was, for bytes of *)
(* any size, whatever was behind it when the field was read.               *)
(***************************************************************************)
EXTENDS EntriesTypeConverter, TLAPS

\* What the prover is told about quotients and remainders.
LEMMA DivisionOfField ==
  ASSUME NEW y \in Nat, NEW m \in Nat \ {0}
  PROVE  /\ y \div m \in Nat /\ y % m \in 0 .. m - 1
         /\ y = m * (y \div m) + (y % m)
<1>1. y % m \in 0 .. m - 1
  OBVIOUS
<1>2. y \div m \in Int
  OBVIOUS
<1>3. y = m * (y \div m) + (y % m)
  OBVIOUS
<1>4. y \div m >= 0
  OBVIOUS
<1> QED BY <1>1, <1>2, <1>3, <1>4

\* A product with a number that is not 0 is not between the factor and its opposite.
LEMMA NoSmallMultiple ==
  ASSUME NEW m \in Nat \ {0}, NEW d \in Int, m * d < m, -m < m * d
  PROVE  d = 0
<1>1. CASE d >= 1
  <2>1. PICK e \in Nat : d = e + 1
    <3>1. d - 1 \in Nat /\ d = (d - 1) + 1
      BY <1>1
    <3> QED BY <3>1
  <2>2. m * d = m * e + m /\ m * e \in Nat
    BY <2>1
  <2> QED BY <2>2
<1>2. CASE d <= -1
  <2>1. PICK e \in Nat : d = -e - 1
    <3>1. -d - 1 \in Nat /\ d = -(-d - 1) - 1
      BY <1>2
    <3> QED BY <3>1
  <2>2. m * d = -(m * e) - m /\ m * e \in Nat
    BY <2>1
  <2> QED BY <2>2
<1> QED BY <1>1, <1>2

LEMMA RemainderOf ==
  ASSUME NEW m \in Nat \ {0}, NEW z \in Int, NEW b \in 0 .. m - 1, m * z + b \in Nat
  PROVE  (m * z + b) % m = b
<1> DEFINE y == m * z + b
           q == y \div m
           r == y % m
<1>1. q \in Nat /\ r \in 0 .. m - 1 /\ y = m * q + r
  BY DivisionOfField
<1> HIDE DEF q, r
<1>2. m * (z - q) = m * z - m * q /\ m * z \in Int /\ m * q \in Int
  BY <1>1
<1>3. m * (z - q) = r - b
  BY <1>1, <1>2
<1>4. m * (z - q) < m /\ -m < m * (z - q)
  BY <1>1, <1>3
<1>5. z - q = 0
  BY <1>1, <1>4, NoSmallMultiple
<1>6. r = b
  BY <1>1, <1>2, <1>3, <1>5
<1> QED BY <1>6 DEF r

\* A field of k numbers' size keeps the lowest of them.
LEMMA LowestOfField ==
  ASSUME NEW m \in Nat \ {0}, NEW k \in Nat \ {0}, NEW b \in 0 .. m - 1, NEW behind \in Nat
  PROVE  ((b + m * behind) % (m * k)) % m = b
<1> DEFINE y == b + m * behind
           f == m * k
           q == y \div f
           r == y % f
<1>1. f \in Nat \ {0}
  OBVIOUS
<1>2. y \in Nat
  OBVIOUS
<1>3. y = b + m * behind
  OBVIOUS
<1> HIDE DEF y, f
<1>4. q \in Nat /\ r \in Nat /\ y = f * q + r
  BY <1>1, <1>2, DivisionOfField
<1> HIDE DEF q, r
<1>5. f * q = m * (k * q) /\ k * q \in Nat /\ m * (k * q) \in Nat
  BY <1>4 DEF f
<1>6. r = m * (behind - k * q) + b
  <2>1. m * (behind - k * q) = m * behind - m * (k * q) /\ m * behind \in Nat
    BY <1>5
  <2> QED BY <2>1, <1>3, <1>4, <1>5
<1>7. r % m = b
  <2> DEFINE z == behind - k * q
  <2>1. z \in Int /\ r = m * z + b
    BY <1>5, <1>6
  <2> HIDE DEF z
  <2>2. m * z + b \in Nat
    BY <1>4, <2>1
  <2>3. (m * z + b) % m = b
    BY <2>1, <2>2, RemainderOf
  <2> QED BY <2>1, <2>3
<1> QED BY <1>7 DEF r, y, f

LEMMA Sizes ==
  /\ ByteSize \in Nat \ {0} /\ TwoBytes \in Nat \ {0} /\ FourBytes \in Nat \ {0}
  /\ FourBytes = ByteSize * (ByteSize * TwoBytes)
  /\ FourBytes = TwoBytes * TwoBytes
  /\ EightBytes = FourBytes * FourBytes /\ EightBytes \in Nat \ {0}
  /\ ByteSize * TwoBytes \in Nat \ {0}
<1>1. ByteSize \in Nat \ {0}
  BY ByteSizeAssumption DEF ByteSizeAssumption
<1>2. TwoBytes \in Nat \ {0} /\ TwoBytes = ByteSize * ByteSize
  BY <1>1 DEF TwoBytes
<1>3. ByteSize * TwoBytes \in Nat \ {0}
  BY <1>1, <1>2
<1>4. FourBytes \in Nat \ {0} /\ FourBytes = TwoBytes * TwoBytes
  BY <1>2 DEF FourBytes
<1>5. TwoBytes * TwoBytes = ByteSize * (ByteSize * TwoBytes)
  BY <1>1, <1>2
<1>6. EightBytes \in Nat \ {0} /\ EightBytes = FourBytes * FourBytes
  BY <1>4 DEF EightBytes
<1> QED BY <1>1, <1>2, <1>3, <1>4, <1>5, <1>6

\* The field of a type holds a whole number of its values.
LEMMA FieldsHoldNumbers ==
  ASSUME NEW type \in NumberTypes
  PROVE  /\ TypeSize(type) \in Nat \ {0}
         /\ \E k \in Nat \ {0} : FieldSize(type) = TypeSize(type) * k
<1> USE DEF TypeSize, FieldSize, NumberTypes, Simple4Types, Simple8Types,
            OneByteTypes, TwoByteTypes, FourByteTypes, EightByteTypes
<1>1. CASE type \in OneByteTypes
  <2>1. TypeSize(type) = ByteSize /\ FieldSize(type) = FourBytes
    BY <1>1
  <2> QED BY <2>1, Sizes
<1>2. CASE type \in TwoByteTypes
  <2>1. TypeSize(type) = TwoBytes /\ FieldSize(type) = FourBytes
    BY <1>2
  <2> QED BY <2>1, Sizes
<1>3. CASE type \in FourByteTypes
  <2>1. TypeSize(type) = FourBytes /\ FieldSize(type) = FourBytes
    BY <1>3
  <2>2. FourBytes = FourBytes * 1 /\ 1 \in Nat \ {0}
    BY Sizes
  <2> QED BY <2>1, <2>2, Sizes
<1>4. CASE type \in EightByteTypes
  <2>1. TypeSize(type) = EightBytes /\ FieldSize(type) = EightBytes
    BY <1>4
  <2>2. EightBytes = EightBytes * 1 /\ 1 \in Nat \ {0}
    BY Sizes
  <2> QED BY <2>1, <2>2, Sizes
<1> QED BY <1>1, <1>2, <1>3, <1>4

\* What a caller gets for a number (UserValue) is what was put, though its entry keeps
\* bytes that are not the number's (EntryOf).
THEOREM NumbersComeBack ==
  ASSUME NEW number \in Numbers, NEW behind \in Nat
  PROVE  UserValue(EntryOf(number, behind)) = number
<1> DEFINE type == number.type
           b == number.bits
           m == TypeSize(type)
<1>1. number = [type |-> type, bits |-> b]
  BY DEF Numbers
<1>2. type \in NumberTypes /\ type \notin ComplexTypes
  BY DEF Numbers, NumberTypes, Simple4Types, Simple8Types, ComplexTypes,
         OneByteTypes, TwoByteTypes, FourByteTypes, EightByteTypes
<1>3. b \in 0 .. m - 1 /\ m \in Nat \ {0}
  BY <1>2, FieldsHoldNumbers DEF Numbers
<1>4. PICK k \in Nat \ {0} : FieldSize(type) = m * k
  BY <1>2, FieldsHoldNumbers
<1> HIDE DEF m, b
<1>5. ((b + m * behind) % FieldSize(type)) % m = b
  <2>1. ((b + m * behind) % (m * k)) % m = b
    BY <1>3, LowestOfField
  <2> QED BY <2>1, <1>4
<1>6. EntryOf(number, behind) =
        [type |-> type, field |-> (b + m * behind) % FieldSize(type)]
  BY <1>2 DEF EntryOf, m, b
<1>7. UserValue(EntryOf(number, behind)) = [type |-> type, bits |-> b]
  BY <1>2, <1>5, <1>6 DEF UserValue, m
<1> QED BY <1>1, <1>7 DEF b
=============================================================================
