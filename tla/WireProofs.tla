----------------------------- MODULE WireProofs -----------------------------
(***************************************************************************)
(* The numbers of WireFormat are right for every message, every set of     *)
(* stations and every configuration.                                       *)
(*                                                                         *)
(* The checksum is the heart.  Dividing bit by bit, what decides a step is *)
(* the lowest bit of the register, which is the parity of all bits fed so  *)
(* far (byte and register combined).  So with F the set of the steps at    *)
(* which that parity is odd, the register after k steps has a closed form, *)
(* Partial(w, F, k); after eight it is what crc16 computes from its table  *)
(* of parities with two shifts.                                            *)
(***************************************************************************)
EXTENDS WireFormat, FiniteSetTheorems, WellFoundedInduction, TLAPS

USE WireAssumption

----------------------------------------------------------------------------
(* Words bit by bit.                                                       *)

LEMMA InRight == ASSUME NEW w, NEW n, NEW i PROVE i \in Right(w, n) <=> i \in 0..31 /\ i + n \in w
  BY DEF Right, Bits

LEMMA InLeft == ASSUME NEW w, NEW n, NEW i PROVE i \in Left(w, n) <=> i \in 0..31 /\ i - n \in w
  BY DEF Left, Bits

LEMMA InXor == ASSUME NEW w, NEW x, NEW i PROVE i \in Xor(w, x) <=> ~(i \in w <=> i \in x)
  BY DEF Xor, SymDiff

----------------------------------------------------------------------------
(* The running parity.                                                     *)

Data(w, byte) == Xor(byte, w) \cap Bits(8)

(* Bit j of F is the parity of the bits of data up to j.                   *)
Running(data, F) ==
    \A j \in 0..7 : (j \in F) <=> ~(j \in data <=> (j > 0 /\ j - 1 \in F))

Below(data, F, n) ==
    /\ F \subseteq 0..(n - 1)
    /\ \A j \in 0..(n - 1) : (j \in F) <=> ~(j \in data <=> (j > 0 /\ j - 1 \in F))

LEMMA OneMore ==
    ASSUME NEW data, NEW n \in 0..7, NEW F, Below(data, F, n)
    PROVE  \E G : Below(data, G, n + 1)
  <1> DEFINE odd == ~(n \in data <=> (n > 0 /\ n - 1 \in F))
             G == IF odd THEN F \cup {n} ELSE F
  <1>0. (n + 1) - 1 = n
    OBVIOUS
  <1>1. G \subseteq 0..n
    BY DEF Below
  <1>2. \A j \in 0..(n - 1) : j \in G <=> j \in F
    OBVIOUS
  <1>3. n \in G <=> odd
    BY DEF Below
  <1>4. \A j \in 0..n : (j \in G) <=> ~(j \in data <=> (j > 0 /\ j - 1 \in G))
    <2> TAKE j \in 0..n
    <2> HIDE DEF G
    <2>1. CASE j = n
      BY <2>1, <1>2, <1>3
    <2>2. CASE j # n
      BY <2>2, <1>2 DEF Below
    <2> QED
      BY <2>1, <2>2
  <1> HIDE DEF G
  <1>5. Below(data, G, n + 1)
    BY <1>0, <1>1, <1>4 DEF Below
  <1> QED
    BY <1>5

LEMMA ParityExists ==
    ASSUME NEW data
    PROVE  \E F : F \subseteq 0..7 /\ Running(data, F)
  <1>0. Below(data, {}, 0)
    BY DEF Below
  <1>1. \E F : Below(data, F, 1)
    BY <1>0, OneMore
  <1>2. \E F : Below(data, F, 2)
    BY <1>1, OneMore
  <1>3. \E F : Below(data, F, 3)
    BY <1>2, OneMore
  <1>4. \E F : Below(data, F, 4)
    BY <1>3, OneMore
  <1>5. \E F : Below(data, F, 5)
    BY <1>4, OneMore
  <1>6. \E F : Below(data, F, 6)
    BY <1>5, OneMore
  <1>7. \E F : Below(data, F, 7)
    BY <1>6, OneMore
  <1>8. \E F : Below(data, F, 8)
    BY <1>7, OneMore
  <1>9. 8 - 1 = 7
    OBVIOUS
  <1> QED
    BY <1>8, <1>9, Zenon DEF Below, Running

----------------------------------------------------------------------------
(* The register after k of the eight divisions.                            *)

Partial(w, F, k) ==
    Xor(Xor(Right(w, k), Left(F \cap 0..(k - 1), 16 - k)),
        Xor(Left(F \cap 0..(k - 1), 14 - k), {0} \cap {i \in {0} : k - 1 \in F}))

LEMMA InPartial ==
    ASSUME NEW w \in SUBSET (0..15), NEW F \in SUBSET (0..7), NEW k \in 0..8, NEW i \in 0..31
    PROVE  i \in Partial(w, F, k) <=>
             ~( ~(i + k \in w <=> (i - 16 + k <= k - 1 /\ i - 16 + k \in F))
                <=> ~((i - 14 + k <= k - 1 /\ i - 14 + k \in F) <=> (i = 0 /\ k - 1 \in F)))
  <1>1. i \in Right(w, k) <=> i + k \in w
    BY InRight
  <1>2. i \in Left(F \cap 0..(k - 1), 16 - k) <=> (i - 16 + k <= k - 1 /\ i - 16 + k \in F)
    BY InLeft
  <1>3. i \in Left(F \cap 0..(k - 1), 14 - k) <=> (i - 14 + k <= k - 1 /\ i - 14 + k \in F)
    BY InLeft
  <1>4. i \in {0} \cap {x \in {0} : k - 1 \in F} <=> i = 0 /\ k - 1 \in F
    OBVIOUS
  <1> QED
    BY <1>1, <1>2, <1>3, <1>4, InXor DEF Partial

LEMMA PartialWord ==
    ASSUME NEW w \in SUBSET (0..15), NEW F \in SUBSET (0..7), NEW k \in 0..8
    PROVE  Partial(w, F, k) \subseteq 0..15
  <1> SUFFICES ASSUME NEW i \in Partial(w, F, k) PROVE i \in 0..15
    OBVIOUS
  <1>1. i \in 0..31
    BY InXor, InRight, InLeft DEF Partial
  <1> QED
    BY <1>1, InPartial

(* What a division by the polynomial does to the bits of the register.     *)
LEMMA InDivide ==
    ASSUME NEW r \in SUBSET (0..15), NEW byte, NEW bit, NEW i \in 0..15,
           NEW F, bit \in F <=> ~(bit \in byte <=> 0 \in r)
    PROVE  i \in Divide(r, byte, bit) <=> ~(i + 1 \in r <=> (bit \in F /\ i \in {0, 13, 15}))
  <1>1. i \in Right(r, 1) <=> i + 1 \in r
    BY InRight
  <1>2. i \in Xor(Right(r, 1), {0, 13, 15}) <=> ~(i + 1 \in r <=> i \in {0, 13, 15})
    BY <1>1, InXor
  <1>3. CASE bit \in F
    BY <1>3, <1>2, Zenon DEF Divide
  <1>4. CASE bit \notin F
    BY <1>4, <1>1, Zenon DEF Divide
  <1> QED
    BY <1>3, <1>4

LEMMA DivideWord ==
    ASSUME NEW r \in SUBSET (0..15), NEW byte, NEW bit
    PROVE  Divide(r, byte, bit) \subseteq 0..15
  <1>1. Right(r, 1) \subseteq 0..15
    BY InRight
  <1>2. Xor(Right(r, 1), {0, 13, 15}) \subseteq 0..15
    BY <1>1, InXor
  <1> QED
    BY <1>1, <1>2, Zenon DEF Divide

LEMMA InData ==
    ASSUME NEW w, NEW byte, NEW j \in 0..7
    PROVE  j \in Data(w, byte) <=> ~(j \in byte <=> j \in w)
  BY InXor DEF Data, Bits

LEMMA PartialStep ==
    ASSUME NEW w \in SUBSET (0..15), NEW byte, NEW F \in SUBSET (0..7),
           Running(Data(w, byte), F), NEW k \in 0..7
    PROVE  Divide(Partial(w, F, k), byte, k) = Partial(w, F, k + 1)
  <1> DEFINE r == Partial(w, F, k)
  <1>0. r \in SUBSET (0..15)
    <2>1. r \subseteq 0..15
      <3>1. k \in 0..8
        OBVIOUS
      <3> QED
        BY <3>1, PartialWord, Zenon
    <2> QED
      BY <2>1, Zenon
  <1>1. 0 \in r <=> ~(k \in w <=> k - 1 \in F)
    BY InPartial
  <1>2. k \in F <=> ~(k \in byte <=> 0 \in r)
    <2>1. k \in F <=> ~(k \in Data(w, byte) <=> k - 1 \in F)
      BY DEF Running
    <2> HIDE DEF r
    <2> QED
      BY <1>1, <2>1, InData
  <1>3. \A i \in 0..15 : i \in Divide(r, byte, k) <=> i \in Partial(w, F, k + 1)
    <2> TAKE i \in 0..15
    <2>1. i \in Divide(r, byte, k) <=> ~(i + 1 \in r <=> (k \in F /\ i \in {0, 13, 15}))
      <3> HIDE DEF r
      <3> QED
        BY <1>0, <1>2, InDivide
    <2>2. i + 1 \in r <=>
             ~( ~(i + 1 + k \in w <=> (i - 15 + k <= k - 1 /\ i - 15 + k \in F))
                <=> ~((i - 13 + k <= k - 1 /\ i - 13 + k \in F) <=> FALSE))
      <3>1. i + 1 \in 0..31 /\ (i + 1) - 16 + k = i - 15 + k /\ (i + 1) - 14 + k = i - 13 + k /\ i + 1 # 0
        OBVIOUS
      <3>2. k \in 0..8
        OBVIOUS
      <3>3. \A n \in 0..31 : n \in r <=>
              ~( ~(n + k \in w <=> (n - 16 + k <= k - 1 /\ n - 16 + k \in F))
                 <=> ~((n - 14 + k <= k - 1 /\ n - 14 + k \in F) <=> (n = 0 /\ k - 1 \in F)))
        BY <3>2, InPartial
      <3>4. i + 1 \in r <=>
              ~( ~((i + 1) + k \in w <=> ((i + 1) - 16 + k <= k - 1 /\ (i + 1) - 16 + k \in F))
                 <=> ~(((i + 1) - 14 + k <= k - 1 /\ (i + 1) - 14 + k \in F)
                       <=> (i + 1 = 0 /\ k - 1 \in F)))
        BY <3>1, <3>3, Zenon
      <3> HIDE DEF r
      <3> QED
        BY <3>1, <3>4
    <2>3. i \in Partial(w, F, k + 1) <=>
             ~( ~(i + 1 + k \in w <=> (i - 15 + k <= k /\ i - 15 + k \in F))
                <=> ~((i - 13 + k <= k /\ i - 13 + k \in F) <=> (i = 0 /\ k \in F)))
      <3>1. /\ i \in 0..31 /\ k + 1 \in 0..8 /\ i + (k + 1) = i + 1 + k /\ i - 16 + (k + 1) = i - 15 + k
            /\ i - 14 + (k + 1) = i - 13 + k /\ (k + 1) - 1 = k
        OBVIOUS
      <3>2. \A m \in 0..8 : i \in Partial(w, F, m) <=>
              ~( ~(i + m \in w <=> (i - 16 + m <= m - 1 /\ i - 16 + m \in F))
                 <=> ~((i - 14 + m <= m - 1 /\ i - 14 + m \in F) <=> (i = 0 /\ m - 1 \in F)))
        BY <3>1, InPartial
      <3>3. i \in Partial(w, F, k + 1) <=>
              ~( ~(i + (k + 1) \in w <=> (i - 16 + (k + 1) <= (k + 1) - 1 /\ i - 16 + (k + 1) \in F))
                 <=> ~((i - 14 + (k + 1) <= (k + 1) - 1 /\ i - 14 + (k + 1) \in F)
                       <=> (i = 0 /\ (k + 1) - 1 \in F)))
        BY <3>1, <3>2, Zenon
      <3> HIDE DEF r
      <3> QED
        BY <3>1, <3>3
    <2>4. CASE i = 15
      BY <2>4, <2>1, <2>2, <2>3
    <2>5. CASE i = 14
      BY <2>5, <2>1, <2>2, <2>3
    <2>6. CASE i = 13
      BY <2>6, <2>1, <2>2, <2>3
    <2>7. CASE i < 13
      BY <2>7, <2>1, <2>2, <2>3
    <2> QED
      BY <2>4, <2>5, <2>6, <2>7
  <1>4. Divide(r, byte, k) \subseteq 0..15 /\ Partial(w, F, k + 1) \subseteq 0..15
    <2>1. k + 1 \in 0..8
      OBVIOUS
    <2> HIDE DEF r
    <2> QED
      BY <1>0, <2>1, DivideWord, PartialWord, Zenon
  <1> HIDE DEF r
  <1>5. Divide(r, byte, k) = Partial(w, F, k + 1)
    BY <1>3, <1>4
  <1> QED
    BY <1>5 DEF r

LEMMA PartialStart ==
    ASSUME NEW w \in SUBSET (0..15), NEW F \in SUBSET (0..7) PROVE Partial(w, F, 0) = w
  <1>1. \A i \in 0..15 : i \in Partial(w, F, 0) <=> i \in w
    BY InPartial
  <1>2. Partial(w, F, 0) \subseteq 0..15
    <2>1. 0 \in 0..8
      OBVIOUS
    <2> QED
      BY <2>1, PartialWord, Zenon
  <1> QED
    BY <1>1, <1>2

LEMMA DivideByteClosed ==
    ASSUME NEW w \in SUBSET (0..15), NEW byte, NEW F \in SUBSET (0..7), Running(Data(w, byte), F)
    PROVE  DivideByte(w, byte) = Partial(w, F, 8)
  <1>0. Divide(w, byte, 0) = Partial(w, F, 1)
    BY PartialStart, PartialStep
  <1>1. Divide(Partial(w, F, 1), byte, 1) = Partial(w, F, 2)
    BY PartialStep
  <1>2. Divide(Partial(w, F, 2), byte, 2) = Partial(w, F, 3)
    BY PartialStep
  <1>3. Divide(Partial(w, F, 3), byte, 3) = Partial(w, F, 4)
    BY PartialStep
  <1>4. Divide(Partial(w, F, 4), byte, 4) = Partial(w, F, 5)
    BY PartialStep
  <1>5. Divide(Partial(w, F, 5), byte, 5) = Partial(w, F, 6)
    BY PartialStep
  <1>6. Divide(Partial(w, F, 6), byte, 6) = Partial(w, F, 7)
    BY PartialStep
  <1>7. Divide(Partial(w, F, 7), byte, 7) = Partial(w, F, 8)
    BY PartialStep
  <1> QED
    BY <1>0, <1>1, <1>2, <1>3, <1>4, <1>5, <1>6, <1>7, Zenon DEF DivideByte

----------------------------------------------------------------------------
(* The table: a nibble is in op when its parity is odd, so the two nibbles *)
(* of a byte differ there when the parity of the byte is odd.              *)

LEMMA SameNibble ==
    ASSUME NEW n \in SUBSET (0..3), NEW m \in SUBSET (0..3)
    PROVE  n = m <=> /\ 0 \in n <=> 0 \in m
                     /\ 1 \in n <=> 1 \in m
                     /\ 2 \in n <=> 2 \in m
                     /\ 3 \in n <=> 3 \in m
  <1>1. ASSUME 0 \in n <=> 0 \in m, 1 \in n <=> 1 \in m, 2 \in n <=> 2 \in m, 3 \in n <=> 3 \in m
        PROVE  n = m
    <2>1. \A j \in 0..3 : j \in n <=> j \in m
      BY <1>1
    <2> QED
      BY <2>1, Zenon
  <1> QED
    BY <1>1, Zenon

LEMMA Nibble ==
    ASSUME NEW n \in SUBSET (0..3)
    PROVE  n \in op <=> ~((0 \in n <=> 1 \in n) <=> (2 \in n <=> 3 \in n))
  <1> DEFINE Same(m) == /\ 0 \in n <=> 0 \in m
                        /\ 1 \in n <=> 1 \in m
                        /\ 2 \in n <=> 2 \in m
                        /\ 3 \in n <=> 3 \in m
  <1>1. \A m \in op : m \in SUBSET (0..3)
    BY DEF op
  <1>2. \A m \in op : n = m <=> Same(m)
    BY <1>1, SameNibble, Zenon
  <1>3. n \in op <=> \E m \in op : Same(m)
    BY <1>2, Zenon
  <1>4. (\E m \in op : Same(m)) <=> \/ Same({0}) \/ Same({1}) \/ Same({2}) \/ Same({0, 1, 2}) \/ Same({3})
                                    \/ Same({0, 1, 3}) \/ Same({0, 2, 3}) \/ Same({1, 2, 3})
    <2> HIDE DEF Same
    <2> QED
      BY Zenon DEF op
  <1> QED
    BY <1>3, <1>4

LEMMA TableIsParity ==
    ASSUME NEW data \in SUBSET (0..7), NEW F, Running(data, F)
    PROVE  (data \cap Bits(4) \in op <=> Right(data, 4) \in op) <=> 7 \notin F
  <1> DEFINE low == data \cap Bits(4)
             high == Right(data, 4)
  <1>1. low \in SUBSET (0..3) /\ \A j \in 0..3 : j \in low <=> j \in data
    BY DEF Bits
  <1>2. high \in SUBSET (0..3) /\ \A j \in 0..3 : j \in high <=> j + 4 \in data
    BY InRight
  <1> HIDE DEF low, high
  <1>3. low \in op <=> ~((0 \in data <=> 1 \in data) <=> (2 \in data <=> 3 \in data))
    BY <1>1, Nibble
  <1>4. high \in op <=> ~((4 \in data <=> 5 \in data) <=> (6 \in data <=> 7 \in data))
    BY <1>2, Nibble
  <1>5. /\ 0 \in F <=> 0 \in data
        /\ 1 \in F <=> ~(1 \in data <=> 0 \in F)
        /\ 2 \in F <=> ~(2 \in data <=> 1 \in F)
        /\ 3 \in F <=> ~(3 \in data <=> 2 \in F)
    BY DEF Running
  <1>6. /\ 4 \in F <=> ~(4 \in data <=> 3 \in F)
        /\ 5 \in F <=> ~(5 \in data <=> 4 \in F)
        /\ 6 \in F <=> ~(6 \in data <=> 5 \in F)
        /\ 7 \in F <=> ~(7 \in data <=> 6 \in F)
    BY DEF Running
  <1>7. (low \in op <=> high \in op) <=> 7 \notin F
    BY <1>3, <1>4, <1>5, <1>6
  <1> QED
    BY <1>7 DEF low, high

(* crc16 bit by bit.                                                       *)
LEMMA InCrc16 ==
    ASSUME NEW w \in SUBSET (0..15), NEW byte \in SUBSET (0..7), NEW F,
           Running(Data(w, byte), F), NEW i \in 0..31
    PROVE  i \in crc16(w, byte) <=>
             ~( ~(i + 8 \in w <=> (7 \in F /\ i \in {0, 14, 15}))
                <=> ~(i - 6 \in Data(w, byte) <=> i - 7 \in Data(w, byte)))
  <1> DEFINE data == Data(w, byte)
             even == data \cap Bits(4) \in op <=> Right(data, 4) \in op
             shifted == IF even THEN Right(w, 8) ELSE Xor(Right(w, 8), {0, 14, 15})
  <1>0. data \in SUBSET (0..7)
    BY DEF Data, Bits
  <1>1. even <=> 7 \notin F
    <2> HIDE DEF data
    <2> QED
      BY <1>0, TableIsParity DEF data
  <1>2. crc16(w, byte) = Xor(Xor(shifted, Left(data, 6)), Left(data, 7))
    BY Zenon DEF crc16, Data
  <1> HIDE DEF data, even
  <1>3. i \in shifted <=> ~(i + 8 \in w <=> (7 \in F /\ i \in {0, 14, 15}))
    <2>1. i \in Right(w, 8) <=> i + 8 \in w
      BY InRight
    <2>2. i \in Xor(Right(w, 8), {0, 14, 15}) <=> ~(i + 8 \in w <=> i \in {0, 14, 15})
      BY <2>1, InXor
    <2>3. CASE even
      BY <2>3, <2>1, <1>1, Zenon
    <2>4. CASE ~even
      BY <2>4, <2>2, <1>1, Zenon
    <2> QED
      BY <2>3, <2>4
  <1> HIDE DEF shifted
  <1>4. i \in Left(data, 6) <=> i - 6 \in data
    BY InLeft
  <1>5. i \in Left(data, 7) <=> i - 7 \in data
    BY InLeft
  <1>6. i \in Xor(Xor(shifted, Left(data, 6)), Left(data, 7)) <=>
             ~( ~(i + 8 \in w <=> (7 \in F /\ i \in {0, 14, 15})) <=> ~(i - 6 \in data <=> i - 7 \in data))
    BY <1>3, <1>4, <1>5, InXor
  <1> QED
    BY <1>2, <1>6, Zenon DEF data

LEMMA Crc16Word ==
    ASSUME NEW w \in SUBSET (0..15), NEW byte \in SUBSET (0..7)
    PROVE  crc16(w, byte) \subseteq 0..15
  <1> DEFINE data == Data(w, byte)
             even == data \cap Bits(4) \in op <=> Right(data, 4) \in op
             shifted == IF even THEN Right(w, 8) ELSE Xor(Right(w, 8), {0, 14, 15})
  <1>0. data \in SUBSET (0..7)
    BY DEF Data, Bits
  <1>1. crc16(w, byte) = Xor(Xor(shifted, Left(data, 6)), Left(data, 7))
    BY Zenon DEF crc16, Data
  <1> HIDE DEF data, even
  <1>2. shifted \subseteq 0..15
    BY InXor, InRight
  <1> HIDE DEF shifted
  <1>3. Left(data, 6) \subseteq 0..15 /\ Left(data, 7) \subseteq 0..15
    BY <1>0, InLeft
  <1>4. Xor(shifted, Left(data, 6)) \subseteq 0..15
    BY <1>2, <1>3, Zenon DEF Xor, SymDiff
  <1>5. Xor(Xor(shifted, Left(data, 6)), Left(data, 7)) \subseteq 0..15
    BY <1>3, <1>4, Zenon DEF Xor, SymDiff
  <1> QED
    BY <1>1, <1>5, Zenon

(* The table-driven step is eight divisions, for every register and byte.  *)
LEMMA Crc16Divides ==
    ASSUME NEW w \in SUBSET (0..15), NEW byte \in SUBSET (0..7)
    PROVE  crc16(w, byte) = DivideByte(w, byte)
  <1>1. PICK F : F \subseteq 0..7 /\ Running(Data(w, byte), F)
    BY ParityExists, Zenon
  <1>2. \A i \in 0..15 : i \in crc16(w, byte) <=> i \in Partial(w, F, 8)
    <2> TAKE i \in 0..15
    <2> DEFINE data == Data(w, byte)
    <2>0. data \subseteq 0..7
      BY DEF Data, Bits
    <2>1. i \in crc16(w, byte) <=>
             ~( ~(i + 8 \in w <=> (7 \in F /\ i \in {0, 14, 15})) <=> ~(i - 6 \in data <=> i - 7 \in data))
      BY <1>1, InCrc16
    <2>2. i \in Partial(w, F, 8) <=>
             ~( ~(i + 8 \in w <=> (i - 16 + 8 <= 8 - 1 /\ i - 16 + 8 \in F))
                <=> ~((i - 14 + 8 <= 8 - 1 /\ i - 14 + 8 \in F) <=> (i = 0 /\ 8 - 1 \in F)))
      BY <1>1, InPartial
    <2>3. i \in Partial(w, F, 8) <=>
             ~( ~(i + 8 \in w <=> i - 8 \in F) <=> ~((i # 14 /\ i - 6 \in F) <=> (i = 0 /\ 7 \in F)))
      BY <1>1, <2>2
    <2>4. \A j \in 0..7 : (j \in F) <=> ~(j \in data <=> (j > 0 /\ j - 1 \in F))
      BY <1>1 DEF Running
    <2> HIDE DEF data
    <2>5. CASE i <= 6
      BY <1>1, <2>5, <2>0, <2>1, <2>3, <2>4
    <2>6. CASE i \in 7..13
      <3>1. i - 6 \in F <=> ~(i - 6 \in data <=> i - 7 \in F)
        BY <2>4, <2>6
      <3>2. i - 7 \in F <=> ~(i - 7 \in data <=> i - 8 \in F)
        BY <1>1, <2>4, <2>6
      <3> QED
        BY <1>1, <2>6, <2>1, <2>3, <3>1, <3>2
    <2>7. CASE i = 14
      BY <1>1, <2>7, <2>0, <2>1, <2>3, <2>4
    <2>8. CASE i = 15
      BY <1>1, <2>8, <2>0, <2>1, <2>3
    <2> QED
      BY <2>5, <2>6, <2>7, <2>8
  <1>3. Partial(w, F, 8) \subseteq 0..15
    <2>1. 8 \in 0..8
      OBVIOUS
    <2> QED
      BY <1>1, <2>1, PartialWord, Zenon
  <1>4. crc16(w, byte) = Partial(w, F, 8)
    BY <1>2, <1>3, Crc16Word
  <1> QED
    BY <1>1, <1>4, DivideByteClosed, Zenon

----------------------------------------------------------------------------
(* The trailer.                                                            *)

(* A byte equal to the low half of the register shifts that half out.      *)
LEMMA Crc16ShiftsOut ==
    ASSUME NEW w \in SUBSET (0..15)
    PROVE  crc16(w, w \cap Bits(8)) = Right(w, 8)
  <1> DEFINE data == Xor(w \cap Bits(8), w) \cap Bits(8)
  <1>1. data = {}
    BY InXor
  <1>2. Right(data, 4) = {} /\ data \cap Bits(4) = {}
    BY <1>1, InRight
  <1>3. Left(data, 6) = {} /\ Left(data, 7) = {}
    BY <1>1, InLeft
  <1>4. Xor(Xor(Right(w, 8), {}), {}) = Right(w, 8)
    BY DEF Xor, SymDiff
  <1> HIDE DEF data
  <1> QED
    BY <1>2, <1>3, <1>4, Zenon DEF crc16, data

LEMMA TrailerCancels ==
    ASSUME NEW w \in SUBSET (0..15), NEW t, t = Trailer(w)
    PROVE  crc16(crc16(crc16(crc16(w, t[1]), t[2]), t[3]), t[4]) = {}
  <1>1. t[1] = w \cap Bits(8) /\ t[2] = Right(w, 8) /\ t[3] = {} /\ t[4] = {}
    BY DEF Trailer
  <1>2. crc16(w, t[1]) = Right(w, 8)
    BY <1>1, Crc16ShiftsOut
  <1>3. Right(w, 8) \in SUBSET (0..15) /\ Right(w, 8) \cap Bits(8) = Right(w, 8)
    BY InRight DEF Bits
  <1>4. Right(Right(w, 8), 8) = {}
    BY InRight
  <1>5. crc16(Right(w, 8), t[2]) = {}
    BY <1>1, <1>3, <1>4, Crc16ShiftsOut, Zenon
  <1>6. {} \in SUBSET (0..15) /\ {} \cap Bits(8) = {} /\ Right({}, 8) = {}
    BY InRight
  <1>7. crc16({}, {}) = {}
    BY <1>6, Crc16ShiftsOut, Zenon
  <1> QED
    BY <1>1, <1>2, <1>5, <1>7, Zenon

----------------------------------------------------------------------------
(* Stations.                                                               *)

LEMMA ShiftedOne == ASSUME NEW s \in 0..31 PROVE Left({0}, s) = {s}
  BY InLeft

LEMMA StationsFinite ==
    ASSUME NEW map \in SUBSET (0..15)
    PROVE  IsFiniteSet(map) /\ Cardinality(map) \in 0..16
  <1>1. IsFiniteSet(0..15) /\ Cardinality(0..15) = 16
    <2>1. /\ IsFiniteSet(0..15)
          /\ Cardinality(0..15) = IF 0 > 15 THEN 0 ELSE 15 - 0 + 1
      BY FS_Interval, 0 \in Int, 15 \in Int, Zenon
    <2> QED
      BY <2>1
  <1>2. IsFiniteSet(map) /\ Cardinality(map) <= Cardinality(0..15)
    BY <1>1, FS_Subset, Zenon
  <1>3. Cardinality(map) \in Nat
    BY <1>2, FS_CardinalityType
  <1> QED
    BY <1>1, <1>2, <1>3

LEMMA DetectedAreCounted ==
    ASSUME NEW map \in SUBSET (0..15)
    PROVE  SnsDetectedCount(map) = Cardinality(map)
  <1>1. \A i \in 0..15 : Left({0}, i) \cap map # {} <=> i \in map
    BY ShiftedOne
  <1>2. Bits(SENSORS_PER_SEU) = 0..15
    BY DEF Bits, SENSORS_PER_SEU
  <1>3. {i \in Bits(SENSORS_PER_SEU) : Left({0}, i) \cap map # {}} = map
    BY <1>1, <1>2, Zenon
  <1> QED
    BY <1>3, Zenon DEF SnsDetectedCount

LEMMA LowestBit ==
    ASSUME NEW w \in SUBSET (0..15), w # {}
    PROVE  Min(w) \in w /\ \A y \in w : Min(w) <= y
  <1> DEFINE less == OpToRel(<, Nat)
  <1>1. w \subseteq Nat
    OBVIOUS
  <1>2. \E x \in w : \A y \in w : ~ <<y, x>> \in less
    BY <1>1, NatLessThanWellFounded, WFMin, Zenon
  <1>3. \A x, y \in Nat : <<y, x>> \in less <=> y < x
    BY DEF OpToRel
  <1> HIDE DEF less
  <1>4. \E x \in w : \A y \in w : x <= y
    BY <1>1, <1>2, <1>3
  <1> QED
    BY <1>4, Zenon DEF Min

(* v &= v - 1 takes one bit away.                                          *)
LEMMA OneBitLess ==
    ASSUME NEW w \in SUBSET (0..15), w # {}
    PROVE  /\ w \cap Decrement(w) \in SUBSET (0..15)
           /\ Cardinality(w \cap Decrement(w)) = Cardinality(w) - 1
  <1> DEFINE lowest == Min(w)
  <1>1. lowest \in w /\ \A y \in w : lowest <= y
    BY LowestBit, Zenon
  <1>2. Decrement(w) = (w \ {lowest}) \cup 0..(lowest - 1)
    BY DEF Decrement, Bits
  <1> HIDE DEF lowest
  <1>3. w \cap Decrement(w) = w \ {lowest}
    BY <1>1, <1>2
  <1>4. Cardinality(w \ {lowest}) = Cardinality(w) - 1
    BY <1>1, StationsFinite, FS_RemoveElement
  <1> QED
    BY <1>3, <1>4

----------------------------------------------------------------------------
(* The invariant: what each job has done so far.                           *)

Sized    == /\ job = "fill" => szpay = 0
            /\ job \in {"fill", "prepare"} => size = CommandHeader + CRC_BYTES + szpay
Counting == /\ sensor_count = Cardinality(sensor_map)
            /\ job = "count" => c + Cardinality(v) = sensor_count
            /\ job = "counted" => c = sensor_count

WInv == TypeOK /\ ChecksumIsCrc /\ Sized /\ SizeEndsFrame /\ Counting

LEMMA Words == Bits(8) = 0..7 /\ Bits(16) = 0..15 /\ Bits(32) = 0..31
  BY DEF Bits

LEMMA InitialWire == Init => WInv
  <1> SUFFICES ASSUME Init PROVE WInv
    OBVIOUS
  <1>1. TypeOK
    BY DEF Init, TypeOK, CommandHeader, CRC_BYTES, SENSORS_PER_SEU
  <1>2. ChecksumIsCrc /\ Sized /\ SizeEndsFrame
    BY DEF Init, ChecksumIsCrc, Sized, SizeEndsFrame
  <1>3. Counting
    BY FS_EmptySet DEF Init, Counting
  <1> QED
    BY <1>1, <1>2, <1>3 DEF WInv

LEMMA WireKept == WInv /\ [Next]_vars => WInv'
  <1> SUFFICES ASSUME WInv, [Next]_vars PROVE WInv'
    OBVIOUS
  <1> USE DEF crcVars, frameVars, commandVars
  <1>1. CASE CalcCRC_Bytes
    <2>1. PICK byte \in Bytes : crc' = crc16(crc, byte) /\ serial' = DivideByte(serial, byte)
      BY <1>1 DEF CalcCRC_Bytes
    <2>2. byte \in SUBSET (0..7) /\ crc \in SUBSET (0..15) /\ crc = serial
      BY <2>1, Words DEF WInv, TypeOK, ChecksumIsCrc
    <2>3. crc' = serial' /\ crc' \subseteq 0..15
      BY <2>1, <2>2, Crc16Divides, Crc16Word, Zenon
    <2>4. read' \in 0..MaxBytes
      BY <1>1 DEF CalcCRC_Bytes, WInv, TypeOK
    <2>5. UNCHANGED <<job, frameVars, commandVars>>
      BY <1>1 DEF CalcCRC_Bytes
    <2>6. TypeOK'
      BY <2>3, <2>4, <2>5, Words DEF WInv, TypeOK
    <2> QED
      BY <2>3, <2>5, <2>6 DEF WInv, ChecksumIsCrc, Sized, SizeEndsFrame, Counting
  <1>2. CASE AddRecord
    <2>1. PICK s \in StationNumbers : /\ sensor_map \cap Left({0}, s) = {}
                                      /\ sensor_map' = sensor_map \cup Left({0}, s)
      BY <1>2 DEF AddRecord
    <2>2. s \in 0..15 /\ Left({0}, s) = {s}
      BY Words, ShiftedOne
    <2>3. sensor_map \in SUBSET (0..15) /\ s \notin sensor_map /\ sensor_map' = sensor_map \cup {s}
      BY <2>1, <2>2, Words DEF WInv, TypeOK
    <2>4. sensor_map' \in SUBSET (0..15)
      BY <2>2, <2>3
    <2>5. Cardinality(sensor_map') = Cardinality(sensor_map) + 1
      BY <2>3, StationsFinite, FS_AddElement
    <2>6. /\ job = "frame" /\ sensor_count' = sensor_count + 1
          /\ UNCHANGED <<job, v, c, crcVars, commandVars>>
      BY <1>2 DEF AddRecord
    <2>7. sensor_count' = Cardinality(sensor_map')
      BY <2>5, <2>6 DEF WInv, Counting
    <2>8. sensor_count' \in 0..SENSORS_PER_SEU
      BY <2>4, <2>7, StationsFinite DEF SENSORS_PER_SEU
    <2>9. TypeOK'
      BY <2>4, <2>6, <2>8, Words DEF WInv, TypeOK
    <2> QED
      BY <2>6, <2>7, <2>9 DEF WInv, ChecksumIsCrc, Sized, SizeEndsFrame, Counting
  <1>3. CASE StartCount
    <2>1. TypeOK'
      BY <1>3 DEF StartCount, WInv, TypeOK, SENSORS_PER_SEU
    <2>2. sensor_map \in SUBSET (0..15)
      BY Words DEF WInv, TypeOK
    <2>3. Counting'
      BY <1>3, <2>2, StationsFinite DEF StartCount, WInv, Counting
    <2> QED
      BY <1>3, <2>1, <2>3 DEF StartCount, WInv, ChecksumIsCrc, Sized, SizeEndsFrame
  <1>4. CASE CountBit
    <2>1. v \in SUBSET (0..15) /\ v # {} /\ v' = v \cap Decrement(v)
      BY <1>4, Words DEF CountBit, WInv, TypeOK
    <2>2. v' \in SUBSET (0..15) /\ Cardinality(v') = Cardinality(v) - 1
      BY <2>1, OneBitLess
    <2>3. Cardinality(v') \in 0..16 /\ Cardinality(v) \in 0..16
      BY <2>1, <2>2, StationsFinite
    <2>4. /\ job = "count" /\ c' = c + 1
          /\ UNCHANGED <<job, sensor_count, sensor_map, crcVars, commandVars>>
      BY <1>4 DEF CountBit
    <2>5. c \in 0..SENSORS_PER_SEU /\ sensor_count \in 0..SENSORS_PER_SEU
      BY DEF WInv, TypeOK
    <2>6. c' + Cardinality(v') = sensor_count
      BY <2>2, <2>3, <2>4, <2>5 DEF WInv, Counting, SENSORS_PER_SEU
    <2>7. c' \in 0..SENSORS_PER_SEU
      BY <2>3, <2>4, <2>5, <2>6 DEF SENSORS_PER_SEU
    <2>8. TypeOK'
      BY <2>2, <2>4, <2>7, Words DEF WInv, TypeOK
    <2> QED
      BY <2>4, <2>6, <2>8 DEF WInv, ChecksumIsCrc, Sized, SizeEndsFrame, Counting
  <1>5. CASE CountEnds
    <2>1. c = sensor_count
      BY <1>5, FS_EmptySet DEF CountEnds, WInv, Counting, TypeOK, SENSORS_PER_SEU
    <2>2. TypeOK'
      BY <1>5 DEF CountEnds, WInv, TypeOK
    <2> QED
      BY <1>5, <2>1, <2>2 DEF CountEnds, WInv, ChecksumIsCrc, Sized, SizeEndsFrame, Counting
  <1>6. CASE \E act \in {"SET", "GET", "RESET"}, szp \in Payloads : Fill(act, szp)
    <2>1. PICK act \in {"SET", "GET", "RESET"}, szp \in Payloads : Fill(act, szp)
      BY <1>6
    <2>0. szp \in Nat /\ size = CommandHeader + CRC_BYTES + szpay /\ szpay = 0 /\ size \in Nat
      BY <2>1 DEF Fill, WInv, TypeOK, Sized
    <2>2. size' \in Nat /\ szpay' \in Nat
      BY <2>0, <2>1 DEF Fill
    <2>3. TypeOK'
      BY <2>1, <2>2 DEF Fill, WInv, TypeOK
    <2>4. Sized'
      <3>1. CASE act = "SET"
        BY <3>1, <2>0, <2>1 DEF Fill, Sized, CommandHeader, CRC_BYTES
      <3>2. CASE act # "SET"
        BY <3>2, <2>0, <2>1 DEF Fill, Sized, CommandHeader, CRC_BYTES
      <3> QED
        BY <3>1, <3>2
    <2> QED
      BY <2>1, <2>3, <2>4 DEF Fill, WInv, ChecksumIsCrc, SizeEndsFrame, Counting
  <1>7. CASE Prepare
    <2>1. TypeOK' /\ Sized' /\ SizeEndsFrame'
      BY <1>7 DEF Prepare, WInv, TypeOK, Sized, SizeEndsFrame, FullHeader, FrameHeader, CommandHeader,
                  CRC_BYTES
    <2> QED
      BY <1>7, <2>1 DEF Prepare, WInv, ChecksumIsCrc, Counting
  <1>8. CASE UNCHANGED vars
    BY <1>8 DEF vars, WInv, TypeOK, ChecksumIsCrc, Sized, SizeEndsFrame, Counting
  <1> QED
    BY <1>1, <1>2, <1>3, <1>4, <1>5, <1>6, <1>7, <1>8 DEF Next

THEOREM WireInvariant == Spec => []WInv
  BY InitialWire, WireKept, PTL DEF Spec

LEMMA Shown == WInv => TrailerChecks /\ CountsAgree
  <1> SUFFICES ASSUME WInv PROVE TrailerChecks /\ CountsAgree
    OBVIOUS
  <1>1. crc \in SUBSET (0..15) /\ sensor_map \in SUBSET (0..15)
    BY Words DEF WInv, TypeOK
  <1>2. TrailerChecks
    BY <1>1, TrailerCancels, Zenon DEF TrailerChecks
  <1>3. CountsAgree
    BY <1>1, DetectedAreCounted DEF WInv, Counting, CountsAgree
  <1> QED
    BY <1>2, <1>3

----------------------------------------------------------------------------
(* Every variable keeps its type; in particular the checksum never leaves  *)
(* its sixteen bits, and the loop of count_bits ends within sixteen.       *)
THEOREM TypeCorrect == Spec => []TypeOK
  BY WireInvariant, PTL DEF WInv

(* crc16 computes the remainder of the division, on every message of       *)
(* CalcCRC_Bytes, of any bytes and any length.                             *)
THEOREM ChecksumCorrect == Spec => []ChecksumIsCrc
  BY WireInvariant, PTL DEF WInv

(* The checksum of any message followed by the trailer Prepare gives it is *)
(* zero.                                                                   *)
THEOREM TrailerCorrect == Spec => []TrailerChecks
  BY WireInvariant, Shown, PTL

(* The size in the header of a prepared command is that of what follows.   *)
THEOREM SizeCorrect == Spec => []SizeEndsFrame
  BY WireInvariant, PTL DEF WInv

(* SensorMap's records, count_bits and CountDetected agree on the number   *)
(* of stations, for any set of them.                                       *)
THEOREM CountsCorrect == Spec => []CountsAgree
  BY WireInvariant, Shown, PTL

=============================================================================
