------------------------ MODULE ProtobufWire_proofs -------------------------
(***************************************************************************)
(* Proofs about ProtobufWire: what the readers make of the bytes of the    *)
(* writers, for every word of the width of the type.                       *)
(***************************************************************************)
EXTENDS ProtobufWire, Words_proofs

-----------------------------------------------------------------------------
(* Zigzag and fixed numbers. *)

\* Zigzag at any width, and its inverse.
Zigzag(v, width) == IF width - 1 \in v THEN Bits(width) \ Shl(v, 1, width) ELSE Shl(v, 1, width)
Unzigzag(v, width) == IF 0 \in v THEN Bits(width) \ Shr(v, 1) ELSE Shr(v, 1)

\* The lowest bit says which of the others are complemented, at any width.
LEMMA ZigzagBack ==
    ASSUME NEW width \in Nat \ {0}, NEW v \in SUBSET Bits(width)
    PROVE  Unzigzag(Zigzag(v, width), width) = v
<1> DEFINE w == Shl(v, 1, width)
           z == Zigzag(v, width)
           x == Shr(z, 1)
<1>1. v \in SUBSET Nat /\ \A i \in Nat : i \in v => i < width
  BY DEF Bits
<1>2. w \in SUBSET Bits(width) /\ \A i \in Nat : i \in w <=> i < width /\ i >= 1 /\ i - 1 \in v
  BY <1>1, 1 \in Nat, ShlBits
<1>3. z = IF width - 1 \in v THEN Bits(width) \ w ELSE w
  BY DEF Zigzag
<1> HIDE DEF w, z
<1>4. z \in SUBSET Nat
  BY <1>2, <1>3 DEF Bits
<1>5. x \in SUBSET Nat /\ \A i \in Nat : i \in x <=> i + 1 \in z
  BY <1>4, 1 \in Nat, ShrBits
<1> HIDE DEF x
<1>6. 0 \in z <=> width - 1 \in v
  BY <1>2, <1>3 DEF Bits
<1>7. \A i \in Nat : i \in Bits(width) <=> i < width
  BY DEF Bits
<1>8. \A i \in Nat : i + 1 < width => (i \in x <=> (i \in v <=> width - 1 \notin v))
  BY <1>2, <1>3, <1>5, <1>7
<1>9. \A i \in Nat : i + 1 >= width => i \notin x
  BY <1>2, <1>3, <1>5, <1>7
<1>10. \A i \in Nat : i \in v <=> i \in (IF 0 \in z THEN Bits(width) \ x ELSE x)
  BY <1>1, <1>6, <1>7, <1>8, <1>9
<1>11. Unzigzag(z, width) = IF 0 \in z THEN Bits(width) \ x ELSE x
  BY DEF Unzigzag, x
<1>12. (IF 0 \in z THEN Bits(width) \ x ELSE x) \in SUBSET Nat
  BY <1>5 DEF Bits
<1> QED
  BY <1>1, <1>10, <1>11, <1>12, Zenon DEF z

\* unzigzag32 and unzigzag64 undo zigzag32 and zigzag64.
THEOREM ZigzagRoundTrip ==
    /\ \A v \in SUBSET Bits(32) : unzigzag32(zigzag32(v)) = v
    /\ \A v \in SUBSET Bits(64) : unzigzag64(zigzag64(v)) = v
<1>1. 32 \in Nat \ {0} /\ 64 \in Nat \ {0} /\ 32 - 1 = 31 /\ 64 - 1 = 63
  OBVIOUS
<1>2. \A v : /\ zigzag32(v) = Zigzag(v, 32) /\ unzigzag32(v) = Unzigzag(v, 32)
             /\ zigzag64(v) = Zigzag(v, 64) /\ unzigzag64(v) = Unzigzag(v, 64)
  BY <1>1, ZenonT(30) DEF zigzag32, unzigzag32, zigzag64, unzigzag64, Zigzag, Unzigzag
<1> QED
  BY <1>1, <1>2, ZigzagBack, Zenon

\* Octet k of v, and the octets put together.
Octets(v, n) == [k \in 1..n |-> Low(Shr(v, 8 * (k - 1)), 8)]
FromOctets(d, n) == UNION {Shl(d[k], 8 * (k - 1), 8 * n) : k \in 1..n}

\* The octets of a word, put together, are the word.
LEMMA OctetsBack ==
    ASSUME NEW n \in Nat, NEW v \in SUBSET Bits(8 * n)
    PROVE  FromOctets(Octets(v, n), n) = v
<1> DEFINE d == Octets(v, n)
           w == FromOctets(d, n)
<1>1. v \in SUBSET Nat /\ \A i \in v : i < 8 * n
  BY DEF Bits
<1>2. \A k \in 1..n : /\ d[k] \in SUBSET Nat
                      /\ \A i \in Nat : i \in d[k] <=> i < 8 /\ i + 8 * (k - 1) \in v
  <2> SUFFICES ASSUME NEW k \in 1..n
               PROVE  /\ d[k] \in SUBSET Nat
                      /\ \A i \in Nat : i \in d[k] <=> i < 8 /\ i + 8 * (k - 1) \in v
    OBVIOUS
  <2>1. d[k] = Low(Shr(v, 8 * (k - 1)), 8)
    BY DEF Octets
  <2>2. 8 * (k - 1) \in Nat
    OBVIOUS
  <2> DEFINE s == Shr(v, 8 * (k - 1))
  <2>3. s \in SUBSET Nat /\ \A i \in Nat : i \in s <=> i + 8 * (k - 1) \in v
    BY <1>1, <2>2, ShrBits
  <2> HIDE DEF s
  <2>4. d[k] = s \cap Bits(8)
    BY <2>1 DEF Low, s
  <2> HIDE DEF d
  <2> QED
    BY <2>3, <2>4 DEF Bits
<1> HIDE DEF d
<1>3. \A k \in 1..n : \A i \in Nat : i \in Shl(d[k], 8 * (k - 1), 8 * n) <=>
            i < 8 * n /\ i >= 8 * (k - 1) /\ i - 8 * (k - 1) \in d[k]
  <2> SUFFICES ASSUME NEW k \in 1..n
               PROVE  \A i \in Nat : i \in Shl(d[k], 8 * (k - 1), 8 * n) <=>
                        i < 8 * n /\ i >= 8 * (k - 1) /\ i - 8 * (k - 1) \in d[k]
    OBVIOUS
  <2>1. 8 * (k - 1) \in Nat /\ 8 * n \in Nat /\ d[k] \in SUBSET Nat
    BY <1>2
  <2> QED
    BY <2>1, ShlBits
<1>4. \A i : i \in w <=> \E k \in 1..n : i \in Shl(d[k], 8 * (k - 1), 8 * n)
  BY Zenon DEF FromOctets
<1>5. w \in SUBSET Nat
  <2>1. \A k \in 1..n : Shl(d[k], 8 * (k - 1), 8 * n) \subseteq Nat
    BY DEF Shl, Bits
  <2> QED
    BY <1>4, <2>1, Zenon
<1> HIDE DEF w
<1>6. \A i \in Nat : i \in w <=> i \in v
  <2> SUFFICES ASSUME NEW i \in Nat PROVE i \in w <=> i \in v
    OBVIOUS
  <2>1. ASSUME i \in w PROVE i \in v
    <3>1. PICK k \in 1..n : i \in Shl(d[k], 8 * (k - 1), 8 * n)
      BY <1>4, <2>1
    <3>2. i - 8 * (k - 1) \in Nat /\ i - 8 * (k - 1) \in d[k]
      BY <1>3, <3>1
    <3>3. (i - 8 * (k - 1)) + 8 * (k - 1) \in v
      BY <1>2, <3>2
    <3> QED
      BY <3>3
  <2>2. ASSUME i \in v PROVE i \in w
    <3> DEFINE k == (i \div 8) + 1
    <3>1. k \in 1..n /\ i < 8 * n /\ i - 8 * (k - 1) \in 0..7
      BY <1>1, <2>2
    <3> HIDE DEF k
    <3>2. i - 8 * (k - 1) < 8 /\ (i - 8 * (k - 1)) + 8 * (k - 1) = i /\ i >= 8 * (k - 1)
          /\ i - 8 * (k - 1) \in Nat
      BY <3>1
    <3>3. i - 8 * (k - 1) \in d[k]
      BY <1>2, <2>2, <3>1, <3>2
    <3>4. i \in Shl(d[k], 8 * (k - 1), 8 * n)
      BY <1>3, <3>1, <3>2, <3>3
    <3> QED
      BY <1>4, <3>1, <3>4
  <2> QED
    BY <2>1, <2>2
<1> QED
  BY <1>1, <1>5, <1>6, Zenon DEF w, d

\* The fixed numbers are read as they were written.
THEOREM FixedRoundTrip ==
    /\ \A v \in SUBSET Bits(32) : parse_fixed_uint32(fixed32_pack(v)) = v
    /\ \A v \in SUBSET Bits(64) : parse_fixed_uint64(fixed64_pack(v)) = v
<1>1. 4 \in Nat /\ 8 \in Nat /\ 8 * 4 = 32 /\ 8 * 8 = 64
  OBVIOUS
<1>2. \A v : fixed32_pack(v) = Octets(v, 4) /\ fixed64_pack(v) = Octets(v, 8)
  BY Zenon DEF fixed32_pack, fixed64_pack, Octets
<1>3. \A d : parse_fixed_uint32(d) = FromOctets(d, 4) /\ parse_fixed_uint64(d) = FromOctets(d, 8)
  BY <1>1 DEF parse_fixed_uint32, parse_fixed_uint64, FromOctets
<1> QED
  BY <1>1, <1>2, <1>3, OctetsBack, Zenon

-----------------------------------------------------------------------------
(* Varints. *)

\* d spells v: seven bits of v in each byte, the lowest first, and the highest
\* bit set in every byte but the last.
Spells(d, v) ==
    /\ d \in Seq(Byte) /\ Len(d) \in 1..10
    /\ \A i \in v : i \in Nat /\ i < 7 * Len(d)
    /\ \A k \in 1..Len(d) :
          /\ 7 \in d[k] <=> k < Len(d)
          /\ \A j \in 0..6 : j \in d[k] <=> j + 7 * (k - 1) \in v

\* The seven-bit digits of what spells v, put together, are v, as far as it
\* fits the width.
LEMMA DigitsBack ==
    ASSUME NEW d, NEW v, Spells(d, v), NEW n \in Nat, n <= Len(d), NEW width \in Nat
    PROVE  /\ Digits7(d, n, width) \in SUBSET Nat
           /\ \A i \in Nat : i \in Digits7(d, n, width) <=> i < width /\ i < 7 * n /\ i \in v
<1> DEFINE w == Digits7(d, n, width)
           part(k) == Shl(d[k] \ {7}, 7 * (k - 1), width)
<1>1. /\ d \in Seq(Byte) /\ Len(d) \in 1..10
      /\ \A k \in 1..Len(d) : \A j \in 0..6 : j \in d[k] <=> j + 7 * (k - 1) \in v
  BY DEF Spells
<1>2. \A k \in 1..n : /\ part(k) \in SUBSET Nat
                      /\ \A i \in Nat : i \in part(k) <=>
                            i < width /\ i >= 7 * (k - 1) /\ i - 7 * (k - 1) \in d[k] \ {7}
  <2> SUFFICES ASSUME NEW k \in 1..n
               PROVE  /\ part(k) \in SUBSET Nat
                      /\ \A i \in Nat : i \in part(k) <=>
                            i < width /\ i >= 7 * (k - 1) /\ i - 7 * (k - 1) \in d[k] \ {7}
    OBVIOUS
  <2>1. k \in 1..Len(d) /\ 7 * (k - 1) \in Nat
    BY <1>1
  <2>2. d[k] \in Byte
    BY <1>1, <2>1
  <2> DEFINE e == d[k] \ {7}
  <2>3. e \in SUBSET Nat
    BY <2>2 DEF Byte, Bits
  <2> HIDE DEF e
  <2>4. /\ Shl(e, 7 * (k - 1), width) \in SUBSET Bits(width)
        /\ \A i \in Nat : i \in Shl(e, 7 * (k - 1), width) <=>
                i < width /\ i >= 7 * (k - 1) /\ i - 7 * (k - 1) \in e
    BY <2>1, <2>3, ShlBits
  <2>5. Bits(width) \subseteq Nat
    BY DEF Bits
  <2> QED
    BY <2>4, <2>5, Zenon DEF e
<1>3. \A k \in 1..n : \A j \in Nat : j \in d[k] \ {7} <=> j < 7 /\ j + 7 * (k - 1) \in v
  <2> SUFFICES ASSUME NEW k \in 1..n, NEW j \in Nat
               PROVE  j \in d[k] \ {7} <=> j < 7 /\ j + 7 * (k - 1) \in v
    OBVIOUS
  <2>1. k \in 1..Len(d)
    BY <1>1
  <2>2. d[k] \in Byte
    BY <1>1, <2>1
  <2>3. j \in d[k] => j < 8
    BY <2>2 DEF Byte, Bits
  <2>4. CASE j < 7
    <3>1. j \in 0..6
      BY <2>4
    <3>2. j \in d[k] <=> j + 7 * (k - 1) \in v
      BY <1>1, <2>1, <3>1, Zenon
    <3>3. j # 7
      BY <2>4
    <3> QED
      BY <2>4, <3>2, <3>3, Zenon
  <2>5. CASE ~(j < 7)
    BY <2>3, <2>5
  <2> QED
    BY <2>4, <2>5
<1>4. \A i : i \in w <=> \E k \in 1..n : i \in part(k)
  BY Zenon DEF Digits7
<1>5. w \in SUBSET Nat
  BY <1>2, <1>4, Zenon
<1> HIDE DEF w, part
<1>6. ASSUME NEW i \in Nat PROVE i \in w <=> i < width /\ i < 7 * n /\ i \in v
  <2>1. ASSUME i \in w PROVE i < width /\ i < 7 * n /\ i \in v
    <3>1. PICK k \in 1..n : i \in part(k)
      BY <1>4, <2>1
    <3>2. i < width /\ i >= 7 * (k - 1) /\ i - 7 * (k - 1) \in d[k] \ {7}
      BY <1>2, <3>1
    <3>3. i - 7 * (k - 1) \in Nat
      BY <3>2
    <3>4. i - 7 * (k - 1) < 7 /\ (i - 7 * (k - 1)) + 7 * (k - 1) \in v
      BY <1>3, <3>2, <3>3
    <3> QED
      BY <3>2, <3>4
  <2>2. ASSUME i < width, i < 7 * n, i \in v PROVE i \in w
    <3> DEFINE k == (i \div 7) + 1
    <3>1. k \in 1..n /\ i - 7 * (k - 1) \in 0..6
      BY <2>2
    <3> HIDE DEF k
    <3>2. /\ i - 7 * (k - 1) < 7 /\ (i - 7 * (k - 1)) + 7 * (k - 1) = i
          /\ i >= 7 * (k - 1) /\ i - 7 * (k - 1) \in Nat
      BY <3>1
    <3>3. i - 7 * (k - 1) \in d[k] \ {7}
      BY <1>3, <2>2, <3>1, <3>2
    <3>4. i \in part(k)
      BY <1>2, <2>2, <3>1, <3>2, <3>3
    <3> QED
      BY <1>4, <3>1, <3>4
  <2> QED
    BY <2>1, <2>2
<1> QED
  BY <1>5, <1>6 DEF w

\* All the digits of what spells a word of the width are the word.
LEMMA AllDigits ==
    ASSUME NEW width \in Nat, NEW v \in SUBSET Bits(width), NEW d, Spells(d, v)
    PROVE  Digits7(d, Len(d), width) = v
<1> DEFINE w == Digits7(d, Len(d), width)
<1>1. Len(d) \in Nat /\ Len(d) <= Len(d) /\ \A i \in v : i \in Nat /\ i < 7 * Len(d)
  BY DEF Spells
<1>2. w \in SUBSET Nat /\ \A i \in Nat : i \in w <=> i < width /\ i < 7 * Len(d) /\ i \in v
  BY <1>1, DigitsBack
<1>3. \A i \in v : i \in Nat /\ i < width
  BY DEF Bits
<1> HIDE DEF w
<1>4. \A i : i \in w <=> i \in v
  BY <1>1, <1>2, <1>3, Zenon
<1> QED
  BY <1>4 DEF w

\* Whatever follows it, the first byte without the highest bit is the last of
\* what spells v.
LEMMA FirstEnd ==
    ASSUME NEW d, NEW v, Spells(d, v), NEW rest \in Seq(Byte),
           NEW most \in Nat, Len(d) <= most
    PROVE  /\ Ends(d \o rest, most) # {}
           /\ Min(Ends(d \o rest, most)) = Len(d)
<1> DEFINE n == Len(d)
           e == d \o rest
           S == Ends(e, most)
           m == Min(S)
<1>1. /\ d \in Seq(Byte) /\ n \in 1..10 /\ n <= most
      /\ \A k \in 1..n : 7 \in d[k] <=> k < n
  BY DEF Spells
<1>2. /\ Len(e) \in Nat /\ n <= Len(e) /\ \A k \in 1..n : e[k] = d[k]
  BY <1>1
<1>3. S = {k \in 1..Len(e) : k <= most /\ 7 \notin e[k]}
  BY DEF Ends
<1> HIDE DEF S, e, n
<1>4. n \in S /\ \A k \in S : k \in Nat /\ k >= n
  <2>1. n \in 1..Len(e) /\ n \in 1..n /\ ~(n < n)
    BY <1>1, <1>2
  <2>2. n \in S
    BY <1>1, <1>2, <1>3, <2>1
  <2>3. ASSUME NEW k \in S PROVE k \in Nat /\ k >= n
    <3>1. k \in 1..Len(e) /\ 7 \notin e[k]
      BY <1>3
    <3>2. CASE k < n
      <4>1. k \in 1..n
        BY <1>1, <1>2, <3>1, <3>2
      <4>2. 7 \in e[k]
        BY <1>1, <1>2, <3>2, <4>1, Zenon
      <4> QED
        BY <3>1, <4>2
    <3> QED
      BY <1>1, <1>2, <3>1, <3>2
  <2> QED
    BY <2>2, <2>3
<1>5. m \in S /\ \A k \in S : m <= k
  <2>1. \A k \in S : n <= k
    BY <1>1, <1>4
  <2> QED
    BY <1>4, <2>1, Zenon DEF Min
<1> HIDE DEF m
<1>6. m = n /\ S # {}
  BY <1>1, <1>4, <1>5
<1> QED
  BY <1>6, Zenon DEF m, S, e, n

\* v in n bytes of seven bits spells v, when it fits.
LEMMA SevensSpell ==
    ASSUME NEW v \in SUBSET Nat, NEW n \in 1..10, \A i \in v : i < 7 * n
    PROVE  Spells(Sevens(v, n), v) /\ Len(Sevens(v, n)) = n
<1> DEFINE d == Sevens(v, n)
           s(k) == Shr(v, 7 * (k - 1))
<1>1. \A k \in 1..n : /\ s(k) \in SUBSET Nat
                      /\ \A j \in Nat : j \in s(k) <=> j + 7 * (k - 1) \in v
  <2> SUFFICES ASSUME NEW k \in 1..n
               PROVE  /\ s(k) \in SUBSET Nat
                      /\ \A j \in Nat : j \in s(k) <=> j + 7 * (k - 1) \in v
    OBVIOUS
  <2>1. 7 * (k - 1) \in Nat
    OBVIOUS
  <2> QED
    BY <2>1, ShrBits
<1>2. \A k \in 1..n : d[k] = IF k < n THEN (s(k) \cap Bits(7)) \cup {7} ELSE s(k)
  BY Zenon DEF Sevens, More, Low
<1>3. DOMAIN d = 1..n
  BY DEF Sevens
<1>4. d = [k \in 1..n |-> d[k]]
  BY DEF Sevens
<1> HIDE DEF s, d
<1>5. \A k \in 1..n : d[k] \in Byte /\ (7 \in d[k] <=> k < n)
  <2> SUFFICES ASSUME NEW k \in 1..n PROVE d[k] \in Byte /\ (7 \in d[k] <=> k < n)
    OBVIOUS
  <2>1. s(k) \in SUBSET Nat /\ \A j \in Nat : j \in s(k) <=> j + 7 * (k - 1) \in v
    BY <1>1
  <2>2. CASE k < n
    <3>1. d[k] = (s(k) \cap Bits(7)) \cup {7}
      BY <1>2, <2>2
    <3> QED
      BY <2>2, <3>1 DEF Byte, Bits
  <2>3. CASE ~(k < n)
    <3>1. d[k] = s(k) /\ k = n
      <4>1. k = n
        BY <2>3
      <4>2. d[k] = s(k)
        BY <1>2, <2>3, Zenon
      <4> QED
        BY <4>1, <4>2
    <3>2. \A j \in s(k) : j \in Nat /\ j < 7
      BY <2>1, <3>1
    <3>3. s(k) \subseteq Bits(8) /\ 7 \notin s(k)
      BY <3>2 DEF Bits
    <3> QED
      BY <2>3, <3>1, <3>3, Zenon DEF Byte
  <2> QED
    BY <2>2, <2>3
<1>6. \A k \in 1..n : \A j \in 0..6 : j \in d[k] <=> j + 7 * (k - 1) \in v
  <2> SUFFICES ASSUME NEW k \in 1..n, NEW j \in 0..6
               PROVE  j \in d[k] <=> j + 7 * (k - 1) \in v
    OBVIOUS
  <2>1. j \in s(k) <=> j + 7 * (k - 1) \in v
    BY <1>1
  <2>2. j \in Bits(7) /\ j # 7
    BY DEF Bits
  <2> QED
    BY <1>2, <2>1, <2>2, Zenon
<1>7. d \in Seq(Byte) /\ Len(d) = n
  <2>1. d \in [1..n -> Byte]
    BY <1>3, <1>4, <1>5
  <2> QED
    BY <2>1
<1>8. \A i \in v : i \in Nat /\ i < 7 * Len(d)
  BY <1>7
<1>9. Len(d) \in 1..10
  BY <1>7
<1>10. \A k \in 1..Len(d) : /\ 7 \in d[k] <=> k < Len(d)
                            /\ \A j \in 0..6 : j \in d[k] <=> j + 7 * (k - 1) \in v
  BY <1>5, <1>6, <1>7, Zenon
<1> QED
  BY <1>7, <1>8, <1>9, <1>10, Zenon DEF Spells, d

\* As many bytes as uint32_size says.
LEMMA DigitCount ==
    ASSUME NEW v \in SUBSET Bits(32), NEW m, m = Max({i \div 7 : i \in v} \cup {0})
    PROVE  /\ m \in 0..4 /\ \A i \in v : i < 7 * (m + 1)
           /\ uint32_size(v) = m + 1
<1> DEFINE S == {i \div 7 : i \in v} \cup {0}
<1>1. /\ \A i \in v : i \in 0..31
      /\ \A i \in v : i \div 7 \in S
      /\ \A x \in S : x = 0 \/ \E i \in v : x = i \div 7
      /\ 0 \in S
  BY DEF Bits
<1> HIDE DEF S
<1>2. S \subseteq 0..4
  BY <1>1
<1>3. \E x \in S : \A y \in S : x >= y
  BY <1>1, <1>2
<1>4. m \in S /\ \A y \in S : m >= y
  BY <1>3, Zenon DEF Max, S
<1>5. m \in 0..4
  BY <1>2, <1>4
<1>6. \A i \in v : i < 7 * (m + 1)
  BY <1>1, <1>4, <1>5
<1>7. m = 0 \/ \E i \in v : i >= 7 * m
  <2>1. ASSUME NEW i \in v, m = i \div 7 PROVE i >= 7 * m
    BY <1>1, <2>1
  <2> QED
    BY <1>1, <1>4, <2>1, Zenon
<1>8. \A k \in 1..4 : Below(v, 7 * k) <=> m < k
  <2> SUFFICES ASSUME NEW k \in 1..4 PROVE Below(v, 7 * k) <=> m < k
    OBVIOUS
  <2>1. Below(v, 7 * k) <=> \A i \in v : i < 7 * k
    BY <1>1 DEF Below, Bits
  <2>2. ASSUME m < k, NEW i \in v PROVE i < 7 * k
    <3>1. i \in Nat /\ i < 7 * (m + 1)
      BY <1>1, <1>6
    <3> QED
      BY <1>5, <2>2, <3>1
  <2>3. ASSUME ~(m < k) PROVE \E i \in v : ~(i < 7 * k)
    <3>1. PICK i \in v : i >= 7 * m
      <4>1. m # 0
        BY <1>5, <2>3
      <4> QED
        BY <1>7, <4>1, Zenon
    <3>2. ~(i < 7 * k)
      BY <1>1, <1>5, <2>3, <3>1
    <3> QED
      BY <3>2
  <2> QED
    BY <2>1, <2>2, <2>3, Zenon
<1>9. /\ Below(v, 7) <=> m < 1
      /\ Below(v, 14) <=> m < 2
      /\ Below(v, 21) <=> m < 3
      /\ Below(v, 28) <=> m < 4
  <2>1. 7 * 1 = 7 /\ 7 * 2 = 14 /\ 7 * 3 = 21 /\ 7 * 4 = 28
    OBVIOUS
  <2> QED
    BY <1>8, <2>1, 1 \in 1..4, 2 \in 1..4, 3 \in 1..4, 4 \in 1..4, Zenon
<1>10. uint32_size(v) = IF m < 1 THEN 1 ELSE IF m < 2 THEN 2 ELSE IF m < 3 THEN 3
                        ELSE IF m < 4 THEN 4 ELSE 5
  BY <1>9 DEF uint32_size
<1>11. uint32_size(v) = m + 1
  BY <1>5, <1>10
<1> QED
  BY <1>5, <1>6, <1>11

\* uint32_pack spells its word, in the bytes uint32_size counts.
LEMMA Uint32Spells ==
    ASSUME NEW v \in SUBSET Bits(32)
    PROVE  /\ Spells(uint32_pack(v), v)
           /\ Len(uint32_pack(v)) = uint32_size(v) /\ uint32_size(v) \in 1..5
<1> DEFINE m == Max({i \div 7 : i \in v} \cup {0})
           n == m + 1
<1>1. m \in 0..4 /\ (\A i \in v : i < 7 * (m + 1)) /\ uint32_size(v) = m + 1
  BY DigitCount
<1>2. uint32_pack(v) = Sevens(v, n)
  BY DEF uint32_pack
<1> HIDE DEF m
<1>3. n \in 1..10 /\ n \in 1..5 /\ (\A i \in v : i < 7 * n) /\ uint32_size(v) = n
  BY <1>1
<1>4. v \in SUBSET Nat
  BY DEF Bits
<1> HIDE DEF n
<1> QED
  BY <1>2, <1>3, <1>4, SevensSpell

\* A function on 1..n is a sequence.
LEMMA FunctionSeq ==
    ASSUME NEW n \in Nat, NEW S, NEW f \in [1..n -> S]
    PROVE  f \in Seq(S) /\ Len(f) = n
OBVIOUS

\* e is a and then b.
IsJoined(e, a, b) ==
    /\ e \in Seq(Byte) /\ Len(e) = Len(a) + Len(b)
    /\ \A k \in 1..Len(a) : e[k] = a[k]
    /\ \A k \in (Len(a) + 1)..(Len(a) + Len(b)) : e[k] = b[k - Len(a)]

\* Two sequences joined.
LEMMA Joined ==
    ASSUME NEW a \in Seq(Byte), NEW b \in Seq(Byte)
    PROVE  IsJoined(a \o b, a, b)
BY DEF IsJoined

\* The varint the input begins with.
FirstVarint(d) == SubSeq(d, 1, scan_varint(d))

\* Whatever follows it, what spells v is the first varint.
LEMMA FirstSpelled ==
    ASSUME NEW d, NEW v, Spells(d, v), NEW rest \in Seq(Byte)
    PROVE  FirstVarint(d \o rest) = d
<1>1. d \in Seq(Byte) /\ Len(d) \in 1..10 /\ Len(d) <= 10
  <2>1. d \in Seq(Byte) /\ Len(d) \in 1..10
    BY Zenon DEF Spells
  <2>2. \A m \in 1..10 : m <= 10
    OBVIOUS
  <2> QED
    BY <2>1, <2>2, Zenon
<1>2. Ends(d \o rest, 10) # {} /\ Min(Ends(d \o rest, 10)) = Len(d)
  BY <1>1, 10 \in Nat, FirstEnd
<1>3. scan_varint(d \o rest) = Len(d)
  BY <1>2, Zenon DEF scan_varint
<1>4. SubSeq(d \o rest, 1, Len(d)) = d
  BY <1>1
<1> QED
  BY <1>3, <1>4, Zenon DEF FirstVarint

\* A reader of 32 bits takes the low ones; one of 64 bits takes them all.
LEMMA SpelledRead ==
    ASSUME NEW d, NEW v, Spells(d, v)
    PROVE  /\ parse_uint32(d) = Low(v, 32)
           /\ v \in SUBSET Bits(64) => parse_uint64(d) = v
<1>1. Len(d) \in 1..10 /\ \A i \in v : i \in Nat /\ i < 7 * Len(d)
  BY DEF Spells
<1> DEFINE n == IF Len(d) < 5 THEN Len(d) ELSE 5
           w == Digits7(d, n, 32)
<1>2. n \in Nat /\ n <= Len(d)
  BY <1>1
<1>3. w \in SUBSET Nat /\ \A i \in Nat : i \in w <=> i < 32 /\ i < 7 * n /\ i \in v
  <2> HIDE DEF n
  <2> QED
    BY <1>2, 32 \in Nat, DigitsBack
<1>4. parse_uint32(d) = w
  BY DEF parse_uint32
<1> HIDE DEF w
<1>5. \A i \in Nat : i \in v /\ i < 32 => i < 7 * n
  BY <1>1
<1> HIDE DEF n
<1>6. w = Low(v, 32)
  <2>1. \A i \in Nat : i \in w <=> i \in v /\ i < 32
    BY <1>3, <1>5
  <2>2. \A i : i \in Low(v, 32) <=> i \in v /\ i \in Nat /\ i < 32
    <3>1. \A i \in Nat : i \in Bits(32) <=> i < 32
      BY DEF Bits
    <3> QED
      BY <1>1, <3>1, Zenon DEF Low
  <2> QED
    BY <1>3, <2>1, <2>2, Zenon
<1>7. ASSUME v \in SUBSET Bits(64) PROVE parse_uint64(d) = v
  <2>1. CASE Len(d) < 5
    <3>1. \A i \in v : i \in Bits(32)
      <4>1. Len(d) \in Nat /\ Len(d) < 5
        BY <1>1, <2>1
      <4> DEFINE l == Len(d)
      <4> HIDE DEF l
      <4>2. \A i \in Nat : i < 7 * l => i \in Bits(32)
        BY <4>1 DEF l, Bits
      <4> QED
        BY <1>1, <4>2, Zenon DEF l
    <3>2. Low(v, 32) = v
      BY <3>1, Zenon DEF Low
    <3> QED
      BY <1>4, <1>6, <2>1, <3>2 DEF parse_uint64
  <2>2. CASE ~(Len(d) < 5)
    <3>1. Digits7(d, Len(d), 64) = v
      BY <1>7, 64 \in Nat, AllDigits
    <3> QED
      BY <2>2, <3>1 DEF parse_uint64
  <2> QED
    BY <2>1, <2>2
<1> QED
  BY <1>4, <1>6, <1>7

\* Four bytes with the highest bit set.
Four(v) == [k \in 1..4 |-> More(v, 7 * (k - 1))]

\* They hold the 28 lowest bits.
LEMMA FourBytes ==
    ASSUME NEW v \in SUBSET Nat
    PROVE  /\ Four(v) \in Seq(Byte) /\ Len(Four(v)) = 4
           /\ \A k \in 1..4 : /\ Four(v)[k] \in Byte /\ 7 \in Four(v)[k]
                              /\ \A j \in 0..6 : j \in Four(v)[k] <=> j + 7 * (k - 1) \in v
<1> DEFINE four == Four(v)
<1>1. \A k \in 1..4 : /\ four[k] \in Byte /\ 7 \in four[k]
                      /\ \A j \in 0..6 : j \in four[k] <=> j + 7 * (k - 1) \in v
  <2> SUFFICES ASSUME NEW k \in 1..4
               PROVE  /\ four[k] \in Byte /\ 7 \in four[k]
                      /\ \A j \in 0..6 : j \in four[k] <=> j + 7 * (k - 1) \in v
    OBVIOUS
  <2> DEFINE s == Shr(v, 7 * (k - 1))
  <2>1. 7 * (k - 1) \in Nat
    OBVIOUS
  <2>2. s \in SUBSET Nat /\ \A j \in Nat : j \in s <=> j + 7 * (k - 1) \in v
    BY <2>1, ShrBits
  <2>3. four[k] = (s \cap Bits(7)) \cup {7}
    BY Zenon DEF Four, More, Low
  <2> HIDE DEF s, four
  <2>4. \A j \in 0..6 : j \in four[k] <=> j \in s
    BY <2>3 DEF Bits
  <2>5. four[k] \in Byte /\ 7 \in four[k]
    BY <2>3 DEF Byte, Bits
  <2>6. \A j \in 0..6 : j \in s <=> j + 7 * (k - 1) \in v
    BY <2>2
  <2> QED
    BY <2>4, <2>5, <2>6, Zenon
<1>2. four = [k \in 1..4 |-> four[k]]
  BY DEF Four
<1> HIDE DEF four
<1>3. four \in [1..4 -> Byte]
  BY <1>1, <1>2
<1>4. four \in Seq(Byte) /\ Len(four) = 4
  BY <1>3, 4 \in Nat, FunctionSeq
<1> QED
  BY <1>1, <1>4, Zenon DEF four

\* The sign of a 32-bit number, extended to 64 bits.
Extended(v) == IF 31 \in v THEN v \cup (32..63) ELSE v

\* int32_pack spells the word with its sign extended, ten bytes long when it is
\* negative.
LEMMA Int32Spells ==
    ASSUME NEW v \in SUBSET Bits(32)
    PROVE  Spells(int32_pack(v), Extended(v)) /\ Len(int32_pack(v)) = int32_size(v)
<1>1. CASE 31 \notin v
  BY <1>1, Uint32Spells, Zenon DEF int32_pack, int32_size, Extended
<1>2. CASE 31 \in v
  <2> DEFINE d == int32_pack(v)
             u == v \cup (32..63)
             four == [k \in 1..4 |-> More(v, 7 * (k - 1))]
             fifth == Shr(v, 28) \cup {4, 5, 6, 7}
  <2>1. v \in SUBSET Nat /\ \A i \in v : i < 32
    BY DEF Bits
  <2>2. d = four \o <<fifth, 0..7, 0..7, 0..7, 0..7, {0}>>
    BY <1>2 DEF int32_pack
  <2>3. \A k \in 1..4 : /\ four[k] \in Byte /\ 7 \in four[k]
                        /\ \A j \in 0..6 : j \in four[k] <=> j + 7 * (k - 1) \in v
    BY <2>1, FourBytes DEF Four
  <2>4. four \in Seq(Byte) /\ Len(four) = 4
    BY <2>1, FourBytes DEF Four
  <2>5. fifth \in Byte /\ \A j \in 0..7 : j \in fifth <=> j >= 4 \/ j + 28 \in v
    <3> DEFINE s == Shr(v, 28)
    <3>1. s \in SUBSET Nat /\ \A j \in Nat : j \in s <=> j + 28 \in v
      BY <2>1, 28 \in Nat, ShrBits
    <3> HIDE DEF s
    <3>2. \A j \in s : j < 4
      BY <2>1, <3>1
    <3>3. fifth \in Byte
      BY <3>1, <3>2 DEF s, Byte, Bits
    <3>4. \A j \in 0..7 : j \in fifth <=> j \in s \/ j \in {4, 5, 6, 7}
      BY DEF s
    <3> HIDE DEF fifth
    <3> QED
      BY <3>1, <3>3, <3>4
  <2> HIDE DEF four, fifth
  <2>6. /\ d \in Seq(Byte) /\ Len(d) = 10
        /\ \A k \in 1..4 : d[k] = four[k]
        /\ d[5] = fifth /\ d[6] = 0..7 /\ d[7] = 0..7 /\ d[8] = 0..7 /\ d[9] = 0..7
        /\ d[10] = {0}
    <3>1. 0..7 \in Byte /\ {0} \in Byte
      BY DEF Byte, Bits
    <3> DEFINE ones == 0..7
               one == {0}
    <3>2. d = four \o <<fifth, ones, ones, ones, ones, one>> /\ ones \in Byte /\ one \in Byte
      BY <2>2, <3>1
    <3> HIDE DEF d, ones, one
    <3>3. /\ d \in Seq(Byte) /\ Len(d) = 10
          /\ \A k \in 1..4 : d[k] = four[k]
          /\ d[5] = fifth /\ d[6] = ones /\ d[7] = ones /\ d[8] = ones /\ d[9] = ones
          /\ d[10] = one
      <4> DEFINE t == <<fifth, ones, ones, ones, ones, one>>
      <4>1. /\ t \in Seq(Byte) /\ Len(t) = 6
            /\ t[1] = fifth /\ t[2] = ones /\ t[3] = ones /\ t[4] = ones /\ t[5] = ones
            /\ t[6] = one
        BY <2>5, <3>2
      <4>2. d = four \o t
        BY <3>2
      <4> HIDE DEF t
      <4>3. /\ d \in Seq(Byte) /\ Len(d) = 10
            /\ \A k \in 1..4 : d[k] = four[k]
            /\ \A k \in 5..10 : d[k] = t[k - 4]
        <5>1. four \in Seq(Byte) /\ t \in Seq(Byte)
          BY <2>4, <4>1, Zenon
        <5>2. IsJoined(d, four, t)
          BY <4>2, <5>1, Joined, Zenon
        <5>3. Len(four) = 4 /\ Len(t) = 6 /\ 4 + 6 = 10 /\ 4 + 1 = 5
          BY <2>4, <4>1
        <5> QED
          BY <5>2, <5>3, Zenon DEF IsJoined
      <4>4. /\ d[5] = t[1] /\ d[6] = t[2] /\ d[7] = t[3] /\ d[8] = t[4] /\ d[9] = t[5]
            /\ d[10] = t[6]
        BY <4>3
      <4> QED
        BY <4>1, <4>3, <4>4, Zenon
    <3> QED
      BY <3>3, Zenon DEF d, ones, one
  <2> HIDE DEF d
  <2>7. \A k \in 1..10 : /\ 7 \in d[k] <=> k < 10
                         /\ \A j \in 0..6 : j \in d[k] <=> j + 7 * (k - 1) \in u
    <3> SUFFICES ASSUME NEW k \in 1..10
                 PROVE  /\ 7 \in d[k] <=> k < 10
                        /\ \A j \in 0..6 : j \in d[k] <=> j + 7 * (k - 1) \in u
      OBVIOUS
    <3>1. \A i \in Nat : i \in u <=> i \in v \/ (i >= 32 /\ i <= 63)
      OBVIOUS
    <3> HIDE DEF u
    <3>2. CASE k \in 1..4
      <4>1. \A j \in 0..6 : j + 7 * (k - 1) \in Nat /\ j + 7 * (k - 1) < 32
        BY <3>2
      <4>2. \A j \in 0..6 : j + 7 * (k - 1) \in u <=> j + 7 * (k - 1) \in v
        BY <3>1, <4>1
      <4>3. k < 10
        BY <3>2
      <4> QED
        BY <2>3, <2>6, <3>2, <4>2, <4>3, Zenon
    <3>3. CASE k = 5
      <4>1. \A j \in 0..6 : j + 28 \in u <=> j + 28 \in v \/ j >= 4
        BY <3>1
      <4>2. 7 * (5 - 1) = 28 /\ 5 < 10 /\ \A j \in 0..6 : j \in 0..7
        OBVIOUS
      <4>3. 7 \in fifth
        BY <2>5
      <4> QED
        BY <2>5, <2>6, <3>3, <4>1, <4>2, <4>3, Zenon
    <3>4. CASE k \in 6..9
      <4>1. d[k] = 0..7
        BY <2>6, <3>4
      <4>2. \A j \in 0..6 :
                j + 7 * (k - 1) \in Nat /\ j + 7 * (k - 1) >= 32 /\ j + 7 * (k - 1) <= 63
        BY <3>4
      <4>3. \A j \in 0..6 : j + 7 * (k - 1) \in u
        BY <3>1, <4>2
      <4>4. 7 \in d[k] /\ k < 10 /\ \A j \in 0..6 : j \in d[k]
        BY <3>4, <4>1
      <4> QED
        BY <4>3, <4>4, Zenon
    <3>5. CASE k = 10
      <4>1. \A j \in 0..6 : j + 63 \in u <=> j = 0
        BY <2>1, <3>1
      <4>2. 7 * (10 - 1) = 63 /\ ~(10 < 10) /\ 7 # 0
        OBVIOUS
      <4> QED
        BY <2>6, <3>5, <4>1, <4>2
    <3> QED
      BY <3>2, <3>3, <3>4, <3>5
  <2>8. \A i \in u : i \in Nat /\ i < 70
    BY <2>1
  <2>9. Extended(v) = u /\ int32_size(v) = 10
    BY <1>2 DEF Extended, int32_size
  <2> HIDE DEF u
  <2>10. Spells(d, u)
    BY <2>6, <2>7, <2>8 DEF Spells
  <2> QED
    BY <2>6, <2>9, <2>10, Zenon DEF d
<1> QED
  BY <1>1, <1>2

\* The bytes of the first five digits, and of the others.
FirstFive(a, v) ==
    \A k \in 1..5 : 7 \in a[k] /\ \A j \in 0..6 : j \in a[k] <=> j + 7 * (k - 1) \in v
Above(u, v) == \A i \in Nat : i \in u <=> i + 35 \in v

\* Five bytes and what spells the bits above them spell the word.
LEMMA SpellsJoined ==
    ASSUME NEW v \in SUBSET Nat, NEW u, NEW a \in Seq(Byte), NEW b, Len(a) = 5,
           FirstFive(a, v), Above(u, v), Spells(b, u), Len(b) \in 1..5
    PROVE  Spells(a \o b, v) /\ Len(a \o b) = 5 + Len(b)
<1> DEFINE d == a \o b
           n == Len(b)
<1>1. /\ b \in Seq(Byte) /\ n \in 1..5 /\ \A i \in u : i \in Nat /\ i < 7 * n
      /\ \A k \in 1..n : /\ 7 \in b[k] <=> k < n
                         /\ \A j \in 0..6 : j \in b[k] <=> j + 7 * (k - 1) \in u
  BY Zenon DEF Spells
<1>7. n \in 1..5 /\ n \in Nat
  OBVIOUS
<1>2. IsJoined(d, a, b)
  BY <1>1, Joined, Zenon
<1> HIDE DEF d, n
<1>3. /\ d \in Seq(Byte) /\ Len(d) = 5 + n
      /\ \A k \in 1..5 : d[k] = a[k]
      /\ \A k \in 6..(5 + n) : d[k] = b[k - 5]
  <2>1. 5 + 1 = 6
    OBVIOUS
  <2> QED
    BY <1>2, <2>1, Zenon DEF IsJoined, n
<1>4. Len(d) \in 1..10
  BY <1>7, <1>3
<1>5. \A i \in v : i \in Nat /\ i < 7 * Len(d)
  <2> SUFFICES ASSUME NEW i \in v PROVE i \in Nat /\ i < 7 * (5 + n)
    BY <1>3, Zenon
  <2>1. CASE i < 35
    BY <1>7, <2>1
  <2>2. CASE ~(i < 35)
    <3>1. i - 35 \in Nat /\ (i - 35) + 35 = i
      BY <2>2
    <3>2. i - 35 \in u
      BY <3>1 DEF Above
    <3>3. i - 35 < 7 * n
      BY <1>1, <3>2
    <3> QED
      BY <1>7, <3>1, <3>3
  <2> QED
    BY <2>1, <2>2
<1>6. \A k \in 1..Len(d) : /\ 7 \in d[k] <=> k < Len(d)
                           /\ \A j \in 0..6 : j \in d[k] <=> j + 7 * (k - 1) \in v
  <2> SUFFICES ASSUME NEW k \in 1..(5 + n)
               PROVE  /\ 7 \in d[k] <=> k < 5 + n
                      /\ \A j \in 0..6 : j \in d[k] <=> j + 7 * (k - 1) \in v
    BY <1>3, Zenon
  <2>1. CASE k \in 1..5
    <3>1. k < 5 + n
      BY <1>7, <2>1
    <3> QED
      BY <1>3, <2>1, <3>1, Zenon DEF FirstFive
  <2>2. CASE k \in 6..(5 + n)
    <3> DEFINE m == k - 5
    <3>1. m \in 1..n /\ k = 5 + m /\ m \in Nat
      BY <1>7, <2>2
    <3>2. d[k] = b[m]
      BY <1>3, <2>2
    <3> HIDE DEF m
    <3>3. (7 \in b[m] <=> m < n) /\ \A j \in 0..6 : j \in b[m] <=> j + 7 * (m - 1) \in u
      BY <1>1, <3>1, Zenon
    <3>4. m < n <=> k < 5 + n
      BY <1>7, <3>1
    <3>5. \A j \in 0..6 : j + 7 * (m - 1) \in Nat /\ (j + 7 * (m - 1)) + 35 = j + 7 * (k - 1)
      <4>1. m \in Nat /\ m >= 1 /\ k = 5 + m
        BY <1>7, <3>1
      <4> QED
        BY <4>1
    <3>6. \A j \in 0..6 : j + 7 * (m - 1) \in u <=> j + 7 * (k - 1) \in v
      BY <3>5, Zenon DEF Above
    <3> QED
      BY <3>2, <3>3, <3>4, <3>6, Zenon
  <2> QED
    <3>1. k \in 1..5 \/ k \in 6..(5 + n)
      BY <1>7
    <3> QED
      BY <2>1, <2>2, <3>1, Zenon
<1> QED
  BY <1>3, <1>4, <1>5, <1>6, Zenon DEF Spells, d, n

\* Joining sequences is associative.
LEMMA Association ==
    ASSUME NEW a \in Seq(Byte), NEW b \in Seq(Byte), NEW c \in Seq(Byte)
    PROVE  a \o (b \o c) = (a \o b) \o c
OBVIOUS

\* The fifth byte holds bits of both halves.
Fifth(lo, hi) == Shl(Low(hi, 3), 4, 7) \cup Shr(lo, 28)

\* It holds the bits from 28 to 34.
LEMMA FifthByte ==
    ASSUME NEW v \in SUBSET Bits(64), NEW lo, lo = Low(v, 32), NEW hi, hi = Shr(v, 32)
    PROVE  /\ Fifth(lo, hi) \in SUBSET (0..6)
           /\ \A j \in 0..6 : j \in Fifth(lo, hi) <=> j + 28 \in v
<1> DEFINE x == Shl(Low(hi, 3), 4, 7)
           y == Shr(lo, 28)
<1>1. v \in SUBSET Nat /\ \A i \in v : i < 64
  BY DEF Bits
<1>2. lo \in SUBSET Nat /\ \A i \in Nat : i \in lo <=> i < 32 /\ i \in v
  BY <1>1 DEF Low, Bits
<1>3. hi \in SUBSET Nat /\ \A i \in Nat : i \in hi <=> i + 32 \in v
  BY <1>1, 32 \in Nat, ShrBits
<1>4. Low(hi, 3) \in SUBSET Nat /\ \A i \in Nat : i \in Low(hi, 3) <=> i < 3 /\ i \in hi
  BY <1>3 DEF Low, Bits
<1>5. x \in SUBSET Bits(7) /\ \A i \in Nat : i \in x <=> i < 7 /\ i >= 4 /\ i - 4 \in Low(hi, 3)
  BY <1>4, 4 \in Nat, 7 \in Nat, ShlBits
<1>6. y \in SUBSET Nat /\ \A i \in Nat : i \in y <=> i + 28 \in lo
  BY <1>2, 28 \in Nat, ShrBits
<1> HIDE DEF x, y
<1>7. x \subseteq 0..6
  BY <1>5 DEF Bits
<1>8. y \subseteq 0..6
  <2>1. \A i \in y : i \in Nat /\ i + 28 \in Nat /\ i + 28 < 32
    BY <1>2, <1>6
  <2> QED
    BY <2>1
<1>9. \A j \in 0..6 : j \in x \/ j \in y <=> j + 28 \in v
  <2> SUFFICES ASSUME NEW j \in 0..6 PROVE j \in x \/ j \in y <=> j + 28 \in v
    OBVIOUS
  <2>1. j \in y <=> j < 4 /\ j + 28 \in v
    <3>1. j \in Nat /\ j + 28 \in Nat /\ (j + 28 < 32 <=> j < 4)
      OBVIOUS
    <3> QED
      BY <1>2, <1>6, <3>1, Zenon
  <2>2. CASE j < 4
    <3>1. j \notin x
      BY <1>5, <2>2
    <3> QED
      BY <2>1, <2>2, <3>1
  <2>3. CASE ~(j < 4)
    <3>1. j - 4 \in Nat /\ j - 4 < 3 /\ (j - 4) + 32 = j + 28 /\ j \in Nat /\ j < 7 /\ j >= 4
      BY <2>3
    <3>2. j \in x <=> j - 4 \in hi
      BY <1>4, <1>5, <3>1, Zenon
    <3>3. j - 4 \in hi <=> j + 28 \in v
      BY <1>3, <3>1
    <3> QED
      BY <2>1, <2>3, <3>2, <3>3, Zenon
  <2> QED
    BY <2>2, <2>3
<1> QED
  BY <1>7, <1>8, <1>9, Zenon DEF Fifth, x, y

\* fifth holds the bits of the fifth byte of v; d is its first five bytes.
FifthOf(fifth, v) == \A j \in 0..6 : j \in fifth <=> j + 28 \in v
FiveOf(d, v, fifth) ==
    /\ d \in Seq(Byte) /\ Len(d) = 5 /\ d[5] = fifth
    /\ \A k \in 1..4 : 7 \in d[k]
    /\ \A k \in 1..5 : \A j \in 0..6 : j \in d[k] <=> j + 7 * (k - 1) \in v

\* Four bytes and a fifth.
LEMMA FiveBytes ==
    ASSUME NEW v \in SUBSET Nat, NEW lo, lo = Low(v, 32), NEW fifth \in Byte,
           FifthOf(fifth, v), NEW d, d = Four(lo) \o <<fifth>>
    PROVE  FiveOf(d, v, fifth)
<1> DEFINE four == Four(lo)
           x == <<fifth>>
<1>1. lo \in SUBSET Nat /\ \A i \in Nat : i \in lo <=> i < 32 /\ i \in v
  BY DEF Low, Bits
<1>2. /\ four \in Seq(Byte) /\ Len(four) = 4
      /\ \A k \in 1..4 : /\ 7 \in four[k]
                         /\ \A j \in 0..6 : j \in four[k] <=> j + 7 * (k - 1) \in lo
  BY <1>1, FourBytes
<1>3. x \in Seq(Byte) /\ Len(x) = 1 /\ x[1] = fifth
  OBVIOUS
<1> HIDE DEF four, x
<1>4. IsJoined(d, four, x)
  <2>1. d = four \o x
    BY DEF four, x
  <2> QED
    BY <1>2, <1>3, <2>1, Joined
<1>5. /\ d \in Seq(Byte) /\ Len(d) = 5
      /\ \A k \in 1..4 : d[k] = four[k]
      /\ d[5] = fifth
  <2>1. 4 + 1 = 5 /\ 5 \in 5..5 /\ 5 - 4 = 1
    OBVIOUS
  <2>2. /\ d \in Seq(Byte) /\ Len(d) = 5
        /\ \A k \in 1..4 : d[k] = four[k]
        /\ \A k \in 5..5 : d[k] = x[k - 4]
    BY <1>2, <1>3, <1>4, <2>1, Zenon DEF IsJoined
  <2>3. d[5] = x[1]
    BY <2>1, <2>2, Zenon
  <2> QED
    BY <1>3, <2>2, <2>3, Zenon
<1>6. \A k \in 1..4 : \A j \in 0..6 : j + 7 * (k - 1) \in Nat /\ j + 7 * (k - 1) < 32
  OBVIOUS
<1>7. \A k \in 1..4 : \A j \in 0..6 : j \in d[k] <=> j + 7 * (k - 1) \in v
  BY <1>1, <1>2, <1>5, <1>6, Zenon
<1>8. 7 * (5 - 1) = 28 /\ \A k \in 1..5 : k \in 1..4 \/ k = 5
  OBVIOUS
<1>9. \A k \in 1..5 : \A j \in 0..6 : j \in d[k] <=> j + 7 * (k - 1) \in v
  BY <1>5, <1>7, <1>8, Zenon DEF FifthOf
<1> QED
  BY <1>2, <1>5, <1>9, Zenon DEF FiveOf

\* uint64_pack spells its word over both halves, in the bytes uint64_size
\* counts.
LEMMA Uint64Spells ==
    ASSUME NEW v \in SUBSET Bits(64)
    PROVE  Spells(uint64_pack(v), v) /\ Len(uint64_pack(v)) = uint64_size(v)
<1> DEFINE lo == Low(v, 32)
           hi == Shr(v, 32)
           fifth == Fifth(lo, hi)
           d == uint64_pack(v)
           u == Shr(hi, 3)
           b == uint32_pack(u)
<1>1. v \in SUBSET Nat /\ \A i \in v : i \in Nat /\ i < 64
  BY DEF Bits
<1>2. lo \in SUBSET Bits(32) /\ lo \in SUBSET Nat /\ \A i \in Nat : i \in lo <=> i < 32 /\ i \in v
  BY <1>1 DEF Low, Bits
<1>3. hi \in SUBSET Nat /\ \A i \in Nat : i \in hi <=> i + 32 \in v
  BY <1>1, 32 \in Nat, ShrBits
<1>4. u \in SUBSET Nat /\ \A i \in Nat : i \in u <=> i + 3 \in hi
  BY <1>3, 3 \in Nat, ShrBits
<1>5. fifth \in SUBSET (0..6) /\ \A j \in 0..6 : j \in fifth <=> j + 28 \in v
  BY FifthByte
<1>6. d = IF hi = {} THEN uint32_pack(lo)
          ELSE Four(lo) \o IF Below(hi, 3) THEN <<fifth>> ELSE <<fifth \cup {7}>> \o b
  BY Zenon DEF uint64_pack, Halves_pack, Four, Fifth
<1>7. uint64_size(v) =
        IF hi = {} THEN uint32_size(v)
        ELSE IF Below(hi, 3) THEN 5 ELSE IF Below(hi, 10) THEN 6
        ELSE IF Below(hi, 17) THEN 7 ELSE IF Below(hi, 24) THEN 8
        ELSE IF Below(hi, 31) THEN 9 ELSE 10
  BY Zenon DEF uint64_size
<1> HIDE DEF lo, hi, fifth, u, d
<1>8. \A n \in Nat : Below(hi, n) <=> \A i \in hi : i < n
  BY <1>3 DEF Below, Bits
<1>9. CASE hi = {}
  <2>1. \A i \in v : i < 32
    <3> SUFFICES ASSUME NEW i \in v, ~(i < 32) PROVE FALSE
      BY <1>1
    <3>1. i - 32 \in Nat /\ (i - 32) + 32 = i
      BY <1>1
    <3>2. i - 32 \in hi
      BY <1>3, <3>1
    <3> QED
      BY <1>9, <3>2
  <2>2. lo = v
    BY <1>1, <1>2, <2>1
  <2>3. d = uint32_pack(v) /\ uint64_size(v) = uint32_size(v)
    BY <1>6, <1>7, <1>9, <2>2, Zenon
  <2>4. v \in SUBSET Bits(32)
    BY <1>2, <2>2, Zenon
  <2>5. Spells(uint32_pack(v), v) /\ Len(uint32_pack(v)) = uint32_size(v)
    BY <2>4, Uint32Spells, Zenon
  <2> QED
    BY <2>3, <2>5, Zenon DEF d
<1>10. CASE hi # {} /\ Below(hi, 3)
  <2>1. d = Four(lo) \o <<fifth>>
    BY <1>6, <1>10
  <2>2. fifth \in Byte /\ 7 \notin fifth
    BY <1>5 DEF Byte, Bits
  <2>3. /\ d \in Seq(Byte) /\ Len(d) = 5 /\ d[5] = fifth
        /\ \A k \in 1..4 : 7 \in d[k]
        /\ \A k \in 1..5 : \A j \in 0..6 : j \in d[k] <=> j + 7 * (k - 1) \in v
    <3>1. FifthOf(fifth, v)
      BY <1>5, Zenon DEF FifthOf
    <3>2. lo = Low(v, 32)
      BY DEF lo
    <3>3. FiveOf(d, v, fifth)
      BY <1>1, <2>1, <2>2, <3>1, <3>2, FiveBytes, Zenon
    <3> QED
      BY <3>3, Zenon DEF FiveOf
  <2>4. \A i \in v : i \in Nat /\ i < 35
    <3> SUFFICES ASSUME NEW i \in v, ~(i < 35) PROVE FALSE
      BY <1>1
    <3>1. i - 32 \in Nat /\ (i - 32) + 32 = i /\ ~(i - 32 < 3)
      BY <1>1
    <3>2. i - 32 \in hi
      BY <1>3, <3>1
    <3> QED
      BY <1>8, <1>10, 3 \in Nat, <3>1, <3>2
  <2>5. \A k \in 1..5 : 7 \in d[k] <=> k < 5
    <3>1. \A k \in 1..5 : (k \in 1..4 /\ k < 5) \/ (k = 5 /\ ~(k < 5))
      OBVIOUS
    <3> QED
      BY <2>2, <2>3, <3>1, Zenon
  <2>6. 5 \in 1..10 /\ 7 * 5 = 35
    OBVIOUS
  <2>7. Spells(d, v)
    BY <2>3, <2>4, <2>5, <2>6, Zenon DEF Spells
  <2> QED
    BY <1>7, <1>10, <2>3, <2>7, Zenon DEF d
<1>11. CASE hi # {} /\ ~Below(hi, 3)
  <2> DEFINE e == fifth \cup {7}
             a == Four(lo) \o <<e>>
  <2>1. e \in Byte /\ 7 \in e /\ \A j \in 0..6 : j \in e <=> j + 28 \in v
    BY <1>5 DEF Byte, Bits
  <2>2. d = Four(lo) \o (<<e>> \o b)
    BY <1>6, <1>11
  <2> HIDE DEF e
  <2>3. \A i \in u : i \in Nat /\ i < 29
    <3> SUFFICES ASSUME NEW i \in u PROVE i \in Nat /\ i < 29
      OBVIOUS
    <3>1. i \in Nat /\ i + 3 \in Nat /\ i + 3 \in hi
      BY <1>4
    <3>2. (i + 3) + 32 \in v
      BY <1>3, <3>1
    <3> QED
      BY <1>1, <3>1, <3>2
  <2>4. u \in SUBSET Bits(32)
    BY <2>3 DEF Bits
  <2>5. Spells(b, u) /\ Len(b) = uint32_size(u) /\ uint32_size(u) \in 1..5
    BY <2>4, Uint32Spells
  <2>6. /\ a \in Seq(Byte) /\ Len(a) = 5 /\ a[5] = e
        /\ \A k \in 1..4 : 7 \in a[k]
        /\ \A k \in 1..5 : \A j \in 0..6 : j \in a[k] <=> j + 7 * (k - 1) \in v
    <3>1. FifthOf(e, v)
      BY <2>1, Zenon DEF FifthOf
    <3>2. lo = Low(v, 32) /\ a = Four(lo) \o <<e>>
      BY Zenon DEF lo
    <3>3. FiveOf(a, v, e)
      BY <1>1, <2>1, <3>1, <3>2, FiveBytes, Zenon
    <3> QED
      BY <3>3, Zenon DEF FiveOf
  <2>7. d = a \o b
    <3>1. Four(lo) \in Seq(Byte)
      BY <1>2, FourBytes
    <3>2. b \in Seq(Byte)
      BY <2>5, Zenon DEF Spells
    <3>3. <<e>> \in Seq(Byte)
      BY <2>1
    <3> QED
      BY <2>2, <3>1, <3>2, <3>3, Association
  <2> HIDE DEF a, b
  <2>8. FirstFive(a, v)
    <3>1. \A k \in 1..5 : k \in 1..4 \/ k = 5
      OBVIOUS
    <3> QED
      BY <2>1, <2>6, <3>1, Zenon DEF FirstFive
  <2>9. Above(u, v)
    <3> SUFFICES ASSUME NEW i \in Nat PROVE i \in u <=> i + 35 \in v
      BY DEF Above
    <3>1. i + 3 \in Nat /\ (i + 3) + 32 = i + 35
      OBVIOUS
    <3>2. i \in u <=> (i + 3) + 32 \in v
      BY <1>3, <1>4, <3>1
    <3> QED
      BY <3>1, <3>2, Zenon
  <2>10. Spells(d, v) /\ Len(d) = 5 + Len(b)
    <3>1. Len(b) \in 1..5
      BY <2>5
    <3> QED
      BY <1>1, <2>5, <2>6, <2>7, <2>8, <2>9, <3>1, SpellsJoined
  <2>11. \A n \in Nat : Below(u, n) <=> Below(hi, n + 3)
    <3> SUFFICES ASSUME NEW n \in Nat PROVE Below(u, n) <=> Below(hi, n + 3)
      OBVIOUS
    <3>1. Below(u, n) <=> \A i \in u : i < n
      BY <1>4 DEF Below, Bits
    <3>2. Below(hi, n + 3) <=> \A i \in hi : i < n + 3
      BY <1>8, n + 3 \in Nat
    <3>3. ASSUME \A i \in u : i < n, NEW i \in hi PROVE i < n + 3
      <4>1. CASE i < 3
        BY <1>3, <4>1
      <4>2. CASE ~(i < 3)
        <5>1. i \in Nat /\ i - 3 \in Nat /\ (i - 3) + 3 = i
          BY <1>3, <4>2
        <5>2. i - 3 \in u
          BY <1>4, <5>1
        <5>3. i - 3 < n
          BY <3>3, <5>2
        <5> QED
          BY <5>1, <5>3
      <4> QED
        BY <4>1, <4>2
    <3>4. ASSUME \A i \in hi : i < n + 3, NEW i \in u PROVE i < n
      <4>1. i \in Nat /\ i + 3 \in hi
        BY <1>4
      <4>2. i + 3 < n + 3
        BY <3>4, <4>1
      <4> QED
        BY <4>1, <4>2
    <3> QED
      BY <3>1, <3>2, <3>3, <3>4, Zenon
  <2>12. /\ Below(u, 7) <=> Below(hi, 10)
         /\ Below(u, 14) <=> Below(hi, 17)
         /\ Below(u, 21) <=> Below(hi, 24)
         /\ Below(u, 28) <=> Below(hi, 31)
    <3>1. 7 \in Nat /\ 14 \in Nat /\ 21 \in Nat /\ 28 \in Nat
          /\ 7 + 3 = 10 /\ 14 + 3 = 17 /\ 21 + 3 = 24 /\ 28 + 3 = 31
      OBVIOUS
    <3> QED
      BY <2>11, <3>1, Zenon
  <2>13. uint64_size(v) = 5 + uint32_size(u)
    BY <1>7, <1>11, <2>12 DEF uint32_size
  <2> QED
    BY <2>5, <2>10, <2>13, Zenon DEF d
<1> QED
  BY <1>9, <1>10, <1>11

-----------------------------------------------------------------------------
(* Round trips. *)

\* Zigzag stays within the width.
LEMMA ZigzagWord ==
    ASSUME NEW width \in Nat, NEW v \in SUBSET Bits(width)
    PROVE  Zigzag(v, width) \in SUBSET Bits(width)
<1>1. v \in SUBSET Nat
  BY DEF Bits
<1>2. Shl(v, 1, width) \in SUBSET Bits(width)
  BY <1>1, 1 \in Nat, ShlBits
<1> QED
  BY <1>2, Zenon DEF Zigzag

\* A varint is read as it was written, whatever follows.
LEMMA SpelledFirst ==
    ASSUME NEW d, NEW v, Spells(d, v), NEW rest \in Seq(Byte)
    PROVE  /\ parse_uint32(FirstVarint(d \o rest)) = Low(v, 32)
           /\ v \in SUBSET Bits(64) => parse_uint64(FirstVarint(d \o rest)) = v
<1>1. FirstVarint(d \o rest) = d
  BY FirstSpelled, Zenon
<1> QED
  BY <1>1, SpelledRead, Zenon

\* A word of 32 bits is its low 32 bits.
LEMMA LowWord ==
    ASSUME NEW v \in SUBSET Bits(32)
    PROVE  Low(v, 32) = v
BY DEF Low

\* So are the low 32 bits of an extended one.
LEMMA LowExtended ==
    ASSUME NEW v \in SUBSET Bits(32)
    PROVE  Low(Extended(v), 32) = v
<1>1. \A i \in 32..63 : i \notin Bits(32)
  BY DEF Bits
<1>2. \A i : i \in Extended(v) => i \in v \/ i \in 32..63
  BY Zenon DEF Extended
<1>3. \A i \in v : i \in Extended(v) /\ i \in Bits(32)
  BY Zenon DEF Extended
<1>4. \A i : i \in Low(Extended(v), 32) <=> i \in v
  BY <1>1, <1>2, <1>3, Zenon DEF Low
<1> QED
  BY <1>4, Zenon

\* uint32_pack and parse_uint32, int32_pack and parse_int32, sint32_pack and
\* unzigzag32: scan_varint finds the end of what was written whatever follows,
\* the reader makes the same word of it, and the size function counted its
\* bytes.
THEOREM Varint32RoundTrip ==
    \A v \in SUBSET Bits(32) : \A rest \in Seq(Byte) :
        /\ parse_uint32(FirstVarint(uint32_pack(v) \o rest)) = v
        /\ parse_uint32(FirstVarint(int32_pack(v) \o rest)) = v
        /\ unzigzag32(parse_uint32(FirstVarint(sint32_pack(v) \o rest))) = v
        /\ Len(uint32_pack(v)) = uint32_size(v)
        /\ Len(int32_pack(v)) = int32_size(v)
        /\ Len(sint32_pack(v)) = sint32_size(v)
<1> SUFFICES ASSUME NEW v \in SUBSET Bits(32), NEW rest \in Seq(Byte)
             PROVE  /\ parse_uint32(FirstVarint(uint32_pack(v) \o rest)) = v
                    /\ parse_uint32(FirstVarint(int32_pack(v) \o rest)) = v
                    /\ unzigzag32(parse_uint32(FirstVarint(sint32_pack(v) \o rest))) = v
                    /\ Len(uint32_pack(v)) = uint32_size(v)
                    /\ Len(int32_pack(v)) = int32_size(v)
                    /\ Len(sint32_pack(v)) = sint32_size(v)
  OBVIOUS
<1>1. /\ parse_uint32(FirstVarint(uint32_pack(v) \o rest)) = v
      /\ Len(uint32_pack(v)) = uint32_size(v)
  <2>1. Spells(uint32_pack(v), v) /\ Len(uint32_pack(v)) = uint32_size(v)
    BY Uint32Spells, Zenon
  <2> QED
    BY <2>1, SpelledFirst, LowWord, Zenon
<1>2. /\ parse_uint32(FirstVarint(int32_pack(v) \o rest)) = v
      /\ Len(int32_pack(v)) = int32_size(v)
  <2>1. Spells(int32_pack(v), Extended(v)) /\ Len(int32_pack(v)) = int32_size(v)
    BY Int32Spells, Zenon
  <2> QED
    BY <2>1, SpelledFirst, LowExtended, Zenon
<1>3. /\ unzigzag32(parse_uint32(FirstVarint(sint32_pack(v) \o rest))) = v
      /\ Len(sint32_pack(v)) = sint32_size(v)
  <2> DEFINE z == zigzag32(v)
  <2>1. z \in SUBSET Bits(32)
    <3>1. 32 - 1 = 31 /\ 32 \in Nat
      OBVIOUS
    <3>2. z = Zigzag(v, 32)
      BY <3>1, Zenon DEF zigzag32, Zigzag
    <3> QED
      BY <3>1, <3>2, ZigzagWord, Zenon
  <2>2. sint32_pack(v) = uint32_pack(z) /\ sint32_size(v) = uint32_size(z)
    BY Zenon DEF sint32_pack, sint32_size
  <2>3. unzigzag32(z) = v
    BY ZigzagRoundTrip, Zenon
  <2> HIDE DEF z
  <2>4. Spells(uint32_pack(z), z) /\ Len(uint32_pack(z)) = uint32_size(z)
    BY <2>1, Uint32Spells, Zenon
  <2>5. parse_uint32(FirstVarint(uint32_pack(z) \o rest)) = z
    BY <2>1, <2>4, SpelledFirst, LowWord, Zenon
  <2> QED
    BY <2>2, <2>3, <2>4, <2>5, Zenon
<1> QED
  BY <1>1, <1>2, <1>3, Zenon

\* The same of uint64_pack and parse_uint64, and of sint64_pack and unzigzag64.
THEOREM Varint64RoundTrip ==
    \A v \in SUBSET Bits(64) : \A rest \in Seq(Byte) :
        /\ parse_uint64(FirstVarint(uint64_pack(v) \o rest)) = v
        /\ unzigzag64(parse_uint64(FirstVarint(sint64_pack(v) \o rest))) = v
        /\ Len(uint64_pack(v)) = uint64_size(v)
        /\ Len(sint64_pack(v)) = sint64_size(v)
<1> SUFFICES ASSUME NEW v \in SUBSET Bits(64), NEW rest \in Seq(Byte)
             PROVE  /\ parse_uint64(FirstVarint(uint64_pack(v) \o rest)) = v
                    /\ unzigzag64(parse_uint64(FirstVarint(sint64_pack(v) \o rest))) = v
                    /\ Len(uint64_pack(v)) = uint64_size(v)
                    /\ Len(sint64_pack(v)) = sint64_size(v)
  OBVIOUS
<1>1. \A w \in SUBSET Bits(64) :
        /\ parse_uint64(FirstVarint(uint64_pack(w) \o rest)) = w
        /\ Len(uint64_pack(w)) = uint64_size(w)
  BY Uint64Spells, SpelledFirst, Zenon
<1> DEFINE z == zigzag64(v)
<1>2. z \in SUBSET Bits(64)
  <2>1. 64 - 1 = 63 /\ 64 \in Nat
    OBVIOUS
  <2>2. z = Zigzag(v, 64)
    BY <2>1, Zenon DEF zigzag64, Zigzag
  <2> QED
    BY <2>1, <2>2, ZigzagWord, ZenonT(30)
<1>3. sint64_pack(v) = uint64_pack(z) /\ sint64_size(v) = uint64_size(z)
  BY Zenon DEF sint64_pack, sint64_size
<1>4. unzigzag64(z) = v
  BY ZigzagRoundTrip, Zenon
<1> HIDE DEF z
<1> QED
  BY <1>1, <1>2, <1>3, <1>4, Zenon

-----------------------------------------------------------------------------
(* Numbers and the words that stand for them. *)

\* The bits of the word of a number: none above bit 30.
LEMMA WordBits ==
    ASSUME NEW n
    PROVE  /\ Word(n) \in SUBSET (0..30)
           /\ Word(n) \in SUBSET Nat
           /\ \A i \in 0..30 : i \in Word(n) <=> (n \div 2^i) % 2 = 1
<1>1. 0..30 \subseteq Nat
  OBVIOUS
<1> QED
  BY <1>1, Zenon DEF Word

\* Four bits that are those of m stand for m modulo 16.
LEMMA NibbleOf ==
    ASSUME NEW w, NEW i, NEW m \in Nat,
           i \in w <=> m % 2 = 1,
           i + 1 \in w <=> (m \div 2) % 2 = 1,
           i + 2 \in w <=> (m \div 4) % 2 = 1,
           i + 3 \in w <=> (m \div 8) % 2 = 1
    PROVE  Nibble(w, i) = m % 16
<1>1. \A p \in Int : p % 2 \in {0, 1}
  OBVIOUS
<1>2. m \div 2 \in Int /\ m \div 4 \in Int /\ m \div 8 \in Int
  OBVIOUS
<1>3. /\ Bit(w, i) = m % 2 /\ Bit(w, i + 1) = (m \div 2) % 2
      /\ Bit(w, i + 2) = (m \div 4) % 2 /\ Bit(w, i + 3) = (m \div 8) % 2
  BY <1>1, <1>2 DEF Bit
<1>4. (m % 2) + 2 * ((m \div 2) % 2) + 4 * ((m \div 4) % 2) + 8 * ((m \div 8) % 2) = m % 16
  OBVIOUS
<1> QED
  BY <1>3, <1>4, Zenon DEF Nibble

\* The nibbles of a number's word are its digits to the base 16.
LEMMA WordNibbles ==
    ASSUME NEW n \in 0..(2^31 - 1)
    PROVE  /\ Nibble(Word(n), 0) = n % 16
           /\ Nibble(Word(n), 4) = (n \div 2^4) % 16
           /\ Nibble(Word(n), 8) = (n \div 2^8) % 16
           /\ Nibble(Word(n), 12) = (n \div 2^12) % 16
           /\ Nibble(Word(n), 16) = (n \div 2^16) % 16
           /\ Nibble(Word(n), 20) = (n \div 2^20) % 16
           /\ Nibble(Word(n), 24) = (n \div 2^24) % 16
           /\ Nibble(Word(n), 28) = (n \div 2^28) % 16
<1> DEFINE w == Word(n)
<1>1. n \in Nat /\ n < 2^31
  OBVIOUS
<1>2. w \in SUBSET (0..30) /\ \A i \in 0..30 : i \in w <=> (n \div 2^i) % 2 = 1
  BY WordBits, Zenon
<1> HIDE DEF w
<1>3. Nibble(w, 0) = n % 16
  <2>1. /\ 0 \in w <=> n % 2 = 1
        /\ 0 + 1 \in w <=> (n \div 2) % 2 = 1
        /\ 0 + 2 \in w <=> (n \div 4) % 2 = 1
        /\ 0 + 3 \in w <=> (n \div 8) % 2 = 1
    <3>1. /\ 0 \in w <=> (n \div 2^0) % 2 = 1
          /\ 1 \in w <=> (n \div 2^1) % 2 = 1
          /\ 2 \in w <=> (n \div 2^2) % 2 = 1
          /\ 3 \in w <=> (n \div 2^3) % 2 = 1
      BY <1>2
    <3> QED
      BY <1>1, <3>1
  <2> QED
    BY <1>1, <2>1, NibbleOf
<1>4. Nibble(w, 4) = (n \div 2^4) % 16
  <2> DEFINE m == n \div 2^4
  <2>1. m \in Nat
    BY <1>1
  <2>2. /\ 4 \in w <=> m % 2 = 1
        /\ 4 + 1 \in w <=> (m \div 2) % 2 = 1
        /\ 4 + 2 \in w <=> (m \div 4) % 2 = 1
        /\ 4 + 3 \in w <=> (m \div 8) % 2 = 1
    <3>1. /\ 4 \in w <=> (n \div 2^4) % 2 = 1
          /\ 5 \in w <=> (n \div 2^5) % 2 = 1
          /\ 6 \in w <=> (n \div 2^6) % 2 = 1
          /\ 7 \in w <=> (n \div 2^7) % 2 = 1
      BY <1>2
    <3>2. /\ n \div 2^5 = m \div 2
          /\ n \div 2^6 = m \div 4
          /\ n \div 2^7 = m \div 8
      BY <1>1
    <3>3. /\ 4 + 1 = 5 /\ 4 + 2 = 6 /\ 4 + 3 = 7
      OBVIOUS
    <3> QED
      BY <3>1, <3>2, <3>3, Zenon
  <2> HIDE DEF m
  <2>3. Nibble(w, 4) = m % 16
    BY <2>1, <2>2, NibbleOf
  <2> QED
    BY <2>3 DEF m
<1>5. Nibble(w, 8) = (n \div 2^8) % 16
  <2> DEFINE m == n \div 2^8
  <2>1. m \in Nat
    BY <1>1
  <2>2. /\ 8 \in w <=> m % 2 = 1
        /\ 8 + 1 \in w <=> (m \div 2) % 2 = 1
        /\ 8 + 2 \in w <=> (m \div 4) % 2 = 1
        /\ 8 + 3 \in w <=> (m \div 8) % 2 = 1
    <3>1. /\ 8 \in w <=> (n \div 2^8) % 2 = 1
          /\ 9 \in w <=> (n \div 2^9) % 2 = 1
          /\ 10 \in w <=> (n \div 2^10) % 2 = 1
          /\ 11 \in w <=> (n \div 2^11) % 2 = 1
      BY <1>2
    <3>2. /\ n \div 2^9 = m \div 2
          /\ n \div 2^10 = m \div 4
          /\ n \div 2^11 = m \div 8
      BY <1>1
    <3>3. /\ 8 + 1 = 9 /\ 8 + 2 = 10 /\ 8 + 3 = 11
      OBVIOUS
    <3> QED
      BY <3>1, <3>2, <3>3, Zenon
  <2> HIDE DEF m
  <2>3. Nibble(w, 8) = m % 16
    BY <2>1, <2>2, NibbleOf
  <2> QED
    BY <2>3 DEF m
<1>6. Nibble(w, 12) = (n \div 2^12) % 16
  <2> DEFINE m == n \div 2^12
  <2>1. m \in Nat
    BY <1>1
  <2>2. /\ 12 \in w <=> m % 2 = 1
        /\ 12 + 1 \in w <=> (m \div 2) % 2 = 1
        /\ 12 + 2 \in w <=> (m \div 4) % 2 = 1
        /\ 12 + 3 \in w <=> (m \div 8) % 2 = 1
    <3>1. /\ 12 \in w <=> (n \div 2^12) % 2 = 1
          /\ 13 \in w <=> (n \div 2^13) % 2 = 1
          /\ 14 \in w <=> (n \div 2^14) % 2 = 1
          /\ 15 \in w <=> (n \div 2^15) % 2 = 1
      BY <1>2
    <3>2. /\ n \div 2^13 = m \div 2
          /\ n \div 2^14 = m \div 4
          /\ n \div 2^15 = m \div 8
      BY <1>1
    <3>3. /\ 12 + 1 = 13 /\ 12 + 2 = 14 /\ 12 + 3 = 15
      OBVIOUS
    <3> QED
      BY <3>1, <3>2, <3>3, Zenon
  <2> HIDE DEF m
  <2>3. Nibble(w, 12) = m % 16
    BY <2>1, <2>2, NibbleOf
  <2> QED
    BY <2>3 DEF m
<1>7. Nibble(w, 16) = (n \div 2^16) % 16
  <2> DEFINE m == n \div 2^16
  <2>1. m \in Nat
    BY <1>1
  <2>2. /\ 16 \in w <=> m % 2 = 1
        /\ 16 + 1 \in w <=> (m \div 2) % 2 = 1
        /\ 16 + 2 \in w <=> (m \div 4) % 2 = 1
        /\ 16 + 3 \in w <=> (m \div 8) % 2 = 1
    <3>1. /\ 16 \in w <=> (n \div 2^16) % 2 = 1
          /\ 17 \in w <=> (n \div 2^17) % 2 = 1
          /\ 18 \in w <=> (n \div 2^18) % 2 = 1
          /\ 19 \in w <=> (n \div 2^19) % 2 = 1
      BY <1>2
    <3>2. /\ n \div 2^17 = m \div 2
          /\ n \div 2^18 = m \div 4
          /\ n \div 2^19 = m \div 8
      BY <1>1
    <3>3. /\ 16 + 1 = 17 /\ 16 + 2 = 18 /\ 16 + 3 = 19
      OBVIOUS
    <3> QED
      BY <3>1, <3>2, <3>3, Zenon
  <2> HIDE DEF m
  <2>3. Nibble(w, 16) = m % 16
    BY <2>1, <2>2, NibbleOf
  <2> QED
    BY <2>3 DEF m
<1>8. Nibble(w, 20) = (n \div 2^20) % 16
  <2> DEFINE m == n \div 2^20
  <2>1. m \in Nat
    BY <1>1
  <2>2. /\ 20 \in w <=> m % 2 = 1
        /\ 20 + 1 \in w <=> (m \div 2) % 2 = 1
        /\ 20 + 2 \in w <=> (m \div 4) % 2 = 1
        /\ 20 + 3 \in w <=> (m \div 8) % 2 = 1
    <3>1. /\ 20 \in w <=> (n \div 2^20) % 2 = 1
          /\ 21 \in w <=> (n \div 2^21) % 2 = 1
          /\ 22 \in w <=> (n \div 2^22) % 2 = 1
          /\ 23 \in w <=> (n \div 2^23) % 2 = 1
      BY <1>2
    <3>2. /\ n \div 2^21 = m \div 2
          /\ n \div 2^22 = m \div 4
          /\ n \div 2^23 = m \div 8
      BY <1>1
    <3>3. /\ 20 + 1 = 21 /\ 20 + 2 = 22 /\ 20 + 3 = 23
      OBVIOUS
    <3> QED
      BY <3>1, <3>2, <3>3, Zenon
  <2> HIDE DEF m
  <2>3. Nibble(w, 20) = m % 16
    BY <2>1, <2>2, NibbleOf
  <2> QED
    BY <2>3 DEF m
<1>9. Nibble(w, 24) = (n \div 2^24) % 16
  <2> DEFINE m == n \div 2^24
  <2>1. m \in Nat
    BY <1>1
  <2>2. /\ 24 \in w <=> m % 2 = 1
        /\ 24 + 1 \in w <=> (m \div 2) % 2 = 1
        /\ 24 + 2 \in w <=> (m \div 4) % 2 = 1
        /\ 24 + 3 \in w <=> (m \div 8) % 2 = 1
    <3>1. /\ 24 \in w <=> (n \div 2^24) % 2 = 1
          /\ 25 \in w <=> (n \div 2^25) % 2 = 1
          /\ 26 \in w <=> (n \div 2^26) % 2 = 1
          /\ 27 \in w <=> (n \div 2^27) % 2 = 1
      BY <1>2
    <3>2. /\ n \div 2^25 = m \div 2
          /\ n \div 2^26 = m \div 4
          /\ n \div 2^27 = m \div 8
      BY <1>1
    <3>3. /\ 24 + 1 = 25 /\ 24 + 2 = 26 /\ 24 + 3 = 27
      OBVIOUS
    <3> QED
      BY <3>1, <3>2, <3>3, Zenon
  <2> HIDE DEF m
  <2>3. Nibble(w, 24) = m % 16
    BY <2>1, <2>2, NibbleOf
  <2> QED
    BY <2>3 DEF m
<1>10. Nibble(w, 28) = (n \div 2^28) % 16
  <2> DEFINE m == n \div 2^28
  <2>1. m \in Nat
    BY <1>1
  <2>2. /\ 28 \in w <=> m % 2 = 1
        /\ 28 + 1 \in w <=> (m \div 2) % 2 = 1
        /\ 28 + 2 \in w <=> (m \div 4) % 2 = 1
        /\ 28 + 3 \in w <=> (m \div 8) % 2 = 1
    <3>1. /\ 28 \in w <=> (n \div 2^28) % 2 = 1
          /\ 29 \in w <=> (n \div 2^29) % 2 = 1
          /\ 30 \in w <=> (n \div 2^30) % 2 = 1
          /\ 31 \notin w
      BY <1>2
    <3>2. /\ n \div 2^29 = m \div 2
          /\ n \div 2^30 = m \div 4
          /\ m \div 8 = 0
      BY <1>1
    <3>3. /\ 28 + 1 = 29 /\ 28 + 2 = 30 /\ 28 + 3 = 31
      OBVIOUS
    <3>4. 0 % 2 # 1
      OBVIOUS
    <3> QED
      BY <3>1, <3>2, <3>3, <3>4, Zenon
  <2> HIDE DEF m
  <2>3. Nibble(w, 28) = m % 16
    BY <2>1, <2>2, NibbleOf
  <2> QED
    BY <2>3 DEF m
<1> QED
  BY <1>3, <1>4, <1>5, <1>6, <1>7, <1>8, <1>9, <1>10, Zenon DEF w

\* The word of a number stands for it.
LEMMA ValWord ==
    ASSUME NEW n \in 0..(2^31 - 1)
    PROVE  Val(Word(n)) = n
<1>1. (n % 16) + 16 * ((n \div 2^4) % 16) + 2^8 * ((n \div 2^8) % 16)
      + 2^12 * ((n \div 2^12) % 16) + 2^16 * ((n \div 2^16) % 16)
      + 2^20 * ((n \div 2^20) % 16) + 2^24 * ((n \div 2^24) % 16)
      + 2^28 * ((n \div 2^28) % 16) = n
  <2>1. n \in Nat /\ n < 2^31
    OBVIOUS
  <2>2. n = 16 * (n \div 2^4) + (n % 16)
    BY <2>1, SMT
  <2>3. (n \div 2^4) = 16 * (n \div 2^8) + ((n \div 2^4) % 16)
    BY <2>1, SMT
  <2>4. (n \div 2^8) = 16 * (n \div 2^12) + ((n \div 2^8) % 16)
    BY <2>1, SMT
  <2>5. (n \div 2^12) = 16 * (n \div 2^16) + ((n \div 2^12) % 16)
    BY <2>1, SMT
  <2>6. (n \div 2^16) = 16 * (n \div 2^20) + ((n \div 2^16) % 16)
    BY <2>1, SMT
  <2>7. (n \div 2^20) = 16 * (n \div 2^24) + ((n \div 2^20) % 16)
    BY <2>1, SMT
  <2>8. (n \div 2^24) = 16 * (n \div 2^28) + ((n \div 2^24) % 16)
    BY <2>1, SMT
  <2>9. (n \div 2^28) % 16 = n \div 2^28
    BY <2>1, SMT
  <2> QED
    BY <2>1, <2>2, <2>3, <2>4, <2>5, <2>6, <2>7, <2>8, <2>9, SMT
<1> DEFINE w == Word(n)
<1>2. /\ Nibble(w, 0) = n % 16 /\ Nibble(w, 4) = (n \div 2^4) % 16
      /\ Nibble(w, 8) = (n \div 2^8) % 16 /\ Nibble(w, 12) = (n \div 2^12) % 16
      /\ Nibble(w, 16) = (n \div 2^16) % 16 /\ Nibble(w, 20) = (n \div 2^20) % 16
      /\ Nibble(w, 24) = (n \div 2^24) % 16 /\ Nibble(w, 28) = (n \div 2^28) % 16
  BY WordNibbles, Zenon
<1> HIDE DEF w
<1>3. Val(w) = n
  BY <1>1, <1>2, SMT DEF Val
<1> QED
  BY <1>3, Zenon DEF w

\* How far a nibble's value and its bits bound each other.
LEMMA NibbleClear ==
    ASSUME NEW w, NEW i \in Nat
    PROVE  /\ Nibble(w, i) = 0 => i \notin w /\ i + 1 \notin w /\ i + 2 \notin w /\ i + 3 \notin w
           /\ i + 1 \notin w /\ i + 2 \notin w /\ i + 3 \notin w => Nibble(w, i) < 2
           /\ i + 2 \notin w /\ i + 3 \notin w => Nibble(w, i) < 4
           /\ i + 3 \notin w => Nibble(w, i) < 8
           /\ Nibble(w, i) < 8 => i + 3 \notin w
           /\ Nibble(w, i) < 4 => i + 2 \notin w /\ i + 3 \notin w
           /\ Nibble(w, i) < 2 => i + 1 \notin w /\ i + 2 \notin w /\ i + 3 \notin w
<1>1. /\ Bit(w, i) \in {0, 1} /\ Bit(w, i + 1) \in {0, 1}
      /\ Bit(w, i + 2) \in {0, 1} /\ Bit(w, i + 3) \in {0, 1}
  BY BitValue
<1>2. \A j : Bit(w, j) = 1 <=> j \in w
  BY DEF Bit
<1> QED
  BY <1>1, <1>2 DEF Nibble

\* A word has no nibble above its bound.
LEMMA NibbleAbove ==
    ASSUME NEW w, NEW i \in Nat, NEW b \in Nat, b <= i, Below(w, b), w \in SUBSET Nat
    PROVE  Nibble(w, i) = 0
<1>1. \A k \in 0..3 : i + k \notin w
  BY DEF Below, Bits
<1> QED
  BY <1>1, NibbleZero

\* A number is below a power of two when its word has no bit above.
LEMMA WordBelow ==
    ASSUME NEW n \in 0..(2^31 - 1)
    PROVE  /\ Below(Word(n), 4) <=> n < 2^4
           /\ Below(Word(n), 11) <=> n < 2^11
           /\ Below(Word(n), 18) <=> n < 2^18
           /\ Below(Word(n), 25) <=> n < 2^25
           /\ Below(Word(n), 29) <=> n < 2^29
<1> DEFINE w == Word(n)
           a(i) == Nibble(w, i)
<1>1. w \in SUBSET (0..30) /\ w \in SUBSET Nat
  BY WordBits
<1>2. /\ a(0) = n % 16 /\ a(4) = (n \div 2^4) % 16 /\ a(8) = (n \div 2^8) % 16
      /\ a(12) = (n \div 2^12) % 16 /\ a(16) = (n \div 2^16) % 16
      /\ a(20) = (n \div 2^20) % 16 /\ a(24) = (n \div 2^24) % 16
      /\ a(28) = (n \div 2^28) % 16
  BY WordNibbles, Zenon
<1>3. \A i \in Nat :
        /\ a(i) = 0 => i \notin w /\ i + 1 \notin w /\ i + 2 \notin w /\ i + 3 \notin w
        /\ i + 1 \notin w /\ i + 2 \notin w /\ i + 3 \notin w => a(i) < 2
        /\ i + 2 \notin w /\ i + 3 \notin w => a(i) < 4
        /\ i + 3 \notin w => a(i) < 8
        /\ a(i) < 8 => i + 3 \notin w
        /\ a(i) < 4 => i + 2 \notin w /\ i + 3 \notin w
        /\ a(i) < 2 => i + 1 \notin w /\ i + 2 \notin w /\ i + 3 \notin w
  BY NibbleClear, Zenon
<1>4. \A b \in Nat : Below(w, b) => \A i \in Nat : b <= i => a(i) = 0
  BY <1>1, NibbleAbove, Zenon
<1>5. \A b \in Nat : Below(w, b) <=> \A i \in 0..30 : i \in w => i < b
  BY <1>1 DEF Below, Bits
<1> HIDE DEF w, a
<1>6. Below(w, 4) <=> n < 2^4
  <2>1. ASSUME Below(w, 4) PROVE n < 2^4
    <3>1. a(4) = 0 /\ a(8) = 0 /\ a(12) = 0 /\ a(16) = 0 /\ a(20) = 0 /\ a(24) = 0 /\ a(28) = 0
      BY <1>4, <2>1
    <3> QED
      BY <1>2, <3>1
  <2>2. ASSUME n < 2^4 PROVE Below(w, 4)
    <3>1. a(4) = 0 /\ a(8) = 0 /\ a(12) = 0 /\ a(16) = 0 /\ a(20) = 0 /\ a(24) = 0 /\ a(28) = 0
      BY <1>2, <2>2
    <3>2. \A i \in 4..30 : i \notin w
      BY <1>3, <3>1
    <3> QED
      BY <1>5, <3>2
  <2> QED
    BY <2>1, <2>2
<1>7. Below(w, 11) <=> n < 2^11
  <2>1. ASSUME Below(w, 11) PROVE n < 2^11
    <3>1. a(12) = 0 /\ a(16) = 0 /\ a(20) = 0 /\ a(24) = 0 /\ a(28) = 0
      BY <1>4, <2>1
    <3>2. 11 \notin w
      BY <1>5, <2>1
    <3>3. a(8) < 8
      BY <1>3, <3>2
    <3> QED
      BY <1>2, <3>1, <3>3
  <2>2. ASSUME n < 2^11 PROVE Below(w, 11)
    <3>1. a(8) < 8 /\ a(12) = 0 /\ a(16) = 0 /\ a(20) = 0 /\ a(24) = 0 /\ a(28) = 0
      BY <1>2, <2>2
    <3>2. \A i \in 11..30 : i \notin w
      BY <1>3, <3>1
    <3> QED
      BY <1>5, <3>2
  <2> QED
    BY <2>1, <2>2
<1>8. Below(w, 18) <=> n < 2^18
  <2>1. ASSUME Below(w, 18) PROVE n < 2^18
    <3>1. a(20) = 0 /\ a(24) = 0 /\ a(28) = 0
      BY <1>4, <2>1
    <3>2. 18 \notin w /\ 19 \notin w
      BY <1>5, <2>1
    <3>3. a(16) < 4
      BY <1>3, <3>2
    <3> QED
      BY <1>2, <3>1, <3>3
  <2>2. ASSUME n < 2^18 PROVE Below(w, 18)
    <3>1. a(16) < 4 /\ a(20) = 0 /\ a(24) = 0 /\ a(28) = 0
      BY <1>2, <2>2
    <3>2. \A i \in 18..30 : i \notin w
      BY <1>3, <3>1
    <3> QED
      BY <1>5, <3>2
  <2> QED
    BY <2>1, <2>2
<1>9. Below(w, 25) <=> n < 2^25
  <2>1. ASSUME Below(w, 25) PROVE n < 2^25
    <3>1. a(28) = 0
      BY <1>4, <2>1
    <3>2. 25 \notin w /\ 26 \notin w /\ 27 \notin w
      BY <1>5, <2>1
    <3>3. a(24) < 2
      BY <1>3, <3>2
    <3> QED
      BY <1>2, <3>1, <3>3
  <2>2. ASSUME n < 2^25 PROVE Below(w, 25)
    <3>1. a(24) < 2 /\ a(28) = 0
      BY <1>2, <2>2
    <3>2. \A i \in 25..30 : i \notin w
      BY <1>3, <3>1
    <3> QED
      BY <1>5, <3>2
  <2> QED
    BY <2>1, <2>2
<1>10. Below(w, 29) <=> n < 2^29
  <2>1. ASSUME Below(w, 29) PROVE n < 2^29
    <3>1. 29 \notin w /\ 30 \notin w /\ 31 \notin w
      BY <1>1, <1>5, <2>1
    <3>2. a(28) < 2
      BY <1>3, <3>1
    <3> QED
      BY <1>2, <3>2
  <2>2. ASSUME n < 2^29 PROVE Below(w, 29)
    <3>1. a(28) < 2
      BY <1>2, <2>2
    <3>2. \A i \in 29..30 : i \notin w
      BY <1>3, <3>1
    <3> QED
      BY <1>5, <3>2
  <2> QED
    BY <2>1, <2>2
<1> QED
  BY <1>6, <1>7, <1>8, <1>9, <1>10, Zenon DEF w

-----------------------------------------------------------------------------
(* Tags. *)

\* tag_pack spells the field number shifted by the three bits of the wire type,
\* on either side of 2^29, in the bytes get_tag_size counts.
LEMMA TagSpells ==
    ASSUME NEW id \in 0..(2^31 - 1)
    PROVE  /\ Spells(tag_pack(id), Shl(Word(id), 3, 64))
           /\ Len(tag_pack(id)) = get_tag_size(id)
<1> DEFINE w == Word(id)
           x == Shl(w, 3, 64)
           y == Shl(w, 3, 32)
           t == tag_pack(id)
           hi == Shr(x, 32)
<1>1. w \in SUBSET (0..30) /\ w \in SUBSET Nat
  BY WordBits
<1>2. x \in SUBSET Bits(64) /\ \A i \in Nat : i \in x <=> i < 64 /\ i >= 3 /\ i - 3 \in w
  BY <1>1, 3 \in Nat, 64 \in Nat, ShlBits
<1>3. y \in SUBSET Bits(32) /\ \A i \in Nat : i \in y <=> i < 32 /\ i >= 3 /\ i - 3 \in w
  BY <1>1, 3 \in Nat, 32 \in Nat, ShlBits
<1>4. /\ Below(w, 4) <=> id < 2^4
      /\ Below(w, 11) <=> id < 2^11
      /\ Below(w, 18) <=> id < 2^18
      /\ Below(w, 25) <=> id < 2^25
      /\ Below(w, 29) <=> id < 2^29
  BY WordBelow
<1>5. t = IF id < 2^29 THEN uint32_pack(y) ELSE uint64_pack(x)
  BY Zenon DEF tag_pack
<1>6. get_tag_size(id) =
        IF id < 2^4 THEN 1 ELSE IF id < 2^11 THEN 2 ELSE IF id < 2^18 THEN 3
        ELSE IF id < 2^25 THEN 4 ELSE 5
  BY DEF get_tag_size
<1>7. x \in SUBSET Nat
  BY <1>2 DEF Bits
<1>8. hi \in SUBSET Nat /\ \A i \in Nat : i \in hi <=> i + 32 \in x
  BY <1>7, 32 \in Nat, ShrBits
<1> HIDE DEF w, x, y, t, hi
<1>9. \A b \in Nat : Below(w, b) <=> \A i \in w : i < b
  BY <1>1 DEF Below, Bits
<1>10. CASE id < 2^29
  <2>1. \A i \in w : i \in Nat /\ i < 29
    BY <1>1, <1>4, <1>9, <1>10
  <2>2. x = y
    <3>1. \A i \in Nat : i \in x <=> i \in y
      BY <1>2, <1>3, <2>1
    <3>2. y \in SUBSET Nat
      BY <1>3 DEF Bits
    <3> QED
      BY <1>7, <3>1, <3>2, Zenon
  <2>3. Spells(uint32_pack(y), y) /\ Len(uint32_pack(y)) = uint32_size(y)
    BY <1>3, Uint32Spells, Zenon
  <2>4. \A b \in Nat : Below(y, b + 3) <=> Below(w, b)
    <3> SUFFICES ASSUME NEW b \in Nat PROVE Below(y, b + 3) <=> Below(w, b)
      OBVIOUS
    <3>1. Below(y, b + 3) <=> \A i \in y : i < b + 3
      BY <1>3 DEF Below, Bits
    <3>2. ASSUME \A i \in y : i < b + 3, NEW j \in w PROVE j < b
      <4>1. j + 3 \in Nat /\ j + 3 < 32 /\ j + 3 >= 3 /\ (j + 3) - 3 = j
        BY <2>1
      <4>2. j + 3 \in y
        BY <1>3, <4>1
      <4>3. j + 3 < b + 3
        BY <3>2, <4>2
      <4> QED
        BY <2>1, <4>3
    <3>3. ASSUME \A j \in w : j < b, NEW i \in y PROVE i < b + 3
      <4>1. i \in Nat
        BY <1>3 DEF Bits
      <4>2. i - 3 \in w /\ i >= 3
        BY <1>3, <4>1
      <4>3. i - 3 < b
        BY <3>3, <4>2
      <4> QED
        BY <4>1, <4>3
    <3> QED
      BY <1>9, <3>1, <3>2, <3>3, Zenon
  <2>5. /\ Below(y, 7) <=> id < 2^4
        /\ Below(y, 14) <=> id < 2^11
        /\ Below(y, 21) <=> id < 2^18
        /\ Below(y, 28) <=> id < 2^25
    <3>1. /\ 4 \in Nat /\ 11 \in Nat /\ 18 \in Nat /\ 25 \in Nat
          /\ 4 + 3 = 7 /\ 11 + 3 = 14 /\ 18 + 3 = 21 /\ 25 + 3 = 28
      OBVIOUS
    <3> QED
      BY <1>4, <2>4, <3>1, Zenon
  <2>6. uint32_size(y) = get_tag_size(id)
    BY <1>6, <2>5, Zenon DEF uint32_size
  <2>7. t = uint32_pack(y)
    BY <1>5, <1>10, Zenon
  <2> QED
    BY <2>2, <2>3, <2>6, <2>7, Zenon DEF t, x, w
<1>11. CASE ~(id < 2^29)
  <2>1. Spells(uint64_pack(x), x) /\ Len(uint64_pack(x)) = uint64_size(x)
    BY <1>2, Uint64Spells, Zenon
  <2>2. hi # {}
    <3>1. PICK i \in w : ~(i < 29)
      BY <1>4, <1>9, <1>11, 29 \in Nat
    <3>2. i \in 0..30
      BY <1>1, <3>1
    <3>3. i - 29 \in Nat /\ (i - 29) + 32 = i + 3 /\ i + 3 \in Nat /\ i + 3 < 64 /\ i + 3 >= 3
          /\ (i + 3) - 3 = i
      BY <3>1, <3>2
    <3>4. i + 3 \in x
      BY <1>2, <3>1, <3>3
    <3>5. i - 29 \in hi
      BY <1>8, <3>3, <3>4
    <3> QED
      BY <3>5
  <2>3. Below(hi, 3)
    <3> SUFFICES ASSUME NEW i \in hi PROVE i \in 0..2
      BY DEF Below, Bits
    <3>1. i \in Nat /\ i + 32 \in Nat /\ i + 32 \in x
      BY <1>8
    <3>2. (i + 32) - 3 \in w
      BY <1>2, <3>1
    <3>3. (i + 32) - 3 \in 0..30
      BY <1>1, <3>2
    <3> QED
      BY <3>1, <3>3
  <2>4. uint64_size(x) = 5
    BY <2>2, <2>3, Zenon DEF uint64_size, hi
  <2>5. get_tag_size(id) = 5
    BY <1>6, <1>11
  <2>6. t = uint64_pack(x)
    BY <1>5, <1>11, Zenon
  <2> QED
    BY <2>1, <2>4, <2>5, <2>6, Zenon DEF t, x, w
<1> QED
  BY <1>10, <1>11

\* Digits are read from the bytes at their places only.
LEMMA DigitsPrefix ==
    ASSUME NEW d \in Seq(Byte), NEW rest \in Seq(Byte), NEW n \in Nat, n <= Len(d), NEW width
    PROVE  Digits7(d \o rest, n, width) = Digits7(d, n, width)
<1>1. \A k \in 1..n : (d \o rest)[k] = d[k]
  OBVIOUS
<1> DEFINE e == d \o rest
<1> HIDE DEF e
<1>2. \A k \in 1..n : e[k] = d[k]
  BY <1>1 DEF e
<1>3. \A i : i \in Digits7(e, n, width) <=> i \in Digits7(d, n, width)
  BY <1>2 DEF Digits7
<1> QED
  BY <1>3, Zenon DEF e

\* The wire type goes into bits of the first byte that the tag leaves free.
LEMMA TaggedSpells ==
    ASSUME NEW t, NEW x \in SUBSET (3..33), Spells(t, x), NEW w \in SUBSET (0..2),
           NEW g, g = <<t[1] \cup w>> \o Tail(t)
    PROVE  Spells(g, x \cup w) /\ Len(g) = Len(t) /\ Low(g[1], 3) = w
<1> DEFINE n == Len(t)
           a == t[1] \cup w
<1>1. /\ t \in Seq(Byte) /\ n \in 1..10
      /\ \A i \in x : i \in Nat /\ i < 7 * n
      /\ \A k \in 1..n : /\ 7 \in t[k] <=> k < n
                         /\ \A j \in 0..6 : j \in t[k] <=> j + 7 * (k - 1) \in x
  BY Zenon DEF Spells
<1>2. a \in Byte
  <2>1. t[1] \in Byte
    BY <1>1
  <2>2. \A i \in t[1] : i \in Bits(8)
    BY <2>1, Zenon DEF Byte
  <2>3. \A i \in w : i \in Bits(8)
    BY DEF Bits
  <2> QED
    BY <2>2, <2>3, Zenon DEF Byte
<1>3. /\ g \in Seq(Byte) /\ Len(g) = n /\ g[1] = a
      /\ \A k \in 2..n : g[k] = t[k]
  BY <1>1, <1>2
<1> HIDE DEF a, n
<1>4. 7 \in a <=> 7 \in t[1]
  BY DEF a
<1>5. \A j \in 0..6 : j \in t[1] <=> j \in x
  <2>1. 1 \in 1..n /\ 7 * (1 - 1) = 0 /\ \A j \in 0..6 : j + 0 = j
    BY <1>1
  <2> QED
    BY <1>1, <2>1, Zenon
<1>6. \A k \in 1..n : k = 1 \/ k \in 2..n
  BY <1>1
<1>7. \A k \in 1..n : 7 \in g[k] <=> k < n
  BY <1>1, <1>3, <1>4, <1>6, Zenon
<1>8. \A k \in 1..n : \A j \in 0..6 : j \in g[k] <=> j + 7 * (k - 1) \in x \cup w
  <2>1. \A j \in 0..6 : j \in a <=> j \in x \cup w
    BY <1>5, Zenon DEF a
  <2>2. 7 * (1 - 1) = 0 /\ \A j \in 0..6 : j + 0 = j
    OBVIOUS
  <2>3. \A k \in 2..n : \A j \in 0..6 : j + 7 * (k - 1) \notin w
    BY <1>1
  <2>4. \A k \in 2..n : k \in 1..n
    BY <1>1
  <2>5. \A j \in 0..6 : j \in g[1] <=> j + 7 * (1 - 1) \in x \cup w
    BY <1>3, <2>1, <2>2, Zenon
  <2>6. ASSUME NEW k \in 2..n, NEW j \in 0..6
        PROVE  j \in g[k] <=> j + 7 * (k - 1) \in x \cup w
    <3>1. g[k] = t[k] /\ (j \in t[k] <=> j + 7 * (k - 1) \in x)
      BY <1>1, <1>3, <2>4, Zenon
    <3> QED
      BY <2>3, <3>1, Zenon
  <2> QED
    BY <1>6, <2>5, <2>6, Zenon
<1>9. \A i \in x \cup w : i \in Nat /\ i < 7 * n
  BY <1>1
<1>10. Low(g[1], 3) = w
  <2>1. \A i \in 0..2 : i \notin x /\ i \in 0..6
    OBVIOUS
  <2>2. \A i \in 0..2 : i \in a <=> i \in w
    BY <1>5, <2>1, Zenon DEF a
  <2>3. Bits(3) = 0..2
    BY DEF Bits
  <2> QED
    BY <1>3, <2>2, <2>3, Zenon DEF Low
<1> QED
  BY <1>1, <1>3, <1>7, <1>8, <1>9, <1>10, Zenon DEF Spells, n

\* parse_tag_and_wiretype reads the field number and the wire type that
\* required_field_pack and its like wrote, in the bytes get_tag_size counted,
\* whatever follows them.
THEOREM TagRoundTrip ==
    \A id \in 0..(2^31 - 1), wire_type \in 0..5 : \A rest \in Seq(Byte) :
        /\ Len(Tagged(id, wire_type)) = get_tag_size(id)
        /\ parse_tag_and_wiretype(Tagged(id, wire_type) \o rest)
             = [used |-> get_tag_size(id), tag |-> id, wire_type |-> wire_type]
<1> SUFFICES ASSUME NEW id \in 0..(2^31 - 1), NEW wire_type \in 0..5, NEW rest \in Seq(Byte)
             PROVE  /\ Len(Tagged(id, wire_type)) = get_tag_size(id)
                    /\ parse_tag_and_wiretype(Tagged(id, wire_type) \o rest)
                         = [used |-> get_tag_size(id), tag |-> id, wire_type |-> wire_type]
  OBVIOUS
<1> DEFINE t == tag_pack(id)
           x == Shl(Word(id), 3, 64)
           w == Word(wire_type)
           g == Tagged(id, wire_type)
           v == x \cup w
           d == g \o rest
           z == Digits7(d, Len(g), 35)
<1>1. Spells(t, x) /\ Len(t) = get_tag_size(id)
  BY TagSpells, Zenon
<1>2. Word(id) \in SUBSET (0..30) /\ Word(id) \in SUBSET Nat
  BY WordBits
<1>3. x \in SUBSET Bits(64) /\ \A i \in Nat : i \in x <=> i < 64 /\ i >= 3 /\ i - 3 \in Word(id)
  BY <1>2, 3 \in Nat, 64 \in Nat, ShlBits
<1>4. w \in SUBSET (0..2)
  <2>1. wire_type \in Nat /\ wire_type < 2^4 /\ wire_type \in 0..(2^31 - 1)
    OBVIOUS
  <2>2. Below(w, 4)
    BY <2>1, WordBelow
  <2>3. Nibble(w, 0) = wire_type
    <3>1. Nibble(w, 0) = wire_type % 16
      BY <2>1, WordNibbles, Zenon
    <3>2. wire_type % 16 = wire_type
      BY <2>1
    <3> QED
      BY <3>1, <3>2, Zenon
  <2>4. 0 + 3 \notin w
    BY <2>3, NibbleClear
  <2> QED
    BY <2>2, <2>4 DEF Below, Bits
<1>5. Val(Word(id)) = id /\ Val(w) = wire_type
  <2>1. wire_type \in 0..(2^31 - 1)
    OBVIOUS
  <2> QED
    BY <2>1, ValWord
<1>6. g = <<t[1] \cup w>> \o Tail(t)
  BY Zenon DEF Tagged
<1> HIDE DEF t, x, w, g
<1>7. x \in SUBSET (3..33)
  <2>1. ASSUME NEW i \in x PROVE i \in 3..33
    <3>1. i \in Nat
      BY <1>3 DEF Bits
    <3>2. i >= 3 /\ i - 3 \in 0..30
      BY <1>2, <1>3, <3>1
    <3> QED
      BY <3>1, <3>2
  <2> QED
    BY <2>1, Zenon
<1>8. Spells(g, v) /\ Len(g) = get_tag_size(id) /\ Low(g[1], 3) = w
  <2>1. Spells(g, x \cup w) /\ Len(g) = Len(t) /\ Low(g[1], 3) = w
    BY <1>1, <1>4, <1>6, <1>7, TaggedSpells
  <2> QED
    BY <1>1, <2>1, Zenon
<1>9. get_tag_size(id) \in 1..5
  BY DEF get_tag_size
<1>10. g \in Seq(Byte)
  BY <1>8, Zenon DEF Spells
<1>11. Len(g) \in Nat /\ Len(g) <= 5 /\ Len(g) <= Len(g)
  BY <1>8, <1>9
<1>12. Ends(d, 5) # {} /\ Min(Ends(d, 5)) = Len(g)
  BY <1>8, <1>11, 5 \in Nat, FirstEnd
<1>13. z = v
  <2>1. z = Digits7(g, Len(g), 35)
    BY <1>10, <1>11, DigitsPrefix
  <2>2. v \in SUBSET Bits(35)
    BY <1>4, <1>7 DEF Bits
  <2>3. Digits7(g, Len(g), 35) = v
    BY <1>8, <2>2, 35 \in Nat, AllDigits
  <2> QED
    BY <2>1, <2>3, Zenon
<1>14. d[1] = g[1]
  BY <1>8, <1>9, <1>10
<1> HIDE DEF d, z
<1>15. Shr(v, 3) = Word(id)
  <2> DEFINE s == Shr(v, 3)
  <2>1. v \in SUBSET Nat
    BY <1>4, <1>7
  <2>2. s \in SUBSET Nat /\ \A i \in Nat : i \in s <=> i + 3 \in v
    BY <2>1, 3 \in Nat, ShrBits
  <2> HIDE DEF s, v
  <2>3. \A i \in Nat : i + 3 \in v <=> i + 3 \in x
    BY <1>4 DEF v
  <2>4. \A i \in Nat : i + 3 \in x <=> i \in Word(id)
    <3> SUFFICES ASSUME NEW i \in Nat PROVE i + 3 \in x <=> i \in Word(id)
      OBVIOUS
    <3>1. i + 3 \in Nat /\ i + 3 >= 3 /\ (i + 3) - 3 = i
      OBVIOUS
    <3>2. i + 3 \in x <=> i + 3 < 64 /\ i \in Word(id)
      BY <1>3, <3>1, Zenon
    <3>3. i \in Word(id) => i + 3 < 64
      <4>1. i \in Word(id) => i \in 0..30
        BY <1>2, Zenon
      <4>2. i \in 0..30 => i + 3 < 64
        OBVIOUS
      <4> QED
        BY <4>1, <4>2, Zenon
    <3> QED
      BY <3>2, <3>3, Zenon
  <2>5. \A i : i \in s <=> i \in Word(id)
    BY <1>2, <2>2, <2>3, <2>4, Zenon
  <2> QED
    BY <2>5 DEF s
<1>16. /\ Val(Shr(z, 3)) = id
       /\ Val(Low(d[1], 3)) = wire_type
  BY <1>5, <1>8, <1>13, <1>14, <1>15, Zenon
<1>17. parse_tag_and_wiretype(d)
         = [used |-> Len(g), tag |-> Val(Shr(z, 3)), wire_type |-> Val(Low(d[1], 3))]
  BY <1>12, Zenon DEF parse_tag_and_wiretype, z
<1> QED
  BY <1>8, <1>16, <1>17, Zenon DEF d, g

-----------------------------------------------------------------------------
(* Lengths. *)

\* scan_length_prefixed_data finds the bytes of a string, of bytes and of a
\* submessage behind the length their writers put before them, whatever
\* follows, and the prefix has the bytes uint32_size counts for it.
THEOREM PrefixRoundTrip ==
    \A bytes \in Seq(Byte), rest \in Seq(Byte) : Len(bytes) < 2^31 =>
        LET d    == Prefixed(bytes) \o rest
            scan == scan_length_prefixed_data(d)
        IN  /\ scan.pref = uint32_size(Word(Len(bytes)))
            /\ scan.len = scan.pref + Len(bytes)
            /\ Len(Prefixed(bytes)) = scan.len
            /\ SubSeq(d, scan.pref + 1, scan.len) = bytes
<1> SUFFICES ASSUME NEW bytes \in Seq(Byte), NEW rest \in Seq(Byte), Len(bytes) < 2^31
             PROVE  LET d    == Prefixed(bytes) \o rest
                        scan == scan_length_prefixed_data(d)
                    IN  /\ scan.pref = uint32_size(Word(Len(bytes)))
                        /\ scan.len = scan.pref + Len(bytes)
                        /\ Len(Prefixed(bytes)) = scan.len
                        /\ SubSeq(d, scan.pref + 1, scan.len) = bytes
  OBVIOUS
<1> DEFINE m == Len(bytes)
           w == Word(m)
           p == uint32_pack(w)
           n == Len(p)
           d == Prefixed(bytes) \o rest
           e == bytes \o rest
<1>1. m \in 0..(2^31 - 1)
  OBVIOUS
<1>2. w \in SUBSET Bits(32) /\ Val(w) = m /\ 31 \notin w
  <2>1. w \in SUBSET (0..30)
    BY <1>1, WordBits
  <2>2. Val(w) = m
    BY <1>1, ValWord
  <2> HIDE DEF w
  <2>3. w \in SUBSET Bits(32) /\ 31 \notin w
    BY <2>1 DEF Bits
  <2> QED
    BY <2>2, <2>3
<1> HIDE DEF w
<1>3. Spells(p, w) /\ n = uint32_size(w)
  BY <1>2, Uint32Spells, Zenon
<1>4. n \in 1..5
  BY <1>3 DEF uint32_size
<1>5. p \in Seq(Byte)
  BY <1>3, Zenon DEF Spells
<1>6. Prefixed(bytes) = p \o bytes
  BY Zenon DEF Prefixed, w
<1> HIDE DEF p
<1>7. e \in Seq(Byte) /\ d = p \o e
  <2>1. e \in Seq(Byte)
    OBVIOUS
  <2>2. d = (p \o bytes) \o rest
    BY <1>6, Zenon
  <2> QED
    BY <1>5, <2>1, <2>2, Association, Zenon
<1>8. /\ Len(d) \in Nat /\ Len(d) >= n + m
      /\ Len(Prefixed(bytes)) = n + m
      /\ SubSeq(d, n + 1, n + m) = bytes
  <2>1. Len(Prefixed(bytes)) = n + m
    BY <1>5, <1>6
  <2>2. Len(d) = n + m + Len(rest) /\ Len(rest) \in Nat
    BY <1>5, <1>7
  <2>3. SubSeq(d, n + 1, n + m) = bytes
    BY <1>5, <1>7
  <2> QED
    BY <1>1, <1>4, <2>1, <2>2, <2>3
<1> HIDE DEF e, d
<1>9. n \in Nat /\ n <= 5 /\ n <= n
  <2>1. \A k \in 1..5 : k \in Nat /\ k <= 5 /\ k <= k
    OBVIOUS
  <2> QED
    BY <1>4, <2>1, Zenon
<1>10. Ends(d, 5) # {} /\ Min(Ends(d, 5)) = n
  BY <1>3, <1>7, <1>9, 5 \in Nat, FirstEnd
<1>11. Digits7(d, n, 32) = w
  <2>1. Digits7(d, n, 32) = Digits7(p, n, 32)
    BY <1>5, <1>7, <1>9, DigitsPrefix, SMTT(30)
  <2>2. Digits7(p, n, 32) = w
    BY <1>2, <1>3, 32 \in Nat, AllDigits
  <2> QED
    BY <2>1, <2>2, Zenon
<1> HIDE DEF n, m
<1>16. PrefixedLen(n, w) = n + m
  BY <1>2, Zenon DEF PrefixedLen
<1>12. scan_length_prefixed_data(d) = [len |-> IF n + m > Len(d) THEN 0 ELSE n + m, pref |-> n]
  BY <1>10, <1>11, <1>16, Zenon DEF scan_length_prefixed_data
<1>13. ~(n + m > Len(d))
  BY <1>1, <1>8, <1>9
<1>14. scan_length_prefixed_data(d) = [len |-> n + m, pref |-> n]
  BY <1>12, <1>13, Zenon
<1>15. scan_length_prefixed_data(d).len = n + m /\ scan_length_prefixed_data(d).pref = n
  BY <1>14
<1> QED
  BY <1>3, <1>8, <1>15, Zenon DEF d, m, w

\* parse_boolean is true of a varint exactly when some bit of what was written
\* is set, wherever it is: so it reads what boolean_pack wrote, and takes every
\* other number but 0 for true.
THEOREM BooleanRoundTrip ==
    /\ \A v \in SUBSET Bits(1), rest \in Seq(Byte) :
          parse_boolean(FirstVarint(boolean_pack(v) \o rest)) = v
    /\ \A v \in SUBSET Bits(64), rest \in Seq(Byte) :
          parse_boolean(FirstVarint(uint64_pack(v) \o rest)) = IF v = {} THEN {} ELSE {0}
<1>1. ASSUME NEW d, NEW v, Spells(d, v), NEW rest \in Seq(Byte)
      PROVE  parse_boolean(FirstVarint(d \o rest)) = IF v = {} THEN {} ELSE {0}
  <2>1. FirstVarint(d \o rest) = d
    BY <1>1, FirstSpelled, Zenon
  <2>2. /\ d \in Seq(Byte) /\ Len(d) \in 1..10
        /\ \A i \in v : i \in Nat /\ i < 7 * Len(d)
        /\ \A k \in 1..Len(d) : \A j \in 0..6 : j \in d[k] <=> j + 7 * (k - 1) \in v
    BY <1>1, Zenon DEF Spells
  <2> DEFINE n == Len(d)
  <2> HIDE DEF n
  <2>3. ASSUME NEW k \in 1..n, d[k] \ {7} # {} PROVE v # {}
    <3>1. PICK i \in d[k] : i # 7
      BY <2>3, Zenon
    <3>2. k \in 1..Len(d) /\ d[k] \in Byte
      BY <2>2 DEF n
    <3>3. i \in 0..6
      BY <3>1, <3>2 DEF Byte, Bits
    <3>4. i + 7 * (k - 1) \in v
      BY <2>2, <3>1, <3>2, <3>3, Zenon
    <3> QED
      BY <3>4, Zenon
  <2>4. ASSUME NEW i \in v PROVE \E k \in 1..n : d[k] \ {7} # {}
    <3> DEFINE k == (i \div 7) + 1
               j == i % 7
    <3>1. i \in Nat /\ i < 7 * n /\ n \in 1..10
      BY <2>2, Zenon DEF n
    <3>2. k \in 1..n /\ j \in 0..6 /\ j + 7 * (k - 1) = i /\ j # 7
      BY <3>1
    <3> HIDE DEF k, j
    <3>3. j \in d[k]
      BY <2>2, <3>2, Zenon DEF n
    <3>4. d[k] \ {7} # {}
      BY <3>2, <3>3, Zenon
    <3> QED
      BY <3>2, <3>4, Zenon
  <2>5. parse_boolean(d) = IF \E k \in 1..n : d[k] \ {7} # {} THEN {0} ELSE {}
    BY Zenon DEF parse_boolean, n
  <2>6. (\E k \in 1..n : d[k] \ {7} # {}) <=> v # {}
    BY <2>3, <2>4, Zenon
  <2> QED
    BY <2>1, <2>5, <2>6, Zenon
<1>2. \A v \in SUBSET Bits(1) : v = {} \/ v = {0}
  <2>1. \A i \in Bits(1) : i = 0
    BY DEF Bits
  <2> QED
    BY <2>1, Zenon
<1>3. ASSUME NEW v \in SUBSET Bits(1) PROVE Spells(boolean_pack(v), v)
  <2>1. boolean_pack({}) = <<{}>> /\ boolean_pack({0}) = <<{0}>>
    BY DEF boolean_pack
  <2>2. Spells(<<{}>>, {})
    <3> DEFINE d == <<{}>>
    <3>1. d \in Seq(Byte) /\ Len(d) = 1 /\ d[1] = {}
      BY DEF Byte
    <3> HIDE DEF d
    <3>2. 1 \in 1..10 /\ ~(1 < 1) /\ \A k \in 1..1 : k = 1
      OBVIOUS
    <3>3. Spells(d, {})
      BY <3>1, <3>2, Zenon DEF Spells
    <3> QED
      BY <3>3 DEF d
  <2>3. Spells(<<{0}>>, {0})
    <3> DEFINE d == <<{0}>>
    <3>1. d \in Seq(Byte) /\ Len(d) = 1 /\ d[1] = {0}
      BY DEF Byte, Bits
    <3> HIDE DEF d
    <3>2. 1 \in 1..10 /\ ~(1 < 1) /\ \A k \in 1..1 : k = 1
      OBVIOUS
    <3>3. \A j \in 0..6 : j \in {0} <=> j + 7 * (1 - 1) \in {0}
      OBVIOUS
    <3>4. 7 \notin {0} /\ 0 \in Nat /\ 0 < 7 * 1
      OBVIOUS
    <3>5. Spells(d, {0})
      BY <3>1, <3>2, <3>3, <3>4 DEF Spells
    <3> QED
      BY <3>5 DEF d
  <2>4. CASE v = {}
    BY <2>1, <2>2, <2>4, Zenon
  <2>5. CASE v = {0}
    BY <2>1, <2>3, <2>5, Zenon
  <2> QED
    BY <1>2, <2>4, <2>5, Zenon
<1>4. ASSUME NEW v \in SUBSET Bits(1), NEW rest \in Seq(Byte)
      PROVE  parse_boolean(FirstVarint(boolean_pack(v) \o rest)) = v
  <2>1. v = IF v = {} THEN {} ELSE {0}
    BY <1>2, Zenon
  <2> QED
    BY <1>1, <1>3, <2>1, Zenon
<1>5. ASSUME NEW v \in SUBSET Bits(64), NEW rest \in Seq(Byte)
      PROVE  parse_boolean(FirstVarint(uint64_pack(v) \o rest)) = IF v = {} THEN {} ELSE {0}
  BY <1>1, Uint64Spells, Zenon
<1> QED
  BY <1>4, <1>5, Zenon
=============================================================================
