---------------------------- MODULE Words_proofs ----------------------------
(***************************************************************************)
(* Lemmas about machine words: what a shift does to each bit, and which    *)
(* number four bits, eight bits and sixteen bits stand for.                *)
(***************************************************************************)
EXTENDS Words, TLAPS

\* Each bit of a word shifted to the right.
LEMMA ShrBits ==
    ASSUME NEW w \in SUBSET Nat, NEW n \in Nat
    PROVE  /\ Shr(w, n) \in SUBSET Nat
           /\ \A i \in Nat : i \in Shr(w, n) <=> i + n \in w
BY DEF Shr

\* Each bit of a word shifted to the left within a width.
LEMMA ShlBits ==
    ASSUME NEW w \in SUBSET Nat, NEW n \in Nat, NEW width \in Nat
    PROVE  /\ Shl(w, n, width) \in SUBSET Bits(width)
           /\ \A i \in Nat : i \in Shl(w, n, width) <=> i < width /\ i >= n /\ i - n \in w
BY DEF Shl, Bits

\* A bit stands for 0 or 1.
LEMMA BitValue == \A w, i : Bit(w, i) \in {0, 1}
BY DEF Bit

\* Four bits stand for a number below 16.
LEMMA NibbleValue == ASSUME NEW w, NEW i PROVE Nibble(w, i) \in 0..15
<1>1. /\ Bit(w, i) \in {0, 1} /\ Bit(w, i + 1) \in {0, 1}
      /\ Bit(w, i + 2) \in {0, 1} /\ Bit(w, i + 3) \in {0, 1}
  BY BitValue
<1> QED
  BY <1>1 DEF Nibble

\* Eight nibbles at their places add up to a natural number.
LEMMA NibbleSum ==
    \A a, b, c, d, e, f, g, h \in Nat :
        a + 16 * b + 256 * c + 4096 * d + 65536 * e + 1048576 * f + 16777216 * g
        + 268435456 * h \in Nat
OBVIOUS

\* A word stands for a natural number.
LEMMA ValNat == ASSUME NEW w PROVE Val(w) \in Nat
<1>1. /\ Nibble(w, 0) \in Nat /\ Nibble(w, 4) \in Nat
      /\ Nibble(w, 8) \in Nat /\ Nibble(w, 12) \in Nat
      /\ Nibble(w, 16) \in Nat /\ Nibble(w, 20) \in Nat
      /\ Nibble(w, 24) \in Nat /\ Nibble(w, 28) \in Nat
  BY NibbleValue
<1> QED
  BY <1>1, NibbleSum DEF Val

\* Equal bits, equal nibbles.
LEMMA NibbleSame ==
    ASSUME NEW w, NEW i \in Nat, NEW v, NEW j \in Nat,
           \A k \in 0..3 : i + k \in w <=> j + k \in v
    PROVE  Nibble(w, i) = Nibble(v, j)
<1>1. Bit(w, i) = Bit(v, j)
  BY 0 \in 0..3 DEF Bit
<1>2. Bit(w, i + 1) = Bit(v, j + 1)
  BY 1 \in 0..3 DEF Bit
<1>3. Bit(w, i + 2) = Bit(v, j + 2)
  BY 2 \in 0..3 DEF Bit
<1>4. Bit(w, i + 3) = Bit(v, j + 3)
  BY 3 \in 0..3 DEF Bit
<1> QED
  BY <1>1, <1>2, <1>3, <1>4 DEF Nibble

\* Four clear bits are a nibble of 0.
LEMMA NibbleZero ==
    ASSUME NEW w, NEW i \in Nat, \A k \in 0..3 : i + k \notin w
    PROVE  Nibble(w, i) = 0
<1>1. /\ Bit(w, i) = 0 /\ Bit(w, i + 1) = 0 /\ Bit(w, i + 2) = 0 /\ Bit(w, i + 3) = 0
  BY 0 \in 0..3, 1 \in 0..3, 2 \in 0..3, 3 \in 0..3 DEF Bit
<1> QED
  BY <1>1 DEF Nibble

\* The value of a byte, and its two nibbles from the value.
LEMMA ByteValue ==
    ASSUME NEW b \in SUBSET Bits(8)
    PROVE  /\ Val(b) = Nibble(b, 0) + 16 * Nibble(b, 4)
           /\ Val(b) \in 0..255
           /\ Val(b) % 16 = Nibble(b, 0)
           /\ Val(b) \div 16 = Nibble(b, 4)
<1>1. /\ Nibble(b, 8) = 0 /\ Nibble(b, 12) = 0 /\ Nibble(b, 16) = 0 /\ Nibble(b, 20) = 0
      /\ Nibble(b, 24) = 0 /\ Nibble(b, 28) = 0
  BY NibbleZero DEF Bits
<1>2. Nibble(b, 0) \in 0..15 /\ Nibble(b, 4) \in 0..15
  BY NibbleValue
<1>3. Val(b) = Nibble(b, 0) + 16 * Nibble(b, 4)
  BY <1>1, <1>2 DEF Val
<1> QED
  BY <1>2, <1>3

\* The three-bit fields of a byte that the registers of the sensor have.
LEMMA ByteFields ==
    ASSUME NEW b \in SUBSET Bits(8)
    PROVE  /\ Val(b) % 8 = Bit(b, 0) + 2 * Bit(b, 1) + 4 * Bit(b, 2)
           /\ (Val(b) \div 4) % 8 = Bit(b, 2) + 2 * Bit(b, 3) + 4 * Bit(b, 4)
           /\ Val(b) \div 32 = Bit(b, 5) + 2 * Bit(b, 6) + 4 * Bit(b, 7)
<1>1. /\ Bit(b, 0) \in {0, 1} /\ Bit(b, 1) \in {0, 1} /\ Bit(b, 2) \in {0, 1}
      /\ Bit(b, 3) \in {0, 1} /\ Bit(b, 4) \in {0, 1} /\ Bit(b, 5) \in {0, 1}
      /\ Bit(b, 6) \in {0, 1} /\ Bit(b, 7) \in {0, 1}
  BY BitValue
<1>2. Val(b) = Bit(b, 0) + 2 * Bit(b, 1) + 4 * Bit(b, 2) + 8 * Bit(b, 3)
               + 16 * (Bit(b, 4) + 2 * Bit(b, 5) + 4 * Bit(b, 6) + 8 * Bit(b, 7))
  BY ByteValue DEF Nibble
<1> QED
  BY <1>1, <1>2

\* The highest bit of a byte is set from 128 on.
LEMMA ByteSign ==
    ASSUME NEW b \in SUBSET Bits(8)
    PROVE  /\ 7 \in b <=> Nibble(b, 4) >= 8
           /\ 7 \in b <=> Val(b) >= 128
<1>1. /\ Bit(b, 4) \in {0, 1} /\ Bit(b, 5) \in {0, 1} /\ Bit(b, 6) \in {0, 1}
      /\ Bit(b, 7) \in {0, 1}
  BY BitValue
<1>2. Nibble(b, 4) = Bit(b, 4) + 2 * Bit(b, 5) + 4 * Bit(b, 6) + 8 * Bit(b, 7)
  BY DEF Nibble
<1>3. 7 \in b <=> Bit(b, 7) = 1
  BY DEF Bit
<1>4. 7 \in b <=> Nibble(b, 4) >= 8
  BY <1>1, <1>2, <1>3
<1>5. Nibble(b, 0) \in 0..15 /\ Nibble(b, 4) \in 0..15
  BY NibbleValue
<1> QED
  BY <1>4, <1>5, ByteValue

\* The value of a 16-bit word, from its nibbles.
LEMMA ShortValue ==
    ASSUME NEW w \in SUBSET Bits(16)
    PROVE  Val(w) = Nibble(w, 0) + 16 * Nibble(w, 4) + 256 * Nibble(w, 8) + 4096 * Nibble(w, 12)
<1>1. /\ Nibble(w, 16) = 0 /\ Nibble(w, 20) = 0 /\ Nibble(w, 24) = 0 /\ Nibble(w, 28) = 0
  BY NibbleZero DEF Bits
<1>2. /\ Nibble(w, 0) \in 0..15 /\ Nibble(w, 4) \in 0..15
      /\ Nibble(w, 8) \in 0..15 /\ Nibble(w, 12) \in 0..15
  BY NibbleValue
<1> QED
  BY <1>1, <1>2, SMTT(30) DEF Val
=============================================================================
