-------------------------------- MODULE Words --------------------------------
(***************************************************************************)
(* Machine words.  A word is the set of the bits that are 1 in it, so a    *)
(* shift is a translation, a mask an intersection, | a union, and every    *)
(* width is exact: a byte is a subset of 0..7, a uint32_t of 0..31, a      *)
(* uint64_t of 0..63.                                                      *)
(***************************************************************************)
EXTENDS Integers, FiniteSets, FiniteSetsExt

Bits(n) == 0..(n - 1)
Byte == SUBSET Bits(8)
Shr(w, n) == {i - n : i \in {j \in w : j >= n}}
Shl(w, n, width) == {i + n : i \in w} \cap Bits(width)
Low(w, n) == w \cap Bits(n)

\* Between words and the integers they stand for, below 2^31.
Word(n) == {i \in 0..30 : (n \div 2^i) % 2 = 1}
Bit(w, i) == IF i \in w THEN 1 ELSE 0
Nibble(w, i) == Bit(w, i) + 2 * Bit(w, i + 1) + 4 * Bit(w, i + 2) + 8 * Bit(w, i + 3)
Val(w) ==
    Nibble(w, 0) + 16 * Nibble(w, 4) + 256 * Nibble(w, 8) + 4096 * Nibble(w, 12)
    + 65536 * Nibble(w, 16) + 1048576 * Nibble(w, 20) + 16777216 * Nibble(w, 24)
    + 268435456 * Nibble(w, 28)
=============================================================================
