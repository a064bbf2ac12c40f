----------------------- MODULE Bme280Registers_proofs -----------------------
(***************************************************************************)
(* Proofs about Bme280Registers, for every content of the chip's memory,   *)
(* every settings structure, every burst, every reading and every fault of *)
(* the bus. Each call of the driver is run on any state of the types below *)
(* (Runs), first transfer by transfer, then call by call; Registers puts   *)
(* the calls together into the inductive invariant TypeOK /\ CalibExact,   *)
(* and the action properties follow from what each call does to a state of *)
(* it.                                                                     *)
(***************************************************************************)
EXTENDS Bme280Registers, Words_proofs

-----------------------------------------------------------------------------
(* Calibration data. *)

\* Two's complement of 16 bits.
LEMMA TwosShort ==
    ASSUME NEW n \in Int
    PROVE  TwosComplement(n, 16) = IF n >= 32768 THEN n - 65536 ELSE n
<1>1. 16 - 1 = 15 /\ 2^16 = 65536 /\ 2^15 = 32768
  OBVIOUS
<1> QED
  BY <1>1 DEF TwosComplement

\* Two's complement of 12 bits.
LEMMA TwosTwelve ==
    ASSUME NEW n \in Int
    PROVE  TwosComplement(n, 12) = IF n >= 2048 THEN n - 4096 ELSE n
<1>1. 12 - 1 = 11 /\ 2^12 = 4096 /\ 2^11 = 2048
  OBVIOUS
<1> QED
  BY <1>1 DEF TwosComplement

\* Two's complement of 8 bits.
LEMMA TwosByte ==
    ASSUME NEW n \in Int
    PROVE  TwosComplement(n, 8) = IF n >= 128 THEN n - 256 ELSE n
<1>1. 8 - 1 = 7 /\ 2^8 = 256 /\ 2^7 = 128
  OBVIOUS
<1> QED
  BY <1>1 DEF TwosComplement

\* A cast to int16_t subtracts 2^16 when the sign bit is set.
LEMMA SignedShort ==
    ASSUME NEW w
    PROVE  Signed(w, 16) = Val(w) - (IF 15 \in w THEN 65536 ELSE 0)
<1>1. 16 - 1 = 15 /\ 2^16 = 65536
  OBVIOUS
<1> QED
  BY <1>1 DEF Signed

\* A cast to int8_t subtracts 2^8 when the sign bit is set.
LEMMA SignedOctet ==
    ASSUME NEW w
    PROVE  Signed(w, 8) = Val(w) - (IF 7 \in w THEN 256 ELSE 0)
<1>1. 8 - 1 = 7 /\ 2^8 = 256
  OBVIOUS
<1> QED
  BY <1>1 DEF Signed

\* BME280_CONCAT_BYTES, as a number and by its sign bit.
LEMMA ConcatValue ==
    ASSUME NEW msb \in Byte, NEW lsb \in Byte
    PROVE  /\ CONCAT_BYTES(msb, lsb) \in SUBSET Bits(16)
           /\ Val(CONCAT_BYTES(msb, lsb)) = Val(lsb) + 256 * Val(msb)
           /\ 15 \in CONCAT_BYTES(msb, lsb) <=> Val(msb) >= 128
<1> DEFINE w == CONCAT_BYTES(msb, lsb)
<1>1. /\ w \in SUBSET Bits(16)
      /\ \A i \in 0..7 : i \in w <=> i \in lsb
      /\ \A i \in 0..7 : 8 + i \in w <=> i \in msb
  <2>1. msb \in SUBSET Nat /\ lsb \in SUBSET Bits(16)
        /\ (\A i \in Nat : i \in lsb => i < 8) /\ (\A i \in Nat : i \in msb => i < 8)
    BY DEF Byte, Bits
  <2>2. /\ Shl(msb, 8, 16) \in SUBSET Bits(16)
        /\ \A i \in Nat : i \in Shl(msb, 8, 16) <=> i < 16 /\ i >= 8 /\ i - 8 \in msb
    BY <2>1, ShlBits
  <2>3. w \in SUBSET Bits(16)
    BY <2>1, <2>2 DEF CONCAT_BYTES
  <2>4. \A i \in 0..7 : i \in w <=> i \in lsb
    BY <2>1, <2>2 DEF CONCAT_BYTES
  <2>5. \A i \in 0..7 : 8 + i \in w <=> i \in msb
    BY <2>1, <2>2 DEF CONCAT_BYTES
  <2> QED
    BY <2>3, <2>4, <2>5
<1> HIDE DEF w
<1>2. Nibble(w, 0) = Nibble(lsb, 0)
  BY <1>1, NibbleSame
<1>3. Nibble(w, 4) = Nibble(lsb, 4)
  BY <1>1, NibbleSame
<1>4. Nibble(w, 8) = Nibble(msb, 0)
  BY <1>1, NibbleSame
<1>5. Nibble(w, 12) = Nibble(msb, 4)
  BY <1>1, NibbleSame
<1>6. Val(w) = Nibble(lsb, 0) + 16 * Nibble(lsb, 4)
               + 256 * Nibble(msb, 0) + 4096 * Nibble(msb, 4)
  BY <1>1, <1>2, <1>3, <1>4, <1>5, ShortValue
<1>7. /\ Nibble(lsb, 0) \in 0..15 /\ Nibble(lsb, 4) \in 0..15
      /\ Nibble(msb, 0) \in 0..15 /\ Nibble(msb, 4) \in 0..15
  BY NibbleValue
<1>8. Val(w) = Val(lsb) + 256 * Val(msb)
  BY <1>6, <1>7, ByteValue, SMTT(30) DEF Byte
<1>9. 15 \in w <=> 7 \in msb
  BY <1>1, 7 \in 0..7, 8 + 7 = 15
<1> QED
  BY <1>1, <1>8, <1>9, ByteSign DEF w, Byte

\* Two bytes joined and cast to int16_t are their two's complement.
LEMMA SignedConcat ==
    ASSUME NEW msb \in Byte, NEW lsb \in Byte
    PROVE  Signed(CONCAT_BYTES(msb, lsb), 16) = TwosComplement(Val(lsb) + 256 * Val(msb), 16)
<1>1. Val(lsb) \in 0..255 /\ Val(msb) \in 0..255
  BY ByteValue DEF Byte
<1> DEFINE n == Val(lsb) + 256 * Val(msb)
<1>2. n \in Int /\ (n >= 32768 <=> Val(msb) >= 128)
  <2> DEFINE x == Val(lsb)
             y == Val(msb)
  <2>1. x \in 0..255 /\ y \in 0..255
    BY <1>1
  <2> HIDE DEF x, y
  <2>2. x + 256 * y \in Int /\ (x + 256 * y >= 32768 <=> y >= 128)
    BY <2>1
  <2> QED
    BY <2>2 DEF x, y
<1>3. Signed(CONCAT_BYTES(msb, lsb), 16) = n - (IF Val(msb) >= 128 THEN 65536 ELSE 0)
  BY SignedShort, ConcatValue
<1> HIDE DEF n
<1>4. TwosComplement(n, 16) = IF n >= 32768 THEN n - 65536 ELSE n
  BY <1>2, TwosShort
<1>5. Signed(CONCAT_BYTES(msb, lsb), 16) = TwosComplement(n, 16)
  BY <1>2, <1>3, <1>4
<1> QED
  BY <1>5 DEF n

\* A byte widened with its sign and four bits below it, as dig_h4 and dig_h5
\* are made, are the two's complement of the twelve bits.
LEMMA SignedTwelve ==
    ASSUME NEW msb \in Byte, NEW low \in SUBSET Bits(4)
    PROVE  Signed(Shl(Widened(msb), 4, 16) \cup low, 16)
            = TwosComplement(16 * Val(msb) + Nibble(low, 0), 12)
<1> DEFINE w == Shl(Widened(msb), 4, 16) \cup low
<1>1. Widened(msb) \in SUBSET Nat
  BY DEF Widened, Byte, Bits
<1>2. /\ w \in SUBSET Bits(16)
      /\ \A i \in 0..3 : i \in w <=> i \in low
      /\ \A i \in 0..11 : 4 + i \in w <=> i \in Widened(msb)
  <2>1. low \in SUBSET Bits(16) /\ (\A i \in Nat : i \in low => i < 4)
    BY DEF Bits
  <2>2. /\ Shl(Widened(msb), 4, 16) \in SUBSET Bits(16)
        /\ \A i \in Nat : i \in Shl(Widened(msb), 4, 16) <=>
                            i < 16 /\ i >= 4 /\ i - 4 \in Widened(msb)
    BY <1>1, ShlBits
  <2>3. w \in SUBSET Bits(16)
    BY <2>1, <2>2
  <2>4. \A i \in 0..3 : i \in w <=> i \in low
    BY <2>1, <2>2
  <2>5. \A i \in 0..11 : 4 + i \in w <=> i \in Widened(msb)
    BY <2>1, <2>2
  <2> QED
    BY <2>3, <2>4, <2>5
<1>3. /\ \A i \in 0..7 : i \in Widened(msb) <=> i \in msb
      /\ \A i \in 8..15 : i \in Widened(msb) <=> 7 \in msb
  BY DEF Widened, Byte, Bits
<1> HIDE DEF w
<1>4. \A i \in 0..7 : 4 + i \in w <=> i \in msb
  BY <1>2, <1>3
<1>5. \A i \in 12..15 : i \in w <=> 7 \in msb
  <2> SUFFICES ASSUME NEW i \in 12..15 PROVE i \in w <=> 7 \in msb
    OBVIOUS
  <2>1. i - 4 \in 0..11 /\ i - 4 \in 8..15 /\ 4 + (i - 4) = i
    OBVIOUS
  <2> QED
    BY <2>1, <1>2, <1>3
<1>6. Nibble(w, 0) = Nibble(low, 0)
  BY <1>2, NibbleSame
<1>7. Nibble(w, 4) = Nibble(msb, 0)
  BY <1>4, NibbleSame
<1>8. Nibble(w, 8) = Nibble(msb, 4)
  BY <1>4, NibbleSame
<1>9. Nibble(w, 12) = IF 7 \in msb THEN 15 ELSE 0
  BY <1>5 DEF Nibble, Bit
<1>10. Val(w) = Nibble(low, 0) + 16 * Nibble(msb, 0) + 256 * Nibble(msb, 4)
                + 4096 * (IF 7 \in msb THEN 15 ELSE 0)
  BY <1>2, <1>6, <1>7, <1>8, <1>9, ShortValue
<1>11. Nibble(low, 0) \in 0..15 /\ Nibble(msb, 0) \in 0..15 /\ Nibble(msb, 4) \in 0..15
  BY NibbleValue
<1>12. Val(msb) = Nibble(msb, 0) + 16 * Nibble(msb, 4) /\ Val(msb) \in 0..255
       /\ (7 \in msb <=> Val(msb) >= 128)
  BY ByteValue, ByteSign DEF Byte
<1>13. Signed(w, 16) = Val(w) - (IF 7 \in msb THEN 65536 ELSE 0)
  BY <1>5, 15 \in 12..15, SignedShort
<1> DEFINE n == 16 * Val(msb) + Nibble(low, 0)
<1>14. /\ n \in Int /\ (n >= 2048 <=> 7 \in msb)
       /\ Val(w) = n + (IF 7 \in msb THEN 61440 ELSE 0)
  BY <1>10, <1>11, <1>12
<1> HIDE DEF n
<1>15. TwosComplement(n, 12) = IF n >= 2048 THEN n - 4096 ELSE n
  BY <1>14, TwosTwelve
<1>16. Signed(w, 16) = TwosComplement(n, 12)
  BY <1>13, <1>14, <1>15
<1> QED
  BY <1>16 DEF w, n

\* A byte cast to int8_t is its two's complement.
LEMMA SignedByte ==
    ASSUME NEW b \in Byte
    PROVE  Signed(b, 8) = TwosComplement(Val(b), 8)
BY ByteValue, ByteSign, SignedOctet, TwosByte DEF Byte

\* The two nibbles that share register 229.
LEMMA LowNibbles ==
    ASSUME NEW b \in Byte
    PROVE  /\ Low(b, 4) \in SUBSET Bits(4) /\ Nibble(Low(b, 4), 0) = Val(b) % 16
           /\ Shr(b, 4) \in SUBSET Bits(4) /\ Nibble(Shr(b, 4), 0) = Val(b) \div 16
<1>1. /\ Low(b, 4) \in SUBSET Bits(4)
      /\ \A k \in 0..3 : 0 + k \in Low(b, 4) <=> 0 + k \in b
  BY DEF Low, Byte, Bits
<1>2. /\ Shr(b, 4) \in SUBSET Bits(4)
      /\ \A k \in 0..3 : 0 + k \in Shr(b, 4) <=> 4 + k \in b
  BY DEF Shr, Byte, Bits
<1>3. Nibble(Low(b, 4), 0) = Nibble(b, 0)
  BY <1>1, NibbleSame
<1>4. Nibble(Shr(b, 4), 0) = Nibble(b, 4)
  BY <1>2, NibbleSame
<1> QED
  BY <1>1, <1>2, <1>3, <1>4, ByteValue DEF Byte
\* Two neighbouring registers, read as uint16_t and as int16_t.
LEMMA WordParts ==
    ASSUME NEW a \in Nat, Nvm[a] \in Byte, Nvm[a + 1] \in Byte
    PROVE  /\ Val(CONCAT_BYTES(Nvm[a + 1], Nvm[a])) = Unsigned16(a)
           /\ Signed(CONCAT_BYTES(Nvm[a + 1], Nvm[a]), 16) = Signed16(a)
BY ConcatValue, SignedConcat DEF Unsigned16, Signed16, At

\* parse_temp_press_calib_data takes every number from the registers the data
\* sheet gives it.
LEMMA ParseTempPress ==
    ASSUME NEW d, \A k \in 1..26 : d[k] = Nvm[135 + k]
    PROVE  parse_temp_press_calib_data(d) = ChipTempPress
<1>1. \A a \in 136..161 : Nvm[a] \in Byte
  BY NvmAssumption
<1> DEFINE word(k) == CONCAT_BYTES(d[2 * k], d[2 * k - 1])
<1>2. \A k \in 1..12 : /\ Val(word(k)) = Unsigned16(134 + 2 * k)
                       /\ Signed(word(k), 16) = Signed16(134 + 2 * k)
  <2> SUFFICES ASSUME NEW k \in 1..12
               PROVE  /\ Val(word(k)) = Unsigned16(134 + 2 * k)
                      /\ Signed(word(k), 16) = Signed16(134 + 2 * k)
    OBVIOUS
  <2> DEFINE a == 134 + 2 * k
  <2>1. /\ 2 * k \in 1..26 /\ 2 * k - 1 \in 1..26
        /\ 135 + 2 * k = a + 1 /\ 135 + (2 * k - 1) = a
        /\ a \in 136..161 /\ a + 1 \in 136..161 /\ a \in Nat
    OBVIOUS
  <2>2. word(k) = CONCAT_BYTES(Nvm[a + 1], Nvm[a])
    BY <2>1
  <2>3. Nvm[a] \in Byte /\ Nvm[a + 1] \in Byte
    BY <1>1, <2>1
  <2> HIDE DEF word, a
  <2>4. /\ Val(word(k)) = Unsigned16(a) /\ Signed(word(k), 16) = Signed16(a)
    BY <2>1, <2>2, <2>3, WordParts
  <2> QED
    BY <2>4 DEF a
<1>3. d[26] = Nvm[161]
  BY 26 \in 1..26, 135 + 26 = 161
<1> HIDE DEF word
<1>4. /\ Val(word(1)) = Unsigned16(136)
      /\ Signed(word(2), 16) = Signed16(138)
      /\ Signed(word(3), 16) = Signed16(140)
      /\ Val(word(4)) = Unsigned16(142)
  BY <1>2, 1 \in 1..12, 2 \in 1..12, 3 \in 1..12, 4 \in 1..12,
     134 + 2 * 1 = 136, 134 + 2 * 2 = 138, 134 + 2 * 3 = 140, 134 + 2 * 4 = 142
<1>5. \A k \in 1..8 : Signed(word(k + 4), 16) = Signed16(142 + 2 * k)
  <2> SUFFICES ASSUME NEW k \in 1..8 PROVE Signed(word(k + 4), 16) = Signed16(142 + 2 * k)
    OBVIOUS
  <2>1. k + 4 \in 1..12 /\ 134 + 2 * (k + 4) = 142 + 2 * k
    OBVIOUS
  <2> QED
    BY <1>2, <2>1
<1>6. [k \in 1..8 |-> Signed(word(k + 4), 16)] = [k \in 1..8 |-> Signed16(142 + 2 * k)]
  BY <1>5
<1>7. parse_temp_press_calib_data(d) =
        [dig_t |-> <<Val(word(1)), Signed(word(2), 16), Signed(word(3), 16)>>,
         dig_p |-> <<Val(word(4))>> \o [k \in 1..8 |-> Signed(word(k + 4), 16)],
         dig_h1 |-> Val(d[26])]
  BY Zenon DEF parse_temp_press_calib_data, word
<1> QED
  BY <1>3, <1>4, <1>6, <1>7, Zenon DEF ChipTempPress, At

\* parse_humidity_calib_data does, with the twelve-bit numbers split over two
\* registers each.
LEMMA ParseHumidity ==
    ASSUME NEW d, \A k \in 1..7 : d[k] = Nvm[224 + k]
    PROVE  parse_humidity_calib_data(d) = ChipHumidity
<1>1. /\ d[1] = Nvm[225] /\ d[2] = Nvm[225 + 1] /\ d[3] = Nvm[227] /\ d[4] = Nvm[228]
      /\ d[5] = Nvm[229] /\ d[6] = Nvm[230] /\ d[7] = Nvm[231]
  BY 1 \in 1..7, 2 \in 1..7, 3 \in 1..7, 4 \in 1..7, 5 \in 1..7, 6 \in 1..7, 7 \in 1..7
<1>2. /\ Nvm[225] \in Byte /\ Nvm[225 + 1] \in Byte /\ Nvm[228] \in Byte
      /\ Nvm[229] \in Byte /\ Nvm[230] \in Byte /\ Nvm[231] \in Byte
  BY NvmAssumption
<1>3. Signed(CONCAT_BYTES(d[2], d[1]), 16) = Signed16(225)
  BY <1>1, <1>2, WordParts
<1>4. Signed(Shl(Widened(d[4]), 4, 16) \cup Low(d[5], 4), 16)
        = TwosComplement(16 * At(228) + (At(229) % 16), 12)
  BY <1>1, <1>2, SignedTwelve, LowNibbles DEF At
<1>5. Signed(Shl(Widened(d[6]), 4, 16) \cup Shr(d[5], 4), 16)
        = TwosComplement(16 * At(230) + (At(229) \div 16), 12)
  BY <1>1, <1>2, SignedTwelve, LowNibbles DEF At
<1>6. Signed(d[7], 8) = TwosComplement(At(231), 8)
  BY <1>1, <1>2, SignedByte DEF At
<1>7. Val(d[3]) = At(227)
  BY <1>1 DEF At
<1> QED
  BY <1>3, <1>4, <1>5, <1>6, <1>7, Zenon DEF parse_humidity_calib_data, ChipHumidity

-----------------------------------------------------------------------------
(* Transfers. *)

\* The states in the course of a call, and the registers the driver reads and
\* writes.
Runs == [chip : Chip, dev : Dev, data : Seq(Byte), comp : Comp, rslt : Int, n : Nat,
         fail : Nat, copies : Nat]
Readable == {CHIP_ID_ADDR} \cup (136..161) \cup (225..231) \cup (CTRL_HUM_ADDR..(DATA_ADDR + 7))
Writable == {RESET_ADDR, CTRL_HUM_ADDR, CTRL_MEAS_ADDR, CONFIG_ADDR}

\* Every register of a read is one of those.
CanRead(addr, len) == \A k \in 1..len : addr + k - 1 \in Readable

\* What no transfer touches.
Follows(s, r) == r \in Runs /\ r.dev = s.dev /\ r.comp = s.comp /\ r.fail = s.fail

\* What a register holds is a byte.
LEMMA RegisterByte ==
    ASSUME NEW c \in Chip, NEW a \in Readable
    PROVE  Register(c, a) \in Byte
<1>1. c.id \in Byte /\ c.regs \in [242..254 -> Byte]
  BY DEF Chip, CTRL_HUM_ADDR, DATA_ADDR
<1>2. {0} \in Byte /\ {} \in Byte
  BY DEF Byte, Bits
<1>3. DOMAIN Nvm = (136..161) \cup (225..231) /\ \A x \in DOMAIN Nvm : Nvm[x] \in Byte
  BY NvmAssumption
<1>4. CHIP_ID_ADDR \notin DOMAIN Nvm /\ STATUS_REG_ADDR \notin DOMAIN Nvm
      /\ STATUS_REG_ADDR # CHIP_ID_ADDR
  BY <1>3 DEF CHIP_ID_ADDR, STATUS_REG_ADDR
<1>5. CASE a = CHIP_ID_ADDR
  <2>1. Register(c, a) = c.id
    BY <1>4, <1>5, Zenon DEF Register
  <2> QED
    BY <2>1, <1>1
<1>6. CASE a = STATUS_REG_ADDR
  <2>1. Register(c, a) = IF c.copying > 0 THEN {0} ELSE {}
    BY <1>4, <1>6, Zenon DEF Register
  <2> QED
    BY <2>1, <1>2
<1>7. CASE a \in DOMAIN Nvm
  <2>1. Register(c, a) = IF c.copying > 0 THEN {} ELSE Nvm[a]
    BY <1>4, <1>7, Zenon DEF Register
  <2> QED
    BY <2>1, <1>2, <1>3, <1>7
<1>8. CASE a # CHIP_ID_ADDR /\ a # STATUS_REG_ADDR /\ a \notin DOMAIN Nvm
  <2>1. Register(c, a) = c.regs[a]
    BY <1>8, Zenon DEF Register
  <2>2. a \in 242..254
    BY <1>3, <1>8 DEF Readable, CTRL_HUM_ADDR, DATA_ADDR
  <2> QED
    BY <1>1, <2>1, <2>2
<1> QED
  BY <1>5, <1>6, <1>7, <1>8

\* A transfer later, only the copy of the calibration data has gone on.
LEMMA LaterChip ==
    ASSUME NEW c \in Chip
    PROVE  /\ Later(c) \in Chip
           /\ Later(c).regs = c.regs /\ Later(c).hum = c.hum /\ Later(c).id = c.id
           /\ Later(c).copying = IF c.copying > 0 THEN c.copying - 1 ELSE 0
BY DEF Later, Chip

\* A read brings bytes.
LEMMA ReadData ==
    ASSUME NEW c \in Chip, NEW addr \in Nat, NEW len \in Nat, CanRead(addr, len)
    PROVE  Read(c, addr, len) \in Seq(Byte)
<1>1. \A k \in 1..len : Register(c, addr + k - 1) \in Byte
  BY RegisterByte DEF CanRead
<1> QED
  BY <1>1 DEF Read

\* A transfer that fails brings nothing.
LEMMA CommFailRun ==
    ASSUME NEW s \in Runs
    PROVE  /\ Follows(s, CommFail(s))
           /\ CommFail(s).chip = Later(s.chip)
           /\ CommFail(s).data = s.data
           /\ CommFail(s).copies = s.copies
           /\ CommFail(s).rslt = E_COMM_FAIL
<1> DEFINE n == s.n + 1
           c == Later(s.chip)
<1>1. CommFail(s) = [s EXCEPT !.n = n, !.rslt = E_COMM_FAIL, !.chip = c]
  BY DEF CommFail
<1>2. n \in Nat /\ c \in Chip /\ E_COMM_FAIL \in Int
  BY LaterChip DEF Runs, E_COMM_FAIL
<1> HIDE DEF n, c
<1>3. /\ CommFail(s) \in Runs /\ CommFail(s).dev = s.dev /\ CommFail(s).comp = s.comp
      /\ CommFail(s).fail = s.fail /\ CommFail(s).chip = c /\ CommFail(s).data = s.data
      /\ CommFail(s).copies = s.copies /\ CommFail(s).rslt = E_COMM_FAIL
  BY <1>1, <1>2 DEF Runs
<1> QED
  BY <1>3 DEF Follows, c

\* A read: without a fault it succeeds, and then brings the registers.
LEMMA GetRegs ==
    ASSUME NEW s \in Runs, NEW addr \in Nat, NEW len \in Nat,
           CanRead(addr, len), NEW r, r = bme280_get_regs(s, addr, len)
    PROVE  /\ Follows(s, r)
           /\ r.chip = Later(s.chip) /\ r.copies = s.copies
           /\ \/ r.rslt = OK /\ r.data = Read(s.chip, addr, len)
              \/ r.rslt = E_COMM_FAIL /\ r.data = s.data /\ s.fail # 0
<1>1. CASE s.n + 1 = s.fail
  <2>1. r = CommFail(s) /\ s.fail # 0
    BY <1>1 DEF bme280_get_regs, Runs
  <2> QED
    BY <2>1, CommFailRun
<1>2. CASE s.n + 1 # s.fail
  <2> DEFINE n == s.n + 1
             c == Later(s.chip)
             data == Read(s.chip, addr, len)
  <2>1. r = [s EXCEPT !.n = n, !.rslt = OK, !.data = data, !.chip = c]
    BY <1>2 DEF bme280_get_regs
  <2>2. n \in Nat /\ s.chip \in Chip /\ OK \in Int
    BY DEF Runs, OK
  <2>3. c \in Chip /\ data \in Seq(Byte)
    BY <2>2, ReadData, LaterChip
  <2> HIDE DEF n, c, data
  <2>4. /\ r \in Runs /\ r.dev = s.dev /\ r.comp = s.comp /\ r.fail = s.fail
        /\ r.chip = c /\ r.copies = s.copies /\ r.rslt = OK /\ r.data = data
    BY <2>1, <2>2, <2>3 DEF Runs
  <2> QED
    BY <2>4 DEF Follows, c, data
<1> QED
  BY <1>1, <1>2

\* The chip after power on has cleared control registers.
LEMMA PoweredOnChip ==
    ASSUME NEW id \in Byte, NEW copying \in Nat
    PROVE  /\ PoweredOn(id, copying) \in Chip
           /\ PoweredOn(id, copying).hum = {} /\ PoweredOn(id, copying).copying = copying
           /\ PoweredOn(id, copying).id = id
           /\ \A a \in CTRL_HUM_ADDR..(DATA_ADDR + 7) : PoweredOn(id, copying).regs[a] = {}
BY DEF PoweredOn, Chip, Byte, Bits, CTRL_HUM_ADDR, DATA_ADDR

\* The addresses that are written are distinct.
LEMMA Distinct ==
    /\ CTRL_HUM_ADDR # CTRL_MEAS_ADDR /\ CTRL_HUM_ADDR # CONFIG_ADDR
    /\ CTRL_MEAS_ADDR # CONFIG_ADDR /\ RESET_ADDR # CTRL_HUM_ADDR
    /\ RESET_ADDR # CTRL_MEAS_ADDR /\ RESET_ADDR # CONFIG_ADDR
BY DEF RESET_ADDR, CTRL_HUM_ADDR, CTRL_MEAS_ADDR, CONFIG_ADDR

\* A write, register by register.
LEMMA WrittenCases ==
    ASSUME NEW c, NEW a, NEW byte, NEW copies
    PROVE  /\ a = RESET_ADDR => Written(c, a, byte, copies) =
                IF byte = SOFT_RESET_COMMAND THEN PoweredOn(c.id, copies) ELSE c
           /\ a = CTRL_HUM_ADDR => Written(c, a, byte, copies) = Stored(c, a, Low(byte, 3))
           /\ a = CTRL_MEAS_ADDR => Written(c, a, byte, copies) =
                [Stored(c, a, byte) EXCEPT !.hum = c.regs[CTRL_HUM_ADDR]]
           /\ a = CONFIG_ADDR => Written(c, a, byte, copies) =
                IF Mode(c) = {} THEN Stored(c, a, byte) ELSE c
BY Distinct, Zenon DEF Written

\* A byte stored changes its register and no other part of the chip.
LEMMA StoredChip ==
    ASSUME NEW c \in Chip, NEW a \in {CTRL_HUM_ADDR, CTRL_MEAS_ADDR, CONFIG_ADDR},
           NEW byte \in Byte, a = CTRL_HUM_ADDR => byte \subseteq Bits(3)
    PROVE  /\ Stored(c, a, byte) \in Chip
           /\ Stored(c, a, byte).regs = [c.regs EXCEPT ![a] = byte]
           /\ Stored(c, a, byte).hum = c.hum
           /\ Stored(c, a, byte).id = c.id /\ Stored(c, a, byte).copying = c.copying
<1> DEFINE Registers == {f \in [CTRL_HUM_ADDR..(DATA_ADDR + 7) -> Byte] :
                            f[CTRL_HUM_ADDR] \subseteq Bits(3)}
           f == [c.regs EXCEPT ![a] = byte]
<1>1. c \in [regs : Registers, hum : SUBSET Bits(3), id : Byte, copying : Nat]
  BY DEF Chip
<1>2. f \in Registers
  BY <1>1 DEF CTRL_HUM_ADDR, CTRL_MEAS_ADDR, CONFIG_ADDR, DATA_ADDR
<1>3. Stored(c, a, byte) = [c EXCEPT !.regs = f]
  BY <1>1 DEF Stored
<1> HIDE DEF f, Registers
<1>4. /\ Stored(c, a, byte) \in [regs : Registers, hum : SUBSET Bits(3), id : Byte, copying : Nat]
      /\ Stored(c, a, byte).regs = f
      /\ Stored(c, a, byte).hum = c.hum
      /\ Stored(c, a, byte).id = c.id /\ Stored(c, a, byte).copying = c.copying
  BY <1>1, <1>2, <1>3
<1> QED
  BY <1>4 DEF Chip, Registers, f

\* A register written, the chip keeps its type.
LEMMA WrittenChip ==
    ASSUME NEW c \in Chip, NEW a \in Writable, NEW byte \in Byte, NEW copies \in Nat
    PROVE  Written(c, a, byte, copies) \in Chip
<1>1. c.regs[CTRL_HUM_ADDR] \in SUBSET Bits(3) /\ c.id \in Byte
  BY DEF Chip
<1>2. \A d \in Chip, h \in SUBSET Bits(3) : [d EXCEPT !.hum = h] \in Chip
  BY DEF Chip
<1>3. Low(byte, 3) \in Byte /\ Low(byte, 3) \subseteq Bits(3)
  BY DEF Low, Byte, Bits
<1>4. CTRL_HUM_ADDR # CTRL_MEAS_ADDR /\ CTRL_HUM_ADDR # CONFIG_ADDR
  BY Distinct
<1>5. CASE a = RESET_ADDR
  <2>1. Written(c, a, byte, copies)
          = IF byte = SOFT_RESET_COMMAND THEN PoweredOn(c.id, copies) ELSE c
    BY <1>5, WrittenCases
  <2>2. PoweredOn(c.id, copies) \in Chip
    BY <1>1, PoweredOnChip
  <2> QED
    BY <2>1, <2>2
<1>6. CASE a = CTRL_HUM_ADDR
  <2>1. Written(c, a, byte, copies) = Stored(c, a, Low(byte, 3))
    BY <1>6, WrittenCases
  <2>2. Stored(c, a, Low(byte, 3)) \in Chip
    BY <1>3, <1>6, StoredChip
  <2> QED
    BY <2>1, <2>2
<1>7. CASE a = CTRL_MEAS_ADDR
  <2>1. Written(c, a, byte, copies) = [Stored(c, a, byte) EXCEPT !.hum = c.regs[CTRL_HUM_ADDR]]
    BY <1>7, WrittenCases
  <2>2. Stored(c, a, byte) \in Chip
    BY <1>4, <1>7, StoredChip
  <2> QED
    BY <2>1, <2>2, <1>1, <1>2
<1>8. CASE a = CONFIG_ADDR
  <2>1. Written(c, a, byte, copies) = IF Mode(c) = {} THEN Stored(c, a, byte) ELSE c
    BY <1>8, WrittenCases
  <2>2. Stored(c, a, byte) \in Chip
    BY <1>4, <1>8, StoredChip
  <2> QED
    BY <2>1, <2>2
<1> QED
  BY <1>5, <1>6, <1>7, <1>8 DEF Writable

\* A write of one register: without a fault it succeeds, and then the chip has
\* taken it.
LEMMA SetOne ==
    ASSUME NEW s \in Runs, NEW addr \in Writable, NEW byte \in Byte,
           NEW r, r = SetReg(s, addr, byte)
    PROVE  /\ Follows(s, r)
           /\ r.copies = (IF addr = RESET_ADDR THEN 0 ELSE s.copies) \/ r.rslt = E_COMM_FAIL
           /\ \/ r.rslt = OK /\ r.chip = Written(Later(s.chip), addr, byte, s.copies)
              \/ r.rslt = E_COMM_FAIL /\ r.chip = Later(s.chip) /\ s.fail # 0
<1> DEFINE buff == interleave_reg_addr(<<addr>>, <<byte>>, 1)
<1>1. Len(buff) = 1 /\ buff[1] = byte
  <2>1. 2 * 1 - 1 = 1 /\ 1 % 2 # 0 /\ 1 \div 2 + 1 = 1
    OBVIOUS
  <2> QED
    BY <2>1 DEF interleave_reg_addr
<1> HIDE DEF buff
<1>2. \A d : \A k \in 1..9 : PairWritten(d, buff, k, s.copies) = d
  BY <1>1 DEF PairWritten
<1>3. BurstWritten(Later(s.chip), addr, buff, s.copies)
        = Written(Later(s.chip), addr, byte, s.copies)
  BY <1>1, <1>2, 1 \in 1..9, 2 \in 1..9, 3 \in 1..9, 4 \in 1..9, 5 \in 1..9, 6 \in 1..9,
     7 \in 1..9, 8 \in 1..9, 9 \in 1..9
     DEF BurstWritten
<1>4. r = IF s.n + 1 = s.fail THEN CommFail(s)
          ELSE [s EXCEPT !.n = @ + 1, !.rslt = OK,
                         !.copies = IF addr = RESET_ADDR THEN 0 ELSE @,
                         !.chip = BurstWritten(Later(@), addr, buff, s.copies)]
  <2>1. Resets(<<addr>>, 1) <=> addr = RESET_ADDR
    BY DEF Resets
  <2>2. r = IF s.n + 1 = s.fail THEN CommFail(s)
            ELSE [s EXCEPT !.n = @ + 1, !.rslt = OK,
                           !.copies = IF Resets(<<addr>>, 1) THEN 0 ELSE @,
                           !.chip = BurstWritten(Later(@), addr, buff, s.copies)]
    BY DEF SetReg, bme280_set_regs, buff
  <2> QED
    BY <2>1, <2>2, Zenon
<1>5. CASE s.n + 1 = s.fail
  <2>1. r = CommFail(s) /\ s.fail # 0
    BY <1>4, <1>5 DEF Runs
  <2> QED
    BY <2>1, CommFailRun
<1>6. CASE s.n + 1 # s.fail
  <2> DEFINE n == s.n + 1
             c == Written(Later(s.chip), addr, byte, s.copies)
             copies == IF addr = RESET_ADDR THEN 0 ELSE s.copies
  <2>1. r = [s EXCEPT !.n = n, !.rslt = OK, !.copies = copies, !.chip = c]
    BY <1>3, <1>4, <1>6, Zenon
  <2>2. n \in Nat /\ s.copies \in Nat /\ copies \in Nat /\ s.chip \in Chip /\ OK \in Int
    BY DEF Runs, OK
  <2>3. c \in Chip
    BY <2>2, LaterChip, WrittenChip
  <2> HIDE DEF n, c, copies
  <2>4. /\ r \in Runs /\ r.dev = s.dev /\ r.comp = s.comp /\ r.fail = s.fail
        /\ r.chip = c /\ r.copies = copies /\ r.rslt = OK
    BY <2>1, <2>2, <2>3 DEF Runs
  <2> QED
    BY <2>4 DEF Follows, c, copies
<1> QED
  BY <1>5, <1>6

\* The control registers by name.
Meas(c) == c.regs[CTRL_MEAS_ADDR]
Config(c) == c.regs[CONFIG_ADDR]
Hum(c) == c.regs[CTRL_HUM_ADDR]
\* The control registers of d are those of c.
SameControl(c, d) ==
    Meas(d) = Meas(c) /\ Config(d) = Config(c) /\ Hum(d) = Hum(c) /\ d.hum = c.hum

\* Their types.
LEMMA ChipRegisters ==
    ASSUME NEW c \in Chip
    PROVE  /\ Meas(c) \in Byte /\ Config(c) \in Byte
           /\ Hum(c) \in SUBSET Bits(3) /\ c.hum \in SUBSET Bits(3)
BY DEF Chip, Meas, Config, Hum, CTRL_HUM_ADDR, CTRL_MEAS_ADDR, CONFIG_ADDR, DATA_ADDR

\* They stay while a transfer passes.
LEMMA LaterControl == \A c \in Chip : SameControl(c, Later(c)) /\ Mode(Later(c)) = Mode(c)
BY LaterChip DEF SameControl, Meas, Config, Hum, Mode

\* They change when they are stored into, each by itself.
LEMMA StoredControl ==
    ASSUME NEW c \in Chip, NEW a \in {CTRL_HUM_ADDR, CTRL_MEAS_ADDR, CONFIG_ADDR},
           NEW byte \in Byte, a = CTRL_HUM_ADDR => byte \subseteq Bits(3),
           NEW d, d = Stored(c, a, byte)
    PROVE  /\ Meas(d) = IF a = CTRL_MEAS_ADDR THEN byte ELSE Meas(c)
           /\ Config(d) = IF a = CONFIG_ADDR THEN byte ELSE Config(c)
           /\ Hum(d) = IF a = CTRL_HUM_ADDR THEN byte ELSE Hum(c)
<1>1. d.regs = [c.regs EXCEPT ![a] = byte]
  BY StoredChip
<1>2. DOMAIN c.regs = 242..254
  BY DEF Chip, CTRL_HUM_ADDR, DATA_ADDR
<1> QED
  BY <1>1, <1>2 DEF Meas, Config, Hum, CTRL_HUM_ADDR, CTRL_MEAS_ADDR, CONFIG_ADDR

\* A write of ctrl_hum: it is not in force until ctrl_meas is written.
LEMMA SetHum ==
    ASSUME NEW s \in Runs, NEW byte \in SUBSET Bits(3),
           NEW r, r = SetReg(s, CTRL_HUM_ADDR, byte)
    PROVE  /\ Follows(s, r) /\ Meas(r.chip) = Meas(s.chip) /\ Config(r.chip) = Config(s.chip)
           /\ \/ r.rslt = OK /\ Hum(r.chip) = byte
              \/ r.rslt = E_COMM_FAIL /\ s.fail # 0
<1> DEFINE c == Later(s.chip)
<1>1. byte \in Byte /\ Low(byte, 3) = byte /\ CTRL_HUM_ADDR \in Writable
  <2>1. byte \in Byte
    BY DEF Byte, Bits
  <2>2. Low(byte, 3) = byte
    BY DEF Low
  <2> QED
    BY <2>1, <2>2 DEF Writable
<1>2. s.chip \in Chip /\ c \in Chip /\ Meas(c) = Meas(s.chip) /\ Config(c) = Config(s.chip)
  BY LaterChip, LaterControl DEF Runs, SameControl
<1> HIDE DEF c
<1>3. Written(c, CTRL_HUM_ADDR, byte, s.copies) = Stored(c, CTRL_HUM_ADDR, byte)
  BY <1>1, WrittenCases
<1>4. Stored(c, CTRL_HUM_ADDR, byte) = r.chip =>
        Meas(r.chip) = Meas(c) /\ Config(r.chip) = Config(c) /\ Hum(r.chip) = byte
  BY <1>1, <1>2, StoredControl, Distinct
<1> QED
  BY <1>1, <1>2, <1>3, <1>4, SetOne DEF c

\* A write of ctrl_meas puts ctrl_hum in force.
LEMMA SetMeas ==
    ASSUME NEW s \in Runs, NEW byte \in Byte, NEW r, r = SetReg(s, CTRL_MEAS_ADDR, byte)
    PROVE  /\ Follows(s, r) /\ Config(r.chip) = Config(s.chip) /\ Hum(r.chip) = Hum(s.chip)
           /\ \/ r.rslt = OK /\ Meas(r.chip) = byte /\ r.chip.hum = Hum(s.chip)
              \/ /\ r.rslt = E_COMM_FAIL /\ s.fail # 0
                 /\ Meas(r.chip) = Meas(s.chip)
<1> DEFINE c == Later(s.chip)
           d == Stored(c, CTRL_MEAS_ADDR, byte)
<1>1. CTRL_MEAS_ADDR \in Writable
  BY DEF Writable
<1>2. s.chip \in Chip /\ c \in Chip /\ SameControl(s.chip, c)
  BY LaterChip, LaterControl DEF Runs
<1> HIDE DEF c
<1>3. Written(c, CTRL_MEAS_ADDR, byte, s.copies) = [d EXCEPT !.hum = Hum(c)]
  BY WrittenCases DEF Hum
<1>4. d \in Chip /\ Meas(d) = byte /\ Config(d) = Config(c) /\ Hum(d) = Hum(c)
  <2>1. d \in Chip
    BY <1>2, Distinct, StoredChip
  <2>2. Meas(d) = byte /\ Config(d) = Config(c) /\ Hum(d) = Hum(c)
    BY <1>2, Distinct, StoredControl
  <2> QED
    BY <2>1, <2>2
<1> HIDE DEF d
<1>5. [d EXCEPT !.hum = Hum(c)] = r.chip =>
        /\ Meas(r.chip) = Meas(d) /\ Config(r.chip) = Config(d) /\ Hum(r.chip) = Hum(d)
        /\ r.chip.hum = Hum(c)
  BY <1>4 DEF Chip, Meas, Config, Hum
<1> QED
  BY <1>1, <1>2, <1>3, <1>4, <1>5, SetOne DEF c, SameControl

\* A write of config in sleep mode is taken.
LEMMA SetConfig ==
    ASSUME NEW s \in Runs, NEW byte \in Byte, Mode(s.chip) = {},
           NEW r, r = SetReg(s, CONFIG_ADDR, byte)
    PROVE  /\ Follows(s, r) /\ Meas(r.chip) = Meas(s.chip) /\ Hum(r.chip) = Hum(s.chip)
           /\ r.chip.hum = s.chip.hum
           /\ \/ r.rslt = OK /\ Config(r.chip) = byte
              \/ r.rslt = E_COMM_FAIL /\ s.fail # 0
<1> DEFINE c == Later(s.chip)
<1>1. CONFIG_ADDR \in Writable
  BY DEF Writable
<1>2. s.chip \in Chip /\ c \in Chip /\ SameControl(s.chip, c) /\ Mode(c) = {}
  BY LaterChip, LaterControl DEF Runs
<1> HIDE DEF c
<1>3. Written(c, CONFIG_ADDR, byte, s.copies) = Stored(c, CONFIG_ADDR, byte)
  BY <1>2, WrittenCases
<1>4. Stored(c, CONFIG_ADDR, byte) = r.chip =>
        /\ Meas(r.chip) = Meas(c) /\ Config(r.chip) = byte /\ Hum(r.chip) = Hum(c)
        /\ r.chip.hum = c.hum
  <2> DEFINE d == Stored(c, CONFIG_ADDR, byte)
  <2>1. d.hum = c.hum
    BY <1>2, Distinct, StoredChip
  <2>2. Meas(d) = Meas(c) /\ Config(d) = byte /\ Hum(d) = Hum(c)
    BY <1>2, Distinct, StoredControl
  <2> QED
    BY <2>1, <2>2
<1> QED
  BY <1>1, <1>2, <1>3, <1>4, SetOne DEF c, SameControl

\* Which part of the chip answers at which address.
LEMMA RegisterCases ==
    ASSUME NEW c, NEW a
    PROVE  /\ a = CHIP_ID_ADDR => Register(c, a) = c.id
           /\ a = STATUS_REG_ADDR => Register(c, a) = IF c.copying > 0 THEN {0} ELSE {}
           /\ a \in DOMAIN Nvm => Register(c, a) = IF c.copying > 0 THEN {} ELSE Nvm[a]
           /\ a \in (242..254) \ {243} => Register(c, a) = c.regs[a]
<1>1. DOMAIN Nvm = (136..161) \cup (225..231)
  BY NvmAssumption
<1>2. CHIP_ID_ADDR \notin DOMAIN Nvm /\ STATUS_REG_ADDR \notin DOMAIN Nvm
      /\ STATUS_REG_ADDR # CHIP_ID_ADDR
  BY <1>1 DEF CHIP_ID_ADDR, STATUS_REG_ADDR
<1>3. a \in (242..254) \ {243} =>
        a \notin DOMAIN Nvm /\ a # CHIP_ID_ADDR /\ a # STATUS_REG_ADDR
  BY <1>1 DEF CHIP_ID_ADDR, STATUS_REG_ADDR
<1>4. a \in DOMAIN Nvm => a # CHIP_ID_ADDR /\ a # STATUS_REG_ADDR
  BY <1>2
<1> QED
  BY <1>2, <1>3, <1>4, Zenon DEF Register

\* A read of one register.
LEMMA GetOne ==
    ASSUME NEW s \in Runs, NEW a \in {CHIP_ID_ADDR, STATUS_REG_ADDR, CTRL_MEAS_ADDR, CONFIG_ADDR},
           NEW r, r = bme280_get_regs(s, a, 1)
    PROVE  /\ Follows(s, r) /\ r.chip = Later(s.chip) /\ r.copies = s.copies
           /\ \/ /\ r.rslt = OK
                 /\ Len(r.data) = 1 /\ r.data[1] = Register(s.chip, a)
              \/ r.rslt = E_COMM_FAIL /\ r.data = s.data /\ s.fail # 0
<1>1. a \in Nat /\ a \in Readable
  BY DEF CHIP_ID_ADDR, STATUS_REG_ADDR, CTRL_MEAS_ADDR, CONFIG_ADDR, Readable,
         CTRL_HUM_ADDR, DATA_ADDR
<1>2. CanRead(a, 1)
  BY <1>1 DEF CanRead
<1>3. Len(Read(s.chip, a, 1)) = 1 /\ Read(s.chip, a, 1)[1] = Register(s.chip, a)
  <2>1. a + 1 - 1 = a
    BY <1>1
  <2> QED
    BY <2>1 DEF Read
<1>4. /\ Follows(s, r) /\ r.chip = Later(s.chip) /\ r.copies = s.copies
      /\ \/ r.rslt = OK /\ r.data = Read(s.chip, a, 1)
         \/ r.rslt = E_COMM_FAIL /\ r.data = s.data /\ s.fail # 0
  <2>1. a \in Nat /\ 1 \in Nat
    BY <1>1
  <2> QED
    BY <1>2, <2>1, GetRegs
<1> QED
  BY <1>3, <1>4

\* The four control registers in one read.
LEMMA GetControl ==
    ASSUME NEW s \in Runs, NEW r, r = bme280_get_regs(s, CTRL_HUM_ADDR, 4)
    PROVE  /\ Follows(s, r) /\ r.chip = Later(s.chip) /\ r.copies = s.copies
           /\ \/ /\ r.rslt = OK
                 /\ r.data[1] = Hum(s.chip) /\ r.data[3] = Meas(s.chip)
                 /\ r.data[4] = Config(s.chip)
              \/ r.rslt = E_COMM_FAIL /\ s.fail # 0
<1>1. CTRL_HUM_ADDR \in Nat /\ CanRead(CTRL_HUM_ADDR, 4)
  BY DEF CTRL_HUM_ADDR, Readable, DATA_ADDR, CanRead
<1>2. /\ CTRL_HUM_ADDR + 1 - 1 = CTRL_HUM_ADDR /\ CTRL_HUM_ADDR + 3 - 1 = CTRL_MEAS_ADDR
      /\ CTRL_HUM_ADDR + 4 - 1 = CONFIG_ADDR
      /\ {CTRL_HUM_ADDR, CTRL_MEAS_ADDR, CONFIG_ADDR} \subseteq (242..254) \ {243}
  BY DEF CTRL_HUM_ADDR, CTRL_MEAS_ADDR, CONFIG_ADDR
<1>3. /\ Read(s.chip, CTRL_HUM_ADDR, 4)[1] = Hum(s.chip)
      /\ Read(s.chip, CTRL_HUM_ADDR, 4)[3] = Meas(s.chip)
      /\ Read(s.chip, CTRL_HUM_ADDR, 4)[4] = Config(s.chip)
  BY <1>2, RegisterCases, 1 \in 1..4, 3 \in 1..4, 4 \in 1..4 DEF Read, Hum, Meas, Config
<1>4. /\ Follows(s, r) /\ r.chip = Later(s.chip) /\ r.copies = s.copies
      /\ \/ r.rslt = OK /\ r.data = Read(s.chip, CTRL_HUM_ADDR, 4)
         \/ r.rslt = E_COMM_FAIL /\ r.data = s.data /\ s.fail # 0
  <2>1. 4 \in Nat
    OBVIOUS
  <2> QED
    BY <1>1, <2>1, GetRegs
<1> QED
  BY <1>3, <1>4

-----------------------------------------------------------------------------
(* The reset. *)

\* After j reads of the status: the copy ended before the last of them, or it
\* goes on, or a transfer failed.
PollState(s, copies, r, j) ==
    /\ Follows(s, r)
    /\ Len(r.data) = 1
    /\ r.copies = 0
    /\ r.chip.id = s.chip.id
    /\ Meas(r.chip) = {} /\ Config(r.chip) = {} /\ Hum(r.chip) = {} /\ r.chip.hum = {}
    /\ \/ r.rslt = OK /\ ~Busy(r) /\ r.chip.copying = 0 /\ copies < j
       \/ r.rslt = OK /\ Busy(r) /\ copies >= j /\ r.chip.copying = copies - j
       \/ r.rslt = E_COMM_FAIL /\ s.fail # 0

\* One read of the status more.
LEMMA PollStep ==
    ASSUME NEW s, NEW copies \in Nat, NEW j \in Nat, NEW r, PollState(s, copies, r, j)
    PROVE  PollState(s, copies, ReadAgain(r), j + 1)
<1> DEFINE q == StatusRead(r)
<1>1. r \in Runs /\ r.chip \in Chip
  BY DEF PollState, Follows, Runs
<1>2. CASE r.rslt = OK /\ Busy(r)
  <2>1. ReadAgain(r) = q
    BY <1>2 DEF ReadAgain
  <2>2. /\ Follows(r, q) /\ q.chip = Later(r.chip) /\ q.copies = r.copies
        /\ \/ /\ q.rslt = OK
              /\ Len(q.data) = 1 /\ q.data[1] = Register(r.chip, STATUS_REG_ADDR)
           \/ q.rslt = E_COMM_FAIL /\ q.data = r.data /\ r.fail # 0
    BY <1>1, GetOne DEF StatusRead
  <2>3. /\ Meas(q.chip) = {} /\ Config(q.chip) = {} /\ Hum(q.chip) = {} /\ q.chip.hum = {}
        /\ q.chip.id = s.chip.id
        /\ q.chip.copying = IF r.chip.copying > 0 THEN r.chip.copying - 1 ELSE 0
    BY <1>1, <2>2, LaterChip, LaterControl DEF PollState, SameControl
  <2>4. copies >= j /\ r.chip.copying = copies - j
    BY <1>2 DEF PollState, OK, E_COMM_FAIL
  <2>5. q.rslt = OK => (Busy(q) <=> copies > j)
    <3>1. Register(r.chip, STATUS_REG_ADDR) = IF r.chip.copying > 0 THEN {0} ELSE {}
      BY RegisterCases
    <3> QED
      BY <2>2, <2>4, <3>1 DEF Busy, OK, E_COMM_FAIL
  <2>6. Follows(s, q) /\ Len(q.data) = 1 /\ q.copies = 0
    BY <2>2 DEF PollState, Follows
  <2>7. q.rslt = E_COMM_FAIL => s.fail # 0
    BY <2>2 DEF PollState, Follows, OK, E_COMM_FAIL
  <2>8. \/ q.rslt = OK /\ ~Busy(q) /\ q.chip.copying = 0 /\ copies < j + 1
        \/ q.rslt = OK /\ Busy(q) /\ copies >= j + 1 /\ q.chip.copying = copies - (j + 1)
        \/ q.rslt = E_COMM_FAIL /\ s.fail # 0
    BY <2>2, <2>3, <2>4, <2>5, <2>7
  <2> QED
    BY <2>1, <2>3, <2>6, <2>8 DEF PollState
<1>3. CASE ~(r.rslt = OK /\ Busy(r))
  <2>1. ReadAgain(r) = r
    BY <1>3 DEF ReadAgain
  <2> QED
    BY <1>3, <2>1 DEF PollState
<1> QED
  BY <1>2, <1>3

\* It succeeds without a fault if the copy ends within six reads, and then the
\* chip is as after power on.
LEMMA SoftReset ==
    ASSUME NEW s \in Runs, NEW r, r = bme280_soft_reset(s)
    PROVE  /\ Follows(s, r)
           /\ r.rslt = OK =>
                /\ r.copies = 0 /\ s.copies < 6
                /\ r.chip.copying = 0
                /\ Meas(r.chip) = {} /\ Config(r.chip) = {} /\ Hum(r.chip) = {}
                /\ r.chip.hum = {}
           /\ s.fail = 0 /\ s.copies < 6 => r.rslt = OK
<1> DEFINE w == SetReg(s, RESET_ADDR, SOFT_RESET_COMMAND)
           w0 == [w EXCEPT !.data = <<{}>>]
<1>1. /\ Follows(s, w)
      /\ w.copies = 0 \/ w.rslt = E_COMM_FAIL
      /\ \/ /\ w.rslt = OK
            /\ w.chip = Written(Later(s.chip), RESET_ADDR, SOFT_RESET_COMMAND, s.copies)
         \/ w.rslt = E_COMM_FAIL /\ w.chip = Later(s.chip) /\ s.fail # 0
  <2>1. SOFT_RESET_COMMAND \in Byte /\ RESET_ADDR \in Writable
    BY DEF SOFT_RESET_COMMAND, Byte, Bits, Writable
  <2> QED
    BY <2>1, SetOne
<1>2. r = IF w.rslt = OK THEN Polled(Poll(w)) ELSE w
  BY DEF bme280_soft_reset, Then
<1> HIDE DEF w
<1>3. CASE w.rslt = OK
  <2>1. w.chip = PoweredOn(Later(s.chip).id, s.copies)
    BY <1>1, <1>3, WrittenCases DEF OK, E_COMM_FAIL
  <2>2. s.chip \in Chip /\ s.copies \in Nat /\ Later(s.chip).id \in Byte
    BY LaterChip DEF Runs, Chip
  <2>3. /\ Meas(w.chip) = {} /\ Config(w.chip) = {} /\ Hum(w.chip) = {} /\ w.chip.hum = {}
        /\ w.chip.copying = s.copies /\ w.chip.id = Later(s.chip).id
    BY <2>1, <2>2, PoweredOnChip
       DEF Meas, Config, Hum, CTRL_HUM_ADDR, CTRL_MEAS_ADDR, CONFIG_ADDR, DATA_ADDR
  <2>4. w.copies = 0
    BY <1>1, <1>3 DEF OK, E_COMM_FAIL
  <2>5. /\ w0 \in Runs /\ w0.data = <<{}>> /\ w0.chip = w.chip /\ w0.rslt = OK
        /\ w0.dev = w.dev /\ w0.comp = w.comp /\ w0.fail = w.fail /\ w0.copies = w.copies
    <3>1. <<{}>> \in Seq(Byte)
      BY DEF Byte
    <3> QED
      BY <1>1, <1>3, <3>1 DEF Follows, Runs
  <2> HIDE DEF w0
  <2> DEFINE p == StatusRead(w0)
  <2>6. PollState(s, s.copies, p, 1)
    <3>1. /\ Follows(w0, p) /\ p.chip = Later(w0.chip) /\ p.copies = w0.copies
          /\ \/ /\ p.rslt = OK
                /\ Len(p.data) = 1 /\ p.data[1] = Register(w0.chip, STATUS_REG_ADDR)
             \/ p.rslt = E_COMM_FAIL /\ p.data = w0.data /\ w0.fail # 0
      BY <2>5, GetOne DEF StatusRead
    <3>2. w.chip \in Chip
      BY <1>1 DEF Follows, Runs
    <3>3. /\ Meas(p.chip) = {} /\ Config(p.chip) = {} /\ Hum(p.chip) = {} /\ p.chip.hum = {}
          /\ p.chip.id = s.chip.id
          /\ p.chip.copying = IF s.copies > 0 THEN s.copies - 1 ELSE 0
      BY <2>2, <2>3, <2>5, <3>1, <3>2, LaterChip, LaterControl DEF SameControl
    <3>4. p.rslt = OK => (Busy(p) <=> s.copies > 0)
      <4>1. Register(w0.chip, STATUS_REG_ADDR) = IF w0.chip.copying > 0 THEN {0} ELSE {}
        BY RegisterCases
      <4> QED
        BY <2>3, <2>5, <3>1, <4>1 DEF Busy, OK, E_COMM_FAIL
    <3>5. Len(p.data) = 1
      BY <2>5, <3>1
    <3>6. Follows(s, p) /\ p.copies = 0
      BY <1>1, <2>4, <2>5, <3>1 DEF Follows
    <3>7. p.rslt = E_COMM_FAIL => s.fail # 0
      BY <1>1, <2>5, <3>1 DEF Follows, OK, E_COMM_FAIL
    <3>8. \/ p.rslt = OK /\ ~Busy(p) /\ p.chip.copying = 0 /\ s.copies < 1
          \/ p.rslt = OK /\ Busy(p) /\ s.copies >= 1 /\ p.chip.copying = s.copies - 1
          \/ p.rslt = E_COMM_FAIL /\ s.fail # 0
      BY <2>2, <3>1, <3>3, <3>4, <3>7
    <3> QED
      BY <3>3, <3>5, <3>6, <3>8 DEF PollState
  <2>7. PollState(s, s.copies, Poll(w), 6)
    <3>1. Poll(w) = ReadAgain(ReadAgain(ReadAgain(ReadAgain(ReadAgain(p)))))
      BY DEF Poll, w0
    <3>2. 1 + 1 = 2 /\ 2 + 1 = 3 /\ 3 + 1 = 4 /\ 4 + 1 = 5 /\ 5 + 1 = 6
      OBVIOUS
    <3> HIDE DEF p
    <3>3. PollState(s, s.copies, ReadAgain(p), 2)
      BY <2>2, <2>6, <3>2, PollStep
    <3>4. PollState(s, s.copies, ReadAgain(ReadAgain(p)), 3)
      BY <2>2, <3>2, <3>3, PollStep
    <3>5. PollState(s, s.copies, ReadAgain(ReadAgain(ReadAgain(p))), 4)
      BY <2>2, <3>2, <3>4, PollStep
    <3>6. PollState(s, s.copies, ReadAgain(ReadAgain(ReadAgain(ReadAgain(p)))), 5)
      BY <2>2, <3>2, <3>5, PollStep
    <3>7. PollState(s, s.copies, ReadAgain(ReadAgain(ReadAgain(ReadAgain(ReadAgain(p))))), 6)
      BY <2>2, <3>2, <3>6, PollStep
    <3> QED
      BY <3>1, <3>7
  <2> DEFINE z == Poll(w)
  <2>8. r = IF Busy(z) THEN [z EXCEPT !.rslt = E_NVM_COPY_FAILED] ELSE z
    BY <1>2, <1>3 DEF Polled
  <2> HIDE DEF z
  <2>9. PollState(s, s.copies, z, 6)
    BY <2>7 DEF z
  <2>10. CASE Busy(z)
    <3>1. r \in Runs /\ r.rslt = E_NVM_COPY_FAILED /\ r.dev = z.dev /\ r.comp = z.comp
          /\ r.fail = z.fail
      BY <2>8, <2>9, <2>10 DEF PollState, Follows, Runs, E_NVM_COPY_FAILED
    <3>2. s.copies >= 6 \/ s.fail # 0
      BY <2>9, <2>10 DEF PollState
    <3> QED
      BY <2>2, <2>9, <3>1, <3>2 DEF PollState, Follows, OK, E_NVM_COPY_FAILED
  <2>11. CASE ~Busy(z)
    BY <2>8, <2>9, <2>11 DEF PollState, OK, E_COMM_FAIL
  <2> QED
    BY <2>10, <2>11
<1>4. CASE w.rslt # OK
  BY <1>1, <1>2, <1>4
<1> QED
  BY <1>3, <1>4

-----------------------------------------------------------------------------
(* Initialisation. *)

\* Types of the calibration data.
LEMMA CalibTypes == ChipTempPress \in TempPress /\ ChipHumidity \in Humidity
<1>1. \A a \in (136..161) \cup (225..231) : At(a) \in 0..255
  BY NvmAssumption, ByteValue DEF At, Byte
<1>2. \A n \in Int : /\ TwosComplement(n, 16) \in Int /\ TwosComplement(n, 12) \in Int
                     /\ TwosComplement(n, 8) \in Int
  BY TwosShort, TwosTwelve, TwosByte
<1>3. \A x, y \in 0..255 : x + 256 * y \in Int
  OBVIOUS
<1>4. \A a \in (136..160) \cup {225} : Unsigned16(a) \in Int /\ Signed16(a) \in Int
  <2> SUFFICES ASSUME NEW a \in (136..160) \cup {225}
               PROVE  Unsigned16(a) \in Int /\ Signed16(a) \in Int
    OBVIOUS
  <2> DEFINE x == At(a)
             y == At(a + 1)
  <2>1. x \in 0..255 /\ y \in 0..255
    BY <1>1
  <2>2. Unsigned16(a) = x + 256 * y
    BY DEF Unsigned16
  <2> HIDE DEF x, y
  <2>3. Unsigned16(a) \in Int
    BY <1>3, <2>1, <2>2
  <2> QED
    BY <1>2, <2>3 DEF Signed16
<1>5. ChipTempPress \in TempPress
  <2> DEFINE p == [k \in 1..8 |-> Signed16(142 + 2 * k)]
             q == <<Unsigned16(142)>>
  <2>1. p \in Seq(Int)
    <3>1. \A k \in 1..8 : 142 + 2 * k \in 136..160
      OBVIOUS
    <3> QED
      BY <1>4, <3>1
  <2>2. q \in Seq(Int) /\ Signed16(138) \in Int /\ Signed16(140) \in Int
        /\ Unsigned16(136) \in Int
    BY <1>4
  <2>3. At(161) \in Int
    BY <1>1
  <2>4. <<Unsigned16(136), Signed16(138), Signed16(140)>> \in Seq(Int)
    BY <2>2
  <2> HIDE DEF p, q
  <2>5. q \o p \in Seq(Int)
    BY <2>1, <2>2
  <2> QED
    BY <2>3, <2>4, <2>5 DEF ChipTempPress, TempPress, p, q
<1>6. ChipHumidity \in Humidity
  <2> DEFINE a == At(228)
             b == At(229)
             c == At(230)
  <2>1. a \in 0..255 /\ b \in 0..255 /\ c \in 0..255 /\ At(231) \in Int /\ At(227) \in Int
    BY <1>1
  <2> HIDE DEF a, b, c
  <2>2. 16 * a + (b % 16) \in Int /\ 16 * c + (b \div 16) \in Int
    BY <2>1
  <2>3. /\ TwosComplement(16 * a + (b % 16), 12) \in Int
        /\ TwosComplement(16 * c + (b \div 16), 12) \in Int
        /\ TwosComplement(At(231), 8) \in Int
    BY <1>2, <2>1, <2>2
  <2>4. Signed16(225) \in Int
    BY <1>4
  <2> QED
    BY <2>1, <2>3, <2>4 DEF ChipHumidity, Humidity, a, b, c
<1> QED
  BY <1>5, <1>6

\* The calibration data as they are parsed: the copy is over, so the bytes read are
\* those of the chip.
WithTempPress(d) == [d EXCEPT !.temp_press = ChipTempPress]
WithHumidity(d) == [d EXCEPT !.humidity = ChipHumidity]

\* get_calib_data, when no copy is under way, brings the calibration data of
\* the chip, or fails at one of its two reads.
LEMMA GetCalib ==
    ASSUME NEW s \in Runs, s.chip.copying = 0, NEW r, r = get_calib_data(s)
    PROVE  /\ r \in Runs /\ r.comp = s.comp /\ r.fail = s.fail /\ r.copies = s.copies
           /\ SameControl(s.chip, r.chip)
           /\ \/ r.rslt = OK /\ r.dev = WithHumidity(WithTempPress(s.dev))
              \/ /\ r.rslt = E_COMM_FAIL /\ s.fail # 0
                 /\ r.dev \in {s.dev, WithTempPress(s.dev)}
<1> DEFINE p == bme280_get_regs(s, TEMP_PRESS_CALIB_DATA_ADDR, 26)
           p0 == [p EXCEPT !.dev.temp_press = parse_temp_press_calib_data(p.data)]
           q == bme280_get_regs(p0, HUMIDITY_CALIB_DATA_ADDR, 7)
           q0 == [q EXCEPT !.dev.humidity = parse_humidity_calib_data(q.data)]
<1>1. r = IF p.rslt = OK THEN (IF q.rslt = OK THEN q0 ELSE q) ELSE p
  BY DEF get_calib_data, Then
<1>2. /\ TEMP_PRESS_CALIB_DATA_ADDR \in Nat /\ CanRead(TEMP_PRESS_CALIB_DATA_ADDR, 26)
      /\ HUMIDITY_CALIB_DATA_ADDR \in Nat /\ CanRead(HUMIDITY_CALIB_DATA_ADDR, 7)
  BY DEF TEMP_PRESS_CALIB_DATA_ADDR, HUMIDITY_CALIB_DATA_ADDR, CanRead, Readable
<1>3. /\ Follows(s, p) /\ p.chip = Later(s.chip) /\ p.copies = s.copies
      /\ \/ p.rslt = OK /\ p.data = Read(s.chip, TEMP_PRESS_CALIB_DATA_ADDR, 26)
         \/ p.rslt = E_COMM_FAIL /\ p.data = s.data /\ s.fail # 0
  BY <1>2, GetRegs
<1>4. s.chip \in Chip /\ DOMAIN Nvm = (136..161) \cup (225..231)
  BY NvmAssumption DEF Runs
<1>5. SameControl(s.chip, p.chip) /\ p.chip \in Chip /\ p.chip.copying = 0
  BY <1>3, <1>4, LaterChip, LaterControl
<1> HIDE DEF p
<1>6. CASE p.rslt # OK
  BY <1>1, <1>3, <1>5, <1>6 DEF Follows
<1>7. CASE p.rslt = OK
  <2>1. p.data = Read(s.chip, TEMP_PRESS_CALIB_DATA_ADDR, 26)
    BY <1>3, <1>7 DEF OK, E_COMM_FAIL
  <2>2. \A k \in 1..26 : p.data[k] = Nvm[135 + k]
    <3> SUFFICES ASSUME NEW k \in 1..26 PROVE p.data[k] = Nvm[135 + k]
      OBVIOUS
    <3>1. TEMP_PRESS_CALIB_DATA_ADDR + k - 1 = 135 + k /\ 135 + k \in DOMAIN Nvm
      BY <1>4 DEF TEMP_PRESS_CALIB_DATA_ADDR
    <3>2. p.data[k] = Register(s.chip, 135 + k)
      BY <2>1, <3>1 DEF Read
    <3> QED
      BY <3>1, <3>2, RegisterCases
  <2>3. parse_temp_press_calib_data(p.data) = ChipTempPress
    BY <2>2, ParseTempPress
  <2>4. /\ p0 \in Runs /\ p0.dev = WithTempPress(p.dev) /\ p0.chip = p.chip
        /\ p0.comp = p.comp /\ p0.fail = p.fail /\ p0.copies = p.copies
    <3> DEFINE d == WithTempPress(p.dev)
    <3>1. p0 = [p EXCEPT !.dev = d]
      BY <2>3, Zenon DEF WithTempPress
    <3>2. p \in Runs /\ p.dev \in Dev
      BY <1>3 DEF Follows, Runs
    <3>3. d \in Dev
      BY <3>2, CalibTypes DEF WithTempPress, Dev
    <3> HIDE DEF d, p0
    <3>4. /\ p0 \in Runs /\ p0.dev = d /\ p0.chip = p.chip
          /\ p0.comp = p.comp /\ p0.fail = p.fail /\ p0.copies = p.copies
      BY <3>1, <3>2, <3>3 DEF Runs
    <3> QED
      BY <3>4 DEF d
  <2> HIDE DEF p0
  <2>5. /\ Follows(p0, q) /\ q.chip = Later(p0.chip) /\ q.copies = p0.copies
        /\ \/ q.rslt = OK /\ q.data = Read(p0.chip, HUMIDITY_CALIB_DATA_ADDR, 7)
           \/ q.rslt = E_COMM_FAIL /\ q.data = p0.data /\ p0.fail # 0
    BY <1>2, <2>4, GetRegs
  <2>6. SameControl(p.chip, q.chip)
    BY <1>5, <2>4, <2>5, LaterControl
  <2>7. p.dev = s.dev /\ q.dev = WithTempPress(s.dev) /\ SameControl(s.chip, q.chip)
        /\ q.comp = s.comp /\ q.fail = s.fail /\ q.copies = s.copies /\ q \in Runs
        /\ p0.fail = s.fail
    BY <1>3, <1>5, <2>4, <2>5, <2>6 DEF Follows, SameControl
  <2> HIDE DEF q
  <2>8. CASE q.rslt # OK
    BY <1>1, <1>7, <2>5, <2>7, <2>8
  <2>9. CASE q.rslt = OK
    <3>1. q.data = Read(p.chip, HUMIDITY_CALIB_DATA_ADDR, 7)
      BY <2>4, <2>5, <2>9 DEF OK, E_COMM_FAIL
    <3>2. \A k \in 1..7 : q.data[k] = Nvm[224 + k]
      <4> SUFFICES ASSUME NEW k \in 1..7 PROVE q.data[k] = Nvm[224 + k]
        OBVIOUS
      <4>1. HUMIDITY_CALIB_DATA_ADDR + k - 1 = 224 + k /\ 224 + k \in DOMAIN Nvm
        BY <1>4 DEF HUMIDITY_CALIB_DATA_ADDR
      <4>2. q.data[k] = Register(p.chip, 224 + k)
        BY <3>1, <4>1 DEF Read
      <4> QED
        BY <1>5, <4>1, <4>2, RegisterCases
    <3>3. parse_humidity_calib_data(q.data) = ChipHumidity
      BY <3>2, ParseHumidity
    <3> DEFINE d == WithHumidity(q.dev)
    <3>4. q0 = [q EXCEPT !.dev = d]
      BY <3>3, Zenon DEF WithHumidity
    <3>5. d \in Dev
      BY <2>7, CalibTypes DEF WithHumidity, Dev, Runs
    <3> HIDE DEF d, q0
    <3>6. /\ q0 \in Runs /\ q0.dev = d /\ q0.chip = q.chip /\ q0.rslt = q.rslt
          /\ q0.comp = q.comp /\ q0.fail = q.fail /\ q0.copies = q.copies
      BY <2>7, <3>4, <3>5 DEF Runs
    <3>7. r = q0 /\ d = WithHumidity(WithTempPress(s.dev))
      BY <1>1, <1>7, <2>7, <2>9 DEF d
    <3> QED
      BY <2>7, <2>9, <3>6, <3>7
  <2> QED
    BY <2>8, <2>9
<1> QED
  BY <1>6, <1>7

\* While the chip id is asked for.
TryState(s, r) ==
    /\ Follows(s, r) /\ SameControl(s.chip, r.chip)
    /\ r.copies = s.copies /\ r.chip.id = s.chip.id
    /\ \/ r.rslt = OK /\ r.data[1] = s.chip.id
       \/ r.rslt = E_COMM_FAIL /\ s.fail # 0

\* The chip id asked for once more.
LEMMA TryStep ==
    ASSUME NEW s, NEW r, TryState(s, r)
    PROVE  TryState(s, ChipIdRead(r)) /\ TryState(s, TryAgain(r))
<1> DEFINE q == ChipIdRead(r)
<1>1. r \in Runs /\ r.chip \in Chip
  BY DEF TryState, Follows, Runs
<1>2. /\ Follows(r, q) /\ q.chip = Later(r.chip) /\ q.copies = r.copies
      /\ \/ /\ q.rslt = OK
            /\ Len(q.data) = 1 /\ q.data[1] = Register(r.chip, CHIP_ID_ADDR)
         \/ q.rslt = E_COMM_FAIL /\ q.data = r.data /\ r.fail # 0
  BY <1>1, GetOne DEF ChipIdRead
<1>3. Register(r.chip, CHIP_ID_ADDR) = r.chip.id
  BY RegisterCases
<1>4. SameControl(r.chip, q.chip) /\ q.chip.id = r.chip.id
  BY <1>1, <1>2, LaterChip, LaterControl
<1> HIDE DEF q
<1>5. TryState(s, q)
  BY <1>2, <1>3, <1>4 DEF TryState, Follows, SameControl
<1>6. TryAgain(r) = r \/ TryAgain(r) = q
  BY DEF TryAgain, q
<1> QED
  BY <1>5, <1>6 DEF q

\* The driver that has found the chip.
Identified(d) == [d EXCEPT !.chip_id = CHIP_ID]

\* bme280_init: without a fault, with the right chip and a copy that ends in time
\* it succeeds; when it succeeds the driver holds the chip's calibration data.
LEMMA InitRun ==
    ASSUME NEW s \in Runs, NEW r, r = bme280_init(s)
    PROVE  /\ r \in Runs /\ r.comp = s.comp /\ r.fail = s.fail
           /\ \/ /\ r.rslt = OK /\ r.copies = 0
                 /\ s.copies < 6 /\ s.chip.id = CHIP_ID
                 /\ r.dev = WithHumidity(WithTempPress(Identified(s.dev)))
                 /\ Meas(r.chip) = {} /\ Config(r.chip) = {}
              \/ /\ r.rslt # OK
                 /\ r.dev \in {s.dev, Identified(s.dev), WithTempPress(Identified(s.dev))}
           /\ s.fail = 0 /\ s.copies < 6 /\ s.chip.id = CHIP_ID => r.rslt = OK
<1> DEFINE p == ChipIdRead(s)
           t == try_init(s)
           t0 == [t EXCEPT !.dev.chip_id = t.data[1]]
           q == bme280_soft_reset(t0)
<1>1. TryState(s, t)
  <2>1. s.chip \in Chip
    BY DEF Runs
  <2>2. /\ Follows(s, p) /\ p.chip = Later(s.chip) /\ p.copies = s.copies
        /\ \/ /\ p.rslt = OK
              /\ Len(p.data) = 1 /\ p.data[1] = Register(s.chip, CHIP_ID_ADDR)
           \/ p.rslt = E_COMM_FAIL /\ p.data = s.data /\ s.fail # 0
    BY GetOne DEF ChipIdRead
  <2>3. Register(s.chip, CHIP_ID_ADDR) = s.chip.id
    BY RegisterCases
  <2>4. TryState(s, p)
    BY <2>1, <2>2, <2>3, LaterChip, LaterControl DEF TryState
  <2>5. t = TryAgain(TryAgain(TryAgain(TryAgain(p))))
    BY DEF try_init
  <2> HIDE DEF p
  <2> QED
    BY <2>4, <2>5, TryStep
<1>2. r = IF Found(t) THEN (IF q.rslt = OK THEN get_calib_data(q) ELSE q)
          ELSE [t EXCEPT !.rslt = E_DEV_NOT_FOUND]
  BY DEF bme280_init, Then
<1> HIDE DEF t
<1>3. Found(t) <=> t.rslt = OK /\ s.chip.id = CHIP_ID
  BY <1>1 DEF Found, TryState, OK, E_COMM_FAIL
<1>4. CASE ~Found(t)
  <2>1. t \in Runs
    BY <1>1 DEF TryState, Follows
  <2>2. r \in Runs /\ r.comp = t.comp /\ r.fail = t.fail /\ r.dev = t.dev /\ r.rslt # OK
    BY <1>2, <1>4, <2>1 DEF Runs, OK, E_DEV_NOT_FOUND
  <2> QED
    BY <1>1, <1>3, <1>4, <2>2 DEF TryState, Follows
<1>5. CASE Found(t)
  <2>1. t.data[1] = CHIP_ID /\ s.chip.id = CHIP_ID
    BY <1>5, <1>1, <1>3 DEF Found
  <2>2. t0 = [t EXCEPT !.dev = Identified(t.dev)]
    BY <2>1, Zenon DEF Identified
  <2>3. t \in Runs /\ Identified(t.dev) \in Dev
    <3>1. CHIP_ID \in Byte
      BY DEF CHIP_ID, Byte, Bits
    <3> QED
      BY <1>1, <3>1 DEF TryState, Follows, Runs, Dev, Identified
  <2>4. /\ t0 \in Runs /\ t0.dev = Identified(t.dev) /\ t0.comp = t.comp /\ t0.fail = t.fail
        /\ t0.copies = t.copies
    <3> DEFINE d == Identified(t.dev)
    <3>1. t0 = [t EXCEPT !.dev = d] /\ d \in Dev
      BY <2>2, <2>3
    <3> HIDE DEF d, t0
    <3>2. /\ t0 \in Runs /\ t0.dev = d /\ t0.comp = t.comp /\ t0.fail = t.fail
          /\ t0.copies = t.copies
      BY <2>3, <3>1 DEF Runs
    <3> QED
      BY <3>2 DEF d
  <2> HIDE DEF t0
  <2>5. t0.dev = Identified(s.dev) /\ t0.comp = s.comp /\ t0.fail = s.fail
        /\ t0.copies = s.copies
    BY <1>1, <2>4 DEF TryState, Follows
  <2>6. /\ Follows(t0, q)
        /\ q.rslt = OK =>
             /\ q.copies = 0 /\ t0.copies < 6
             /\ q.chip.copying = 0
             /\ Meas(q.chip) = {} /\ Config(q.chip) = {} /\ Hum(q.chip) = {}
             /\ q.chip.hum = {}
        /\ t0.fail = 0 /\ t0.copies < 6 => q.rslt = OK
    BY <2>4, SoftReset
  <2> HIDE DEF q
  <2>7. CASE q.rslt # OK
    BY <1>2, <1>5, <2>5, <2>6, <2>7 DEF Follows
  <2>8. CASE q.rslt = OK
    <3>1. r = get_calib_data(q) /\ q \in Runs /\ q.chip.copying = 0
      BY <1>2, <1>5, <2>6, <2>8 DEF Follows
    <3>2. /\ r \in Runs /\ r.comp = q.comp /\ r.fail = q.fail /\ r.copies = q.copies
          /\ SameControl(q.chip, r.chip)
          /\ \/ r.rslt = OK /\ r.dev = WithHumidity(WithTempPress(q.dev))
             \/ /\ r.rslt = E_COMM_FAIL /\ q.fail # 0
                /\ r.dev \in {q.dev, WithTempPress(q.dev)}
      BY <3>1, GetCalib
    <3>3. q.dev = Identified(s.dev) /\ q.comp = s.comp /\ q.fail = s.fail
      BY <2>5, <2>6 DEF Follows
    <3>4. Meas(r.chip) = {} /\ Config(r.chip) = {} /\ r.copies = 0 /\ s.copies < 6
      BY <2>5, <2>6, <2>8, <3>2 DEF SameControl
    <3> QED
      BY <2>1, <3>2, <3>3, <3>4 DEF OK, E_COMM_FAIL
  <2> QED
    BY <2>7, <2>8
<1> QED
  BY <1>4, <1>5

-----------------------------------------------------------------------------
(* Settings and modes. *)

\* set_osr_humidity_settings writes ctrl_hum and then ctrl_meas as it was, so
\* that the humidity setting is in force.
LEMMA HumiditySettings ==
    ASSUME NEW s \in Runs, NEW settings \in Settings,
           NEW r, r = set_osr_humidity_settings(s, settings)
    PROVE  /\ Follows(s, r) /\ Meas(r.chip) = Meas(s.chip) /\ Config(r.chip) = Config(s.chip)
           /\ \/ /\ r.rslt = OK
                 /\ Hum(r.chip) = Low(settings.osr_h, 3) /\ r.chip.hum = Low(settings.osr_h, 3)
              \/ r.rslt = E_COMM_FAIL /\ s.fail # 0
<1> DEFINE h == settings.osr_h \cap CTRL_HUM.msk
           p == SetReg(s, CTRL_HUM_ADDR, h)
           q == bme280_get_regs(p, CTRL_MEAS_ADDR, 1)
           w == SetReg(q, CTRL_MEAS_ADDR, q.data[1])
<1>1. r = IF p.rslt = OK THEN (IF q.rslt = OK THEN w ELSE q) ELSE p
  BY DEF set_osr_humidity_settings, Then
<1>2. h = Low(settings.osr_h, 3) /\ h \in SUBSET Bits(3)
  BY DEF CTRL_HUM, Low, Bits
<1>3. /\ Follows(s, p) /\ Meas(p.chip) = Meas(s.chip) /\ Config(p.chip) = Config(s.chip)
      /\ \/ p.rslt = OK /\ Hum(p.chip) = h
         \/ p.rslt = E_COMM_FAIL /\ s.fail # 0
  BY <1>2, SetHum
<1> HIDE DEF h, p
<1>4. CASE p.rslt # OK
  BY <1>1, <1>3, <1>4
<1>5. CASE p.rslt = OK
  <2>1. p \in Runs /\ p.chip \in Chip
    BY <1>3 DEF Follows, Runs
  <2>2. /\ Follows(p, q) /\ q.chip = Later(p.chip) /\ q.copies = p.copies
        /\ \/ /\ q.rslt = OK
              /\ Len(q.data) = 1 /\ q.data[1] = Register(p.chip, CTRL_MEAS_ADDR)
           \/ q.rslt = E_COMM_FAIL /\ q.data = p.data /\ p.fail # 0
    BY <2>1, GetOne
  <2>3. SameControl(p.chip, q.chip)
    BY <2>1, <2>2, LaterControl
  <2>4. Register(p.chip, CTRL_MEAS_ADDR) = Meas(p.chip)
    <3>1. CTRL_MEAS_ADDR \in (242..254) \ {243}
      BY DEF CTRL_MEAS_ADDR
    <3> QED
      BY <3>1, RegisterCases DEF Meas
  <2> HIDE DEF q
  <2>5. CASE q.rslt # OK
    BY <1>1, <1>3, <1>5, <2>2, <2>3, <2>5 DEF Follows, SameControl
  <2>6. CASE q.rslt = OK
    <3>1. q \in Runs /\ q.data[1] = Meas(p.chip) /\ Meas(p.chip) \in Byte
      BY <2>1, <2>2, <2>4, <2>6, ChipRegisters DEF Follows, OK, E_COMM_FAIL
    <3>2. /\ Follows(q, w) /\ Config(w.chip) = Config(q.chip) /\ Hum(w.chip) = Hum(q.chip)
          /\ \/ w.rslt = OK /\ Meas(w.chip) = Meas(p.chip) /\ w.chip.hum = Hum(q.chip)
             \/ /\ w.rslt = E_COMM_FAIL /\ q.fail # 0
                /\ Meas(w.chip) = Meas(q.chip)
      BY <3>1, SetMeas
    <3> HIDE DEF w
    <3>3. r = w
      BY <1>1, <1>5, <2>6
    <3> QED
      BY <1>2, <1>3, <1>5, <2>2, <2>3, <3>2, <3>3 DEF Follows, SameControl, OK, E_COMM_FAIL
  <2> QED
    BY <2>5, <2>6
<1> QED
  BY <1>4, <1>5

\* The two registers with the selected fields set.
MeasWith(byte, desired, settings) ==
    Fill(Fill(byte, CTRL_PRESS, "osr_p" \in desired, settings.osr_p),
         CTRL_TEMP, "osr_t" \in desired, settings.osr_t)
ConfigWith(byte, desired, settings) ==
    Fill(Fill(byte, FILTER, "filter" \in desired, settings.filter),
         STANDBY, "standby_time" \in desired, settings.standby_time)

\* The fields of ctrl_meas and config lie in the same bits.
Middle == [msk |-> 2..4, pos |-> 2]
Upper == [msk |-> 5..7, pos |-> 5]

\* One field filled in, when it is selected; every other bit stays.
LEMMA FillBits ==
    ASSUME NEW b \in Byte, NEW data \in Byte, NEW selected \in BOOLEAN,
           NEW f \in {Middle, Upper}
    PROVE  /\ Fill(b, f, selected, data) \in Byte
           /\ \A i \in 0..7 : i \in Fill(b, f, selected, data) <=>
                IF selected /\ i \in f.msk THEN i - f.pos \in data ELSE i \in b
<1>1. data \in SUBSET Nat /\ f.pos \in Nat /\ f.msk \in SUBSET (0..7)
      /\ \A i \in f.msk : i >= f.pos /\ i - f.pos \in Nat
  BY DEF Byte, Bits, Middle, Upper
<1> DEFINE w == Shl(data, f.pos, 8)
<1>2. \A i \in Nat : i \in w <=> i < 8 /\ i >= f.pos /\ i - f.pos \in data
  BY <1>1, ShlBits
<1> HIDE DEF w
<1>3. Fill(b, f, selected, data) = IF selected THEN (b \ f.msk) \cup (w \cap f.msk) ELSE b
  BY DEF Fill, SET_BITS, w
<1>4. Fill(b, f, selected, data) \in Byte
  <2>1. f.msk \subseteq Bits(8) /\ b \subseteq Bits(8)
    BY <1>1 DEF Byte, Bits
  <2> QED
    BY <1>3, <2>1, Zenon DEF Byte
<1>5. \A i \in 0..7 : i \in Fill(b, f, selected, data) <=>
        IF selected /\ i \in f.msk THEN i - f.pos \in data ELSE i \in b
  BY <1>1, <1>2, <1>3
<1> QED
  BY <1>4, <1>5

\* Both fields of ctrl_meas.
LEMMA MeasWithBits ==
    ASSUME NEW b \in Byte, NEW desired, NEW settings \in Settings
    PROVE  /\ MeasWith(b, desired, settings) \in Byte
           /\ \A i \in 0..7 : i \in MeasWith(b, desired, settings) <=>
                IF "osr_p" \in desired /\ i \in 2..4 THEN i - 2 \in settings.osr_p
                ELSE IF "osr_t" \in desired /\ i \in 5..7 THEN i - 5 \in settings.osr_t
                ELSE i \in b
<1> DEFINE p == "osr_p" \in desired
           t == "osr_t" \in desired
           c == Fill(b, Middle, p, settings.osr_p)
           d == Fill(c, Upper, t, settings.osr_t)
<1>1. MeasWith(b, desired, settings) = d
  BY DEF MeasWith, CTRL_PRESS, CTRL_TEMP, Middle, Upper
<1>2. settings.osr_p \in Byte /\ settings.osr_t \in Byte /\ p \in BOOLEAN /\ t \in BOOLEAN
  BY DEF Settings
<1>3. /\ c \in Byte
      /\ \A i \in 0..7 : i \in c <=>
            IF p /\ i \in Middle.msk THEN i - Middle.pos \in settings.osr_p ELSE i \in b
  BY <1>2, FillBits
<1> HIDE DEF c
<1>4. /\ d \in Byte
      /\ \A i \in 0..7 : i \in d <=>
            IF t /\ i \in Upper.msk THEN i - Upper.pos \in settings.osr_t ELSE i \in c
  BY <1>2, <1>3, FillBits
<1> HIDE DEF d
<1>5. Middle.msk = 2..4 /\ Middle.pos = 2 /\ Upper.msk = 5..7 /\ Upper.pos = 5
  BY DEF Middle, Upper
<1>6. \A i \in 0..7 : i \in d <=>
        IF p /\ i \in 2..4 THEN i - 2 \in settings.osr_p
        ELSE IF t /\ i \in 5..7 THEN i - 5 \in settings.osr_t ELSE i \in b
  BY <1>3, <1>4, <1>5
<1> QED
  BY <1>1, <1>4, <1>6

\* Both fields of config.
LEMMA ConfigWithBits ==
    ASSUME NEW b \in Byte, NEW desired, NEW settings \in Settings
    PROVE  /\ ConfigWith(b, desired, settings) \in Byte
           /\ \A i \in 0..7 : i \in ConfigWith(b, desired, settings) <=>
                IF "filter" \in desired /\ i \in 2..4 THEN i - 2 \in settings.filter
                ELSE IF "standby_time" \in desired /\ i \in 5..7
                THEN i - 5 \in settings.standby_time
                ELSE i \in b
<1> DEFINE p == "filter" \in desired
           t == "standby_time" \in desired
           c == Fill(b, Middle, p, settings.filter)
           d == Fill(c, Upper, t, settings.standby_time)
<1>1. ConfigWith(b, desired, settings) = d
  BY DEF ConfigWith, FILTER, STANDBY, Middle, Upper
<1>2. settings.filter \in Byte /\ settings.standby_time \in Byte /\ p \in BOOLEAN /\ t \in BOOLEAN
  BY DEF Settings
<1>3. /\ c \in Byte
      /\ \A i \in 0..7 : i \in c <=>
            IF p /\ i \in Middle.msk THEN i - Middle.pos \in settings.filter ELSE i \in b
  BY <1>2, FillBits
<1> HIDE DEF c
<1>4. /\ d \in Byte
      /\ \A i \in 0..7 : i \in d <=>
            IF t /\ i \in Upper.msk THEN i - Upper.pos \in settings.standby_time ELSE i \in c
  BY <1>2, <1>3, FillBits
<1> HIDE DEF d
<1>5. Middle.msk = 2..4 /\ Middle.pos = 2 /\ Upper.msk = 5..7 /\ Upper.pos = 5
  BY DEF Middle, Upper
<1>6. \A i \in 0..7 : i \in d <=>
        IF p /\ i \in 2..4 THEN i - 2 \in settings.filter
        ELSE IF t /\ i \in 5..7 THEN i - 5 \in settings.standby_time ELSE i \in b
  BY <1>3, <1>4, <1>5
<1> QED
  BY <1>1, <1>4, <1>6

\* The mode is the two lowest bits of ctrl_meas.
LEMMA ModeBits == \A c \in Chip : Mode(c) = Meas(c) \cap (0..1)
<1>1. \A w \in SUBSET (0..1) : Shr(w, 0) = w
  <2> SUFFICES ASSUME NEW w \in SUBSET (0..1) PROVE Shr(w, 0) = w
    OBVIOUS
  <2>1. w \in SUBSET Nat /\ 0 \in Nat
    OBVIOUS
  <2>2. Shr(w, 0) \in SUBSET Nat /\ \A i \in Nat : i \in Shr(w, 0) <=> i + 0 \in w
    BY <2>1, ShrBits
  <2>3. \A i \in Nat : i + 0 = i
    OBVIOUS
  <2> HIDE DEF Shr
  <2> QED
    BY <2>1, <2>2, <2>3
<1> QED
  BY <1>1 DEF Mode, GET_BITS, SENSOR_MODE, Meas

\* set_osr_press_temp_settings writes back ctrl_meas with the selected fields.
LEMMA PressTempSettings ==
    ASSUME NEW s \in Runs, NEW desired, NEW settings \in Settings,
           NEW r, r = set_osr_press_temp_settings(s, desired, settings)
    PROVE  /\ Follows(s, r) /\ Config(r.chip) = Config(s.chip) /\ Hum(r.chip) = Hum(s.chip)
           /\ \/ /\ r.rslt = OK /\ Meas(r.chip) = MeasWith(Meas(s.chip), desired, settings)
                 /\ r.chip.hum = Hum(s.chip)
              \/ r.rslt = E_COMM_FAIL /\ s.fail # 0
<1> DEFINE q == bme280_get_regs(s, CTRL_MEAS_ADDR, 1)
           byte == MeasWith(q.data[1], desired, settings)
           w == SetReg(q, CTRL_MEAS_ADDR, byte)
<1>1. r = IF q.rslt = OK THEN w ELSE q
  BY DEF set_osr_press_temp_settings, Then, MeasWith
<1>2. s.chip \in Chip
  BY DEF Runs
<1>3. /\ Follows(s, q) /\ q.chip = Later(s.chip) /\ q.copies = s.copies
      /\ \/ /\ q.rslt = OK
            /\ Len(q.data) = 1 /\ q.data[1] = Register(s.chip, CTRL_MEAS_ADDR)
         \/ q.rslt = E_COMM_FAIL /\ q.data = s.data /\ s.fail # 0
  BY GetOne
<1>4. SameControl(s.chip, q.chip)
  BY <1>2, <1>3, LaterControl
<1>5. Register(s.chip, CTRL_MEAS_ADDR) = Meas(s.chip)
  <2>1. CTRL_MEAS_ADDR \in (242..254) \ {243}
    BY DEF CTRL_MEAS_ADDR
  <2> QED
    BY <2>1, RegisterCases DEF Meas
<1> HIDE DEF q
<1>6. CASE q.rslt # OK
  BY <1>1, <1>3, <1>4, <1>6 DEF SameControl
<1>7. CASE q.rslt = OK
  <2>1. q \in Runs /\ byte = MeasWith(Meas(s.chip), desired, settings)
    BY <1>3, <1>5, <1>7 DEF Follows, OK, E_COMM_FAIL
  <2>2. byte \in Byte
    BY <1>2, <2>1, ChipRegisters, MeasWithBits
  <2> HIDE DEF byte
  <2>3. /\ Follows(q, w) /\ Config(w.chip) = Config(q.chip) /\ Hum(w.chip) = Hum(q.chip)
        /\ \/ w.rslt = OK /\ Meas(w.chip) = byte /\ w.chip.hum = Hum(q.chip)
           \/ w.rslt = E_COMM_FAIL /\ q.fail # 0
    BY <2>1, <2>2, SetMeas
  <2> HIDE DEF w
  <2>4. r = w
    BY <1>1, <1>7
  <2> QED
    BY <1>3, <1>4, <2>1, <2>3, <2>4 DEF Follows, SameControl
<1> QED
  BY <1>6, <1>7

\* set_filter_standby_settings does so with config, in sleep mode.
LEMMA FilterStandbySettings ==
    ASSUME NEW s \in Runs, Mode(s.chip) = {}, NEW desired, NEW settings \in Settings,
           NEW r, r = set_filter_standby_settings(s, desired, settings)
    PROVE  /\ Follows(s, r) /\ Meas(r.chip) = Meas(s.chip) /\ Hum(r.chip) = Hum(s.chip)
           /\ r.chip.hum = s.chip.hum
           /\ \/ r.rslt = OK /\ Config(r.chip) = ConfigWith(Config(s.chip), desired, settings)
              \/ r.rslt = E_COMM_FAIL /\ s.fail # 0
<1> DEFINE q == bme280_get_regs(s, CONFIG_ADDR, 1)
           byte == ConfigWith(q.data[1], desired, settings)
           w == SetReg(q, CONFIG_ADDR, byte)
<1>1. r = IF q.rslt = OK THEN w ELSE q
  BY DEF set_filter_standby_settings, Then, ConfigWith
<1>2. s.chip \in Chip
  BY DEF Runs
<1>3. /\ Follows(s, q) /\ q.chip = Later(s.chip) /\ q.copies = s.copies
      /\ \/ /\ q.rslt = OK
            /\ Len(q.data) = 1 /\ q.data[1] = Register(s.chip, CONFIG_ADDR)
         \/ q.rslt = E_COMM_FAIL /\ q.data = s.data /\ s.fail # 0
  BY GetOne
<1>4. SameControl(s.chip, q.chip) /\ Mode(q.chip) = {}
  BY <1>2, <1>3, LaterControl
<1>5. Register(s.chip, CONFIG_ADDR) = Config(s.chip)
  <2>1. CONFIG_ADDR \in (242..254) \ {243}
    BY DEF CONFIG_ADDR
  <2> QED
    BY <2>1, RegisterCases DEF Config
<1> HIDE DEF q
<1>6. CASE q.rslt # OK
  BY <1>1, <1>3, <1>4, <1>6 DEF SameControl
<1>7. CASE q.rslt = OK
  <2>1. q \in Runs /\ byte = ConfigWith(Config(s.chip), desired, settings)
    BY <1>3, <1>5, <1>7 DEF Follows, OK, E_COMM_FAIL
  <2>2. byte \in Byte
    BY <1>2, <2>1, ChipRegisters, ConfigWithBits
  <2> HIDE DEF byte
  <2>3. /\ Follows(q, w) /\ Meas(w.chip) = Meas(q.chip) /\ Hum(w.chip) = Hum(q.chip)
        /\ w.chip.hum = q.chip.hum
        /\ \/ w.rslt = OK /\ Config(w.chip) = byte
           \/ w.rslt = E_COMM_FAIL /\ q.fail # 0
    BY <1>4, <2>1, <2>2, SetConfig
  <2> HIDE DEF w
  <2>4. r = w
    BY <1>1, <1>7
  <2> QED
    BY <1>3, <1>4, <2>1, <2>3, <2>4 DEF Follows, SameControl
<1> QED
  BY <1>6, <1>7

\* An error of the humidity part is lost when another part follows; without a
\* fault there is none.
LEMMA OsrSettings ==
    ASSUME NEW s \in Runs, NEW desired, NEW settings \in Settings,
           desired \cap {"osr_p", "osr_t", "osr_h"} # {},
           NEW r, r = set_osr_settings(s, desired, settings)
    PROVE  /\ Follows(s, r) /\ Config(r.chip) = Config(s.chip)
           /\ \/ /\ r.rslt = OK /\ Meas(r.chip) = MeasWith(Meas(s.chip), desired, settings)
                 /\ s.fail = 0 =>
                      /\ r.chip.hum = Hum(r.chip)
                      /\ Hum(r.chip) = IF "osr_h" \in desired THEN Low(settings.osr_h, 3)
                                       ELSE Hum(s.chip)
              \/ r.rslt # OK /\ s.fail # 0
<1> DEFINE h == set_osr_humidity_settings(s, settings)
           x == IF "osr_h" \in desired THEN h ELSE [s EXCEPT !.rslt = W_INVALID_OSR_MACRO]
           w == set_osr_press_temp_settings(x, desired, settings)
<1>1. r = IF desired \cap {"osr_p", "osr_t"} = {} THEN x ELSE w
  BY DEF set_osr_settings, OsrPressTemp
<1>2. /\ Follows(s, h) /\ Meas(h.chip) = Meas(s.chip) /\ Config(h.chip) = Config(s.chip)
      /\ \/ /\ h.rslt = OK
            /\ Hum(h.chip) = Low(settings.osr_h, 3) /\ h.chip.hum = Low(settings.osr_h, 3)
         \/ h.rslt = E_COMM_FAIL /\ s.fail # 0
  BY HumiditySettings
<1> HIDE DEF h
<1>3. /\ Follows(s, x) /\ Meas(x.chip) = Meas(s.chip) /\ Config(x.chip) = Config(s.chip)
      /\ s.fail = 0 => Hum(x.chip) = IF "osr_h" \in desired THEN Low(settings.osr_h, 3)
                                     ELSE Hum(s.chip)
  <2>1. CASE "osr_h" \in desired
    BY <1>2, <2>1
  <2>2. CASE "osr_h" \notin desired
    <3>1. W_INVALID_OSR_MACRO \in Int
      BY DEF W_INVALID_OSR_MACRO
    <3> QED
      BY <2>2, <3>1 DEF Follows, Runs
  <2> QED
    BY <2>1, <2>2
<1>4. CASE desired \cap {"osr_p", "osr_t"} = {}
  <2>1. "osr_h" \in desired /\ r = h
    BY <1>1, <1>4
  <2>2. MeasWith(Meas(s.chip), desired, settings) = Meas(s.chip)
    BY <1>4 DEF MeasWith, Fill
  <2> QED
    BY <1>2, <2>1, <2>2 DEF OK, E_COMM_FAIL
<1>5. CASE desired \cap {"osr_p", "osr_t"} # {}
  <2> HIDE DEF x
  <2>1. /\ Follows(x, w) /\ Config(w.chip) = Config(x.chip) /\ Hum(w.chip) = Hum(x.chip)
        /\ \/ /\ w.rslt = OK /\ Meas(w.chip) = MeasWith(Meas(x.chip), desired, settings)
              /\ w.chip.hum = Hum(x.chip)
           \/ w.rslt = E_COMM_FAIL /\ x.fail # 0
    BY <1>3, PressTempSettings DEF Follows
  <2> HIDE DEF w
  <2>2. r = w
    BY <1>1, <1>5
  <2> QED
    BY <1>3, <2>1, <2>2 DEF Follows, OK, E_COMM_FAIL
<1> QED
  BY <1>4, <1>5

\* The settings leave the mode's bits alone.
LEMMA MeasWithMode ==
    ASSUME NEW b \in Byte, NEW desired, NEW settings \in Settings
    PROVE  MeasWith(b, desired, settings) \cap (0..1) = b \cap (0..1)
<1> DEFINE d == MeasWith(b, desired, settings)
<1>1. \A i \in 0..7 : i \in d <=>
        IF "osr_p" \in desired /\ i \in 2..4 THEN i - 2 \in settings.osr_p
        ELSE IF "osr_t" \in desired /\ i \in 5..7 THEN i - 5 \in settings.osr_t
        ELSE i \in b
  BY MeasWithBits
<1> HIDE DEF d
<1>2. \A i \in 0..1 : i \in 0..7 /\ i \notin 2..4 /\ i \notin 5..7
  OBVIOUS
<1>3. \A i \in 0..1 : i \in d <=> i \in b
  BY <1>1, <1>2
<1> QED
  BY <1>3 DEF d

\* What the control registers say of the settings, as bits.
LEMMA ParsedSettings ==
    ASSUME NEW h \in SUBSET Bits(3), NEW m \in Byte, NEW c \in Byte,
           NEW d, d[1] = h, d[3] = m, d[4] = c,
           NEW p, p = parse_device_settings(d)
    PROVE  /\ p \in Settings
           /\ p.osr_h = h
           /\ \A i \in Nat : /\ i \in p.osr_p <=> i + 2 \in m \cap (2..4)
                             /\ i \in p.osr_t <=> i + 5 \in m \cap (5..7)
                             /\ i \in p.filter <=> i + 2 \in c \cap (2..4)
                             /\ i \in p.standby_time <=> i + 5 \in c \cap (5..7)
<1>1. \A b \in Byte :
        /\ Shr(b \cap (2..4), 2) \in Byte
        /\ \A i \in Nat : i \in Shr(b \cap (2..4), 2) <=> i + 2 \in b \cap (2..4)
  <2> SUFFICES ASSUME NEW b \in Byte
               PROVE  /\ Shr(b \cap (2..4), 2) \in Byte
                      /\ \A i \in Nat : i \in Shr(b \cap (2..4), 2) <=> i + 2 \in b \cap (2..4)
    OBVIOUS
  <2>1. b \cap (2..4) \in SUBSET Nat /\ 2 \in Nat
    OBVIOUS
  <2>2. /\ Shr(b \cap (2..4), 2) \in SUBSET Nat
        /\ \A i \in Nat : i \in Shr(b \cap (2..4), 2) <=> i + 2 \in b \cap (2..4)
    BY <2>1, ShrBits
  <2> QED
    BY <2>2 DEF Byte, Bits
<1>2. \A b \in Byte :
        /\ Shr(b \cap (5..7), 5) \in Byte
        /\ \A i \in Nat : i \in Shr(b \cap (5..7), 5) <=> i + 5 \in b \cap (5..7)
  <2> SUFFICES ASSUME NEW b \in Byte
               PROVE  /\ Shr(b \cap (5..7), 5) \in Byte
                      /\ \A i \in Nat : i \in Shr(b \cap (5..7), 5) <=> i + 5 \in b \cap (5..7)
    OBVIOUS
  <2>1. b \cap (5..7) \in SUBSET Nat /\ 5 \in Nat
    OBVIOUS
  <2>2. /\ Shr(b \cap (5..7), 5) \in SUBSET Nat
        /\ \A i \in Nat : i \in Shr(b \cap (5..7), 5) <=> i + 5 \in b \cap (5..7)
    BY <2>1, ShrBits
  <2> QED
    BY <2>2 DEF Byte, Bits
<1>3. Shr(h \cap (0..2), 0) = h
  <2>1. h \subseteq 0..2
    BY DEF Bits
  <2>2. h \cap (0..2) = h /\ h \in SUBSET Nat
    <3>1. \A i \in 0..2 : i \in Nat
      OBVIOUS
    <3> QED
      BY <2>1, <3>1, Zenon
  <2>4. 0 \in Nat /\ \A i \in Nat : i + 0 = i
    OBVIOUS
  <2>3. Shr(h, 0) \in SUBSET Nat /\ \A i \in Nat : i \in Shr(h, 0) <=> i + 0 \in h
    BY <2>2, <2>4, ShrBits
  <2> QED
    BY <2>2, <2>3, <2>4
<1>4. h \in Byte
  BY DEF Byte, Bits
<1>5. /\ p.osr_h = h /\ p.osr_p = Shr(m \cap (2..4), 2) /\ p.osr_t = Shr(m \cap (5..7), 5)
      /\ p.filter = Shr(c \cap (2..4), 2) /\ p.standby_time = Shr(c \cap (5..7), 5)
      /\ p = [osr_h |-> p.osr_h, osr_p |-> p.osr_p, osr_t |-> p.osr_t,
              filter |-> p.filter, standby_time |-> p.standby_time]
  BY <1>3 DEF parse_device_settings, GET_BITS, CTRL_HUM, CTRL_PRESS, CTRL_TEMP, FILTER, STANDBY
<1>6. p \in Settings
  BY <1>1, <1>2, <1>4, <1>5 DEF Settings
<1> QED
  BY <1>1, <1>2, <1>5, <1>6

\* Written back after a reset, they are what they were.
LEMMA WrittenBack ==
    ASSUME NEW h \in SUBSET Bits(3), NEW m \in Byte, NEW c \in Byte,
           NEW d, d[1] = h, d[3] = m, d[4] = c,
           NEW p, p = parse_device_settings(d)
    PROVE  /\ MeasWith({}, Fields, p) = m \ (0..1)
           /\ ConfigWith({}, Fields, p) = c \ (0..1)
           /\ Low(p.osr_h, 3) = h
<1>1. /\ p \in Settings
      /\ p.osr_h = h
      /\ \A i \in Nat : /\ i \in p.osr_p <=> i + 2 \in m \cap (2..4)
                        /\ i \in p.osr_t <=> i + 5 \in m \cap (5..7)
                        /\ i \in p.filter <=> i + 2 \in c \cap (2..4)
                        /\ i \in p.standby_time <=> i + 5 \in c \cap (5..7)
  BY ParsedSettings
<1>2. {} \in Byte /\ "osr_p" \in Fields /\ "osr_t" \in Fields /\ "filter" \in Fields
      /\ "standby_time" \in Fields
  BY DEF Byte, Fields
<1>3. /\ \A i \in 2..4 : i - 2 \in Nat /\ (i - 2) + 2 = i
      /\ \A i \in 5..7 : i - 5 \in Nat /\ (i - 5) + 5 = i
  OBVIOUS
<1>4. MeasWith({}, Fields, p) = m \ (0..1)
  <2> DEFINE x == MeasWith({}, Fields, p)
  <2>1. /\ x \in Byte
        /\ \A i \in 0..7 : i \in x <=>
             IF i \in 2..4 THEN i - 2 \in p.osr_p
             ELSE IF i \in 5..7 THEN i - 5 \in p.osr_t ELSE FALSE
    BY <1>1, <1>2, MeasWithBits
  <2> HIDE DEF x
  <2>2. \A i \in 2..4 : i \in x <=> i \in m
    BY <1>1, <1>3, <2>1
  <2>3. \A i \in 5..7 : i \in x <=> i \in m
    BY <1>1, <1>3, <2>1
  <2>4. \A i \in 0..1 : i \notin x
    BY <2>1
  <2>5. \A i \in x : i \in m \ (0..1)
    BY <2>1, <2>2, <2>3, <2>4 DEF Byte, Bits
  <2>6. \A i \in m \ (0..1) : i \in x
    BY <2>2, <2>3 DEF Byte, Bits
  <2> QED
    BY <2>5, <2>6 DEF x
<1>5. ConfigWith({}, Fields, p) = c \ (0..1)
  <2> DEFINE x == ConfigWith({}, Fields, p)
  <2>1. /\ x \in Byte
        /\ \A i \in 0..7 : i \in x <=>
             IF i \in 2..4 THEN i - 2 \in p.filter
             ELSE IF i \in 5..7 THEN i - 5 \in p.standby_time ELSE FALSE
    BY <1>1, <1>2, ConfigWithBits
  <2> HIDE DEF x
  <2>2. \A i \in 2..4 : i \in x <=> i \in c
    BY <1>1, <1>3, <2>1
  <2>3. \A i \in 5..7 : i \in x <=> i \in c
    BY <1>1, <1>3, <2>1
  <2>4. \A i \in 0..1 : i \notin x
    BY <2>1
  <2>5. \A i \in x : i \in c \ (0..1)
    BY <2>1, <2>2, <2>3, <2>4 DEF Byte, Bits
  <2>6. \A i \in c \ (0..1) : i \in x
    BY <2>2, <2>3 DEF Byte, Bits
  <2> QED
    BY <2>5, <2>6 DEF x
<1> QED
  BY <1>1, <1>4, <1>5 DEF Low

\* reload_device_settings writes every field, and loses an error of the
\* humidity's.
LEMMA ReloadSettings ==
    ASSUME NEW s \in Runs, Mode(s.chip) = {}, NEW settings \in Settings,
           NEW r, r = reload_device_settings(s, settings)
    PROVE  /\ Follows(s, r)
           /\ \/ /\ r.rslt = OK
                 /\ Meas(r.chip) = MeasWith(Meas(s.chip), Fields, settings)
                 /\ Config(r.chip) = ConfigWith(Config(s.chip), Fields, settings)
                 /\ s.fail = 0 =>
                      Hum(r.chip) = Low(settings.osr_h, 3) /\ r.chip.hum = Hum(r.chip)
              \/ r.rslt # OK /\ s.fail # 0
<1> DEFINE q == set_osr_settings(s, Fields, settings)
           w == set_filter_standby_settings(q, Fields, settings)
<1>1. r = IF q.rslt = OK THEN w ELSE q
  BY DEF reload_device_settings, Then
<1>2. /\ Follows(s, q) /\ Config(q.chip) = Config(s.chip)
      /\ \/ /\ q.rslt = OK /\ Meas(q.chip) = MeasWith(Meas(s.chip), Fields, settings)
            /\ s.fail = 0 =>
                 /\ q.chip.hum = Hum(q.chip)
                 /\ Hum(q.chip) = IF "osr_h" \in Fields THEN Low(settings.osr_h, 3)
                                  ELSE Hum(s.chip)
         \/ q.rslt # OK /\ s.fail # 0
  <2>1. Fields \cap {"osr_p", "osr_t", "osr_h"} # {}
    BY DEF Fields
  <2> QED
    BY <2>1, OsrSettings
<1>3. "osr_h" \in Fields
  BY DEF Fields
<1> HIDE DEF q
<1>4. CASE q.rslt # OK
  BY <1>1, <1>2, <1>4
<1>5. CASE q.rslt = OK
  <2>1. q \in Runs /\ q.chip \in Chip /\ s.chip \in Chip
    BY <1>2 DEF Follows, Runs
  <2>2. Mode(q.chip) = {}
    BY <1>2, <1>5, <2>1, MeasWithMode, ModeBits, ChipRegisters
  <2>3. /\ Follows(q, w) /\ Meas(w.chip) = Meas(q.chip) /\ Hum(w.chip) = Hum(q.chip)
        /\ w.chip.hum = q.chip.hum
        /\ \/ w.rslt = OK /\ Config(w.chip) = ConfigWith(Config(q.chip), Fields, settings)
           \/ w.rslt = E_COMM_FAIL /\ q.fail # 0
    BY <2>1, <2>2, FilterStandbySettings
  <2> HIDE DEF w
  <2>4. r = w
    BY <1>1, <1>5
  <2> QED
    BY <1>2, <1>3, <1>5, <2>3, <2>4 DEF Follows, OK, E_COMM_FAIL
<1> QED
  BY <1>4, <1>5

\* put_device_to_sleep: what was read before the reset is written back after
\* it, all but the mode.
LEMMA PutToSleep ==
    ASSUME NEW s \in Runs, NEW r, r = put_device_to_sleep(s)
    PROVE  /\ Follows(s, r)
           /\ r.rslt = OK =>
                /\ s.copies < 6
                /\ Meas(r.chip) = Meas(s.chip) \ (0..1)
                /\ Config(r.chip) = Config(s.chip) \ (0..1)
                /\ s.fail = 0 => Hum(r.chip) = Hum(s.chip) /\ r.chip.hum = Hum(s.chip)
           /\ s.fail = 0 /\ s.copies < 6 => r.rslt = OK
<1> DEFINE p == bme280_get_regs(s, CTRL_HUM_ADDR, 4)
           q == bme280_soft_reset(p)
           settings == parse_device_settings(p.data)
           w == reload_device_settings(q, settings)
<1>1. r = IF p.rslt = OK THEN (IF q.rslt = OK THEN w ELSE q) ELSE p
  BY DEF put_device_to_sleep, Then
<1>2. /\ Follows(s, p) /\ p.chip = Later(s.chip) /\ p.copies = s.copies
      /\ \/ /\ p.rslt = OK
            /\ p.data[1] = Hum(s.chip) /\ p.data[3] = Meas(s.chip)
            /\ p.data[4] = Config(s.chip)
         \/ p.rslt = E_COMM_FAIL /\ s.fail # 0
  BY GetControl
<1>3. /\ Hum(s.chip) \in SUBSET Bits(3) /\ Meas(s.chip) \in Byte /\ Config(s.chip) \in Byte
  BY ChipRegisters DEF Runs
<1> HIDE DEF p
<1>4. CASE p.rslt # OK
  BY <1>1, <1>2, <1>4
<1>5. CASE p.rslt = OK
  <2>1. p \in Runs /\ p.dev = s.dev /\ p.comp = s.comp /\ p.fail = s.fail
    BY <1>2 DEF Follows
  <2>2. /\ settings \in Settings
        /\ MeasWith({}, Fields, settings) = Meas(s.chip) \ (0..1)
        /\ ConfigWith({}, Fields, settings) = Config(s.chip) \ (0..1)
        /\ Low(settings.osr_h, 3) = Hum(s.chip)
    <3>1. /\ p.data[1] = Hum(s.chip) /\ p.data[3] = Meas(s.chip)
          /\ p.data[4] = Config(s.chip)
      BY <1>2, <1>5 DEF OK, E_COMM_FAIL
    <3>2. settings \in Settings
      BY <1>3, <3>1, ParsedSettings
    <3> QED
      BY <1>3, <3>1, <3>2, WrittenBack
  <2>3. /\ Follows(p, q)
        /\ q.rslt = OK =>
             /\ q.copies = 0 /\ p.copies < 6
             /\ q.chip.copying = 0
             /\ Meas(q.chip) = {} /\ Config(q.chip) = {} /\ Hum(q.chip) = {}
             /\ q.chip.hum = {}
        /\ p.fail = 0 /\ p.copies < 6 => q.rslt = OK
    BY <2>1, SoftReset
  <2> HIDE DEF q, settings
  <2>4. CASE q.rslt # OK
    BY <1>1, <1>2, <1>5, <2>1, <2>3, <2>4 DEF Follows
  <2>5. CASE q.rslt = OK
    <3>1. q \in Runs /\ q.chip \in Chip /\ Mode(q.chip) = {}
      BY <2>3, <2>5, ModeBits DEF Follows, Runs
    <3>2. /\ Follows(q, w)
          /\ \/ /\ w.rslt = OK
                /\ Meas(w.chip) = MeasWith(Meas(q.chip), Fields, settings)
                /\ Config(w.chip) = ConfigWith(Config(q.chip), Fields, settings)
                /\ q.fail = 0 =>
                     Hum(w.chip) = Low(settings.osr_h, 3) /\ w.chip.hum = Hum(w.chip)
             \/ w.rslt # OK /\ q.fail # 0
      BY <2>2, <3>1, ReloadSettings
    <3> HIDE DEF w
    <3>3. r = w
      BY <1>1, <1>5, <2>5
    <3> QED
      BY <1>2, <2>1, <2>2, <2>3, <2>5, <3>2, <3>3 DEF Follows
  <2> QED
    BY <2>4, <2>5
<1> QED
  BY <1>4, <1>5

\* The sleep every change of the settings starts with: a sensor found asleep stays
\* as it is, any other is reset and its settings written back.
LEMMA AsleepRun ==
    ASSUME NEW s \in Runs, NEW r, r = Asleep(s), s.rslt = OK
    PROVE  /\ Follows(s, r)
           /\ r.rslt = OK =>
                /\ Mode(s.chip) = {} \/ s.copies < 6
                /\ Mode(r.chip) = {}
                /\ Meas(r.chip) = Meas(s.chip) \ (0..1)
                /\ Config(r.chip) = IF Mode(s.chip) = {} THEN Config(s.chip)
                                    ELSE Config(s.chip) \ (0..1)
                /\ s.fail = 0 => /\ Hum(r.chip) = Hum(s.chip)
                                 /\ r.chip.hum \in {s.chip.hum, Hum(s.chip)}
           /\ s.fail = 0 /\ (Mode(s.chip) = {} \/ s.copies < 6) => r.rslt = OK
<1> DEFINE q == bme280_get_regs(s, CTRL_MEAS_ADDR, 1)
           p == [q EXCEPT !.data = <<GET_BITS(@[1], SENSOR_MODE)>>]
           w == put_device_to_sleep(p)
<1>1. r = IF q.rslt = OK THEN (IF p.data[1] = {} THEN p ELSE w) ELSE q
  <2>1. bme280_get_sensor_mode(s) = IF q.rslt = OK THEN p ELSE q
    BY DEF bme280_get_sensor_mode, Then
  <2>2. q.rslt = OK => p.rslt = OK
    BY DEF bme280_get_regs, CommFail, Runs
  <2> QED
    BY <2>1, <2>2 DEF Asleep, Then
<1>2. /\ Follows(s, q) /\ q.chip = Later(s.chip) /\ q.copies = s.copies
      /\ \/ /\ q.rslt = OK
            /\ Len(q.data) = 1 /\ q.data[1] = Register(s.chip, CTRL_MEAS_ADDR)
         \/ q.rslt = E_COMM_FAIL /\ q.data = s.data /\ s.fail # 0
  BY GetOne
<1>3. Register(s.chip, CTRL_MEAS_ADDR) = Meas(s.chip)
  <2>1. CTRL_MEAS_ADDR \in (242..254) \ {243}
    BY DEF CTRL_MEAS_ADDR
  <2> QED
    BY <2>1, RegisterCases DEF Meas
<1>4. s.chip \in Chip
  BY DEF Runs
<1> HIDE DEF q
<1>5. CASE q.rslt # OK
  BY <1>1, <1>2, <1>5
<1>6. CASE q.rslt = OK
  <2>1. q.data[1] = Meas(s.chip) /\ q \in Runs
    BY <1>2, <1>3, <1>6 DEF Follows, OK, E_COMM_FAIL
  <2>2. GET_BITS(q.data[1], SENSOR_MODE) = Mode(s.chip)
    BY <2>1 DEF Mode, Meas
  <2>3. Mode(s.chip) = Meas(s.chip) \cap (0..1) /\ Meas(s.chip) \in Byte
    BY <1>4, ModeBits, ChipRegisters
  <2>4. /\ p \in Runs /\ p.chip = q.chip /\ p.dev = q.dev /\ p.comp = q.comp /\ p.fail = q.fail
        /\ p.copies = q.copies /\ p.rslt = OK /\ p.data[1] = Mode(s.chip)
    <3> DEFINE d == <<Mode(s.chip)>>
    <3>1. p = [q EXCEPT !.data = d]
      BY <2>2, Zenon
    <3>2. d \in Seq(Byte)
      BY <2>3 DEF Byte
    <3>3. d[1] = Mode(s.chip)
      OBVIOUS
    <3> HIDE DEF d, p
    <3>4. /\ p \in Runs /\ p.chip = q.chip /\ p.dev = q.dev /\ p.comp = q.comp
          /\ p.fail = q.fail /\ p.copies = q.copies /\ p.rslt = q.rslt /\ p.data = d
      BY <2>1, <3>1, <3>2 DEF Runs
    <3> QED
      BY <1>6, <3>3, <3>4
  <2>5. SameControl(s.chip, p.chip) /\ Follows(s, p) /\ p.copies = s.copies
    BY <1>2, <1>4, <2>4, LaterControl DEF Follows
  <2> HIDE DEF p
  <2>6. CASE Mode(s.chip) = {}
    <3>1. r = p
      BY <1>1, <1>6, <2>4, <2>6
    <3>2. Meas(s.chip) = Meas(s.chip) \ (0..1)
      BY <2>3, <2>6
    <3>3. Mode(p.chip) = Mode(s.chip)
      BY <1>2, <1>4, <2>4, LaterControl
    <3> QED
      BY <2>4, <2>5, <2>6, <3>1, <3>2, <3>3 DEF SameControl
  <2>7. CASE Mode(s.chip) # {}
    <3>1. r = w
      BY <1>1, <1>6, <2>4, <2>7
    <3>2. /\ Follows(p, w)
          /\ w.rslt = OK =>
               /\ p.copies < 6
               /\ Meas(w.chip) = Meas(p.chip) \ (0..1)
               /\ Config(w.chip) = Config(p.chip) \ (0..1)
               /\ p.fail = 0 => Hum(w.chip) = Hum(p.chip) /\ w.chip.hum = Hum(p.chip)
          /\ p.fail = 0 /\ p.copies < 6 => w.rslt = OK
      BY <2>4, PutToSleep
    <3> HIDE DEF w
    <3>3. w.chip \in Chip
      BY <3>2 DEF Follows, Runs
    <3>4. Meas(w.chip) = Meas(s.chip) \ (0..1) => Mode(w.chip) = {}
      BY <3>3, ModeBits
    <3> QED
      BY <2>5, <2>7, <3>1, <3>2, <3>4 DEF SameControl, Follows
  <2> QED
    BY <2>6, <2>7
<1> QED
  BY <1>5, <1>6

\* bme280_set_sensor_settings: what the registers hold when it succeeds.
SettingsDone(c, desired, settings, d) ==
    /\ Mode(d) = {}
    /\ Meas(d) = MeasWith(Meas(c) \ (0..1), desired, settings)
    /\ Config(d) = ConfigWith(IF Mode(c) = {} THEN Config(c) ELSE Config(c) \ (0..1),
                              desired, settings)
\* A sensor that measures must be reset to sleep, and the copy the reset starts
\* must end in time.
CanSleep(c, copies) == Mode(c) = {} \/ copies < 6

\* bme280_set_sensor_settings: what it leaves when it succeeds, and that it
\* succeeds without a fault.
LEMMA SetSettings ==
    ASSUME NEW s \in Runs, s.rslt = OK, NEW desired \in SUBSET Fields,
           NEW settings \in Settings,
           NEW r, r = bme280_set_sensor_settings(s, desired, settings)
    PROVE  /\ Follows(s, r)
           /\ r.rslt = OK =>
                /\ CanSleep(s.chip, s.copies)
                /\ SettingsDone(s.chip, desired, settings, r.chip)
                /\ s.fail = 0 =>
                     IF "osr_h" \in desired THEN r.chip.hum = Low(settings.osr_h, 3)
                     ELSE r.chip.hum \in {s.chip.hum, Hum(s.chip)}
           /\ s.fail = 0 /\ CanSleep(s.chip, s.copies) => r.rslt = OK
<1> DEFINE p == Asleep(s)
           x == set_osr_settings(p, desired, settings)
           q == IF desired \cap {"osr_p", "osr_t", "osr_h"} = {} THEN p ELSE x
           y == set_filter_standby_settings(q, desired, settings)
           w == IF desired \cap {"filter", "standby_time"} = {} THEN q ELSE y
           config == IF Mode(s.chip) = {} THEN Config(s.chip) ELSE Config(s.chip) \ (0..1)
           meas == Meas(s.chip) \ (0..1)
<1>1. r = IF p.rslt = OK THEN (IF q.rslt = OK THEN w ELSE q) ELSE p
  BY DEF bme280_set_sensor_settings, Then
<1>2. /\ Follows(s, p)
      /\ p.rslt = OK =>
           /\ CanSleep(s.chip, s.copies)
           /\ Mode(p.chip) = {} /\ Meas(p.chip) = meas /\ Config(p.chip) = config
           /\ s.fail = 0 => Hum(p.chip) = Hum(s.chip) /\ p.chip.hum \in {s.chip.hum, Hum(s.chip)}
      /\ s.fail = 0 /\ CanSleep(s.chip, s.copies) => p.rslt = OK
  BY AsleepRun DEF CanSleep
<1>3. meas \in Byte
  BY ChipRegisters DEF Runs, Byte
<1> HIDE DEF p, config, meas
<1>4. CASE p.rslt # OK
  BY <1>1, <1>2, <1>4
<1>5. CASE p.rslt = OK
  <2>1. p \in Runs /\ p.fail = s.fail
    BY <1>2 DEF Follows
  <2>2. /\ Follows(p, q)
        /\ q.rslt = OK =>
             /\ Mode(q.chip) = {} /\ Config(q.chip) = config
             /\ Meas(q.chip) = MeasWith(meas, desired, settings)
             /\ s.fail = 0 =>
                  IF "osr_h" \in desired THEN q.chip.hum = Low(settings.osr_h, 3)
                  ELSE q.chip.hum \in {s.chip.hum, Hum(s.chip)}
        /\ s.fail = 0 => q.rslt = OK
    <3>1. CASE desired \cap {"osr_p", "osr_t", "osr_h"} = {}
      <4>1. q = p /\ MeasWith(meas, desired, settings) = meas /\ "osr_h" \notin desired
        BY <3>1 DEF MeasWith, Fill
      <4> QED
        BY <1>2, <1>5, <2>1, <4>1 DEF Follows
    <3>2. CASE desired \cap {"osr_p", "osr_t", "osr_h"} # {}
      <4>1. /\ Follows(p, x) /\ Config(x.chip) = Config(p.chip)
            /\ \/ /\ x.rslt = OK /\ Meas(x.chip) = MeasWith(Meas(p.chip), desired, settings)
                  /\ p.fail = 0 =>
                       /\ x.chip.hum = Hum(x.chip)
                       /\ Hum(x.chip) = IF "osr_h" \in desired THEN Low(settings.osr_h, 3)
                                        ELSE Hum(p.chip)
               \/ x.rslt # OK /\ p.fail # 0
        BY <2>1, <3>2, OsrSettings
      <4> HIDE DEF x
      <4>2. q = x /\ x.chip \in Chip /\ p.chip \in Chip
        BY <2>1, <3>2, <4>1 DEF Follows, Runs
      <4>3. Meas(x.chip) = MeasWith(meas, desired, settings) => Mode(x.chip) = {}
        <5>1. meas \cap (0..1) = {}
          BY DEF meas
        <5> QED
          BY <1>3, <4>2, <5>1, ModeBits, MeasWithMode
      <4> QED
        BY <1>2, <1>5, <2>1, <4>1, <4>2, <4>3
    <3> QED
      BY <3>1, <3>2
  <2> HIDE DEF q
  <2>3. CASE q.rslt # OK
    BY <1>1, <1>2, <1>5, <2>1, <2>2, <2>3 DEF Follows
  <2>4. CASE q.rslt = OK
    <3>1. r = w
      BY <1>1, <1>5, <2>4
    <3>2. CASE desired \cap {"filter", "standby_time"} = {}
      <4>1. w = q /\ ConfigWith(config, desired, settings) = config
        BY <3>2 DEF ConfigWith, Fill
      <4> QED
        BY <1>2, <1>5, <2>1, <2>2, <2>4, <3>1, <4>1 DEF Follows, config, meas, SettingsDone
    <3>3. CASE desired \cap {"filter", "standby_time"} # {}
      <4>1. q \in Runs /\ q.fail = s.fail
        BY <2>1, <2>2 DEF Follows
      <4>2. /\ Follows(q, y) /\ Meas(y.chip) = Meas(q.chip) /\ Hum(y.chip) = Hum(q.chip)
            /\ y.chip.hum = q.chip.hum
            /\ \/ y.rslt = OK /\ Config(y.chip) = ConfigWith(Config(q.chip), desired, settings)
               \/ y.rslt = E_COMM_FAIL /\ q.fail # 0
        BY <2>2, <2>4, <4>1, FilterStandbySettings
      <4> HIDE DEF y
      <4>3. w = y /\ y.chip \in Chip /\ q.chip \in Chip
        BY <3>3, <4>1, <4>2 DEF Follows, Runs
      <4>4. Mode(y.chip) = Mode(q.chip)
        BY <4>2, <4>3, ModeBits
      <4>5. Follows(s, r)
        BY <1>2, <2>2, <3>1, <4>2, <4>3 DEF Follows
      <4> HIDE DEF w
      <4> QED
        BY <1>2, <1>5, <2>1, <2>2, <2>4, <3>1, <4>1, <4>2, <4>3, <4>4, <4>5
           DEF config, meas, SettingsDone, OK, E_COMM_FAIL
    <3> QED
      BY <3>2, <3>3
  <2> QED
    BY <2>3, <2>4
<1> QED
  BY <1>4, <1>5

\* ctrl_meas with the bits of a mode set.
MeasInMode(byte, sensor_mode) == (byte \ (0..1)) \cup sensor_mode

\* bme280_set_sensor_mode: what the registers hold when it succeeds.
ModeDone(c, sensor_mode, d) ==
    /\ Meas(d) = MeasInMode(Meas(c), sensor_mode)
    /\ Config(d) = IF Mode(c) = {} THEN Config(c) ELSE Config(c) \ (0..1)

\* bme280_set_sensor_mode: the mode asked for, with the settings that were
\* there.
LEMMA SetMode ==
    ASSUME NEW s \in Runs, s.rslt = OK, NEW sensor_mode \in SUBSET {0, 1},
           NEW r, r = bme280_set_sensor_mode(s, sensor_mode)
    PROVE  /\ Follows(s, r)
           /\ r.rslt = OK =>
                /\ CanSleep(s.chip, s.copies)
                /\ ModeDone(s.chip, sensor_mode, r.chip)
                /\ s.fail = 0 => r.chip.hum = Hum(s.chip)
           /\ s.fail = 0 /\ CanSleep(s.chip, s.copies) => r.rslt = OK
<1> DEFINE p == Asleep(s)
           q == bme280_get_regs(p, CTRL_MEAS_ADDR, 1)
           byte == SET_BITS(q.data[1], SENSOR_MODE, sensor_mode)
           w == SetReg(q, CTRL_MEAS_ADDR, byte)
           config == IF Mode(s.chip) = {} THEN Config(s.chip) ELSE Config(s.chip) \ (0..1)
<1>1. r = IF p.rslt = OK THEN (IF q.rslt = OK THEN w ELSE q) ELSE p
  BY DEF bme280_set_sensor_mode, write_power_mode, Then
<1>2. /\ Follows(s, p)
      /\ p.rslt = OK =>
           /\ CanSleep(s.chip, s.copies)
           /\ Meas(p.chip) = Meas(s.chip) \ (0..1) /\ Config(p.chip) = config
           /\ s.fail = 0 => Hum(p.chip) = Hum(s.chip)
      /\ s.fail = 0 /\ CanSleep(s.chip, s.copies) => p.rslt = OK
  BY AsleepRun DEF CanSleep
<1> HIDE DEF p, config
<1>3. CASE p.rslt # OK
  BY <1>1, <1>2, <1>3
<1>4. CASE p.rslt = OK
  <2>1. p \in Runs /\ p.fail = s.fail /\ p.chip \in Chip
    BY <1>2 DEF Follows, Runs
  <2>2. /\ Follows(p, q) /\ q.chip = Later(p.chip) /\ q.copies = p.copies
        /\ \/ /\ q.rslt = OK
              /\ Len(q.data) = 1 /\ q.data[1] = Register(p.chip, CTRL_MEAS_ADDR)
           \/ q.rslt = E_COMM_FAIL /\ q.data = p.data /\ p.fail # 0
    BY <2>1, GetOne
  <2>3. Register(p.chip, CTRL_MEAS_ADDR) = Meas(p.chip)
    <3>1. CTRL_MEAS_ADDR \in (242..254) \ {243}
      BY DEF CTRL_MEAS_ADDR
    <3> QED
      BY <3>1, RegisterCases DEF Meas
  <2>4. SameControl(p.chip, q.chip)
    BY <2>1, <2>2, LaterControl
  <2> HIDE DEF q
  <2>5. CASE q.rslt # OK
    BY <1>1, <1>2, <1>4, <2>1, <2>2, <2>5 DEF Follows
  <2>6. CASE q.rslt = OK
    <3>1. q \in Runs /\ q.fail = s.fail /\ q.data[1] = Meas(p.chip) /\ Meas(p.chip) \in Byte
      BY <2>1, <2>2, <2>3, <2>6, ChipRegisters DEF Follows, OK, E_COMM_FAIL
    <3>2. byte \in Byte /\ byte = MeasInMode(Meas(s.chip), sensor_mode)
      <4>1. Shl(sensor_mode, 0, 8) \cap (0..1) = sensor_mode
        <5>1. /\ Shl(sensor_mode, 0, 8) \in SUBSET Bits(8)
              /\ \A i \in Nat : i \in Shl(sensor_mode, 0, 8) <=>
                                 i < 8 /\ i >= 0 /\ i - 0 \in sensor_mode
          BY ShlBits
        <5>2. \A i \in 0..1 : i < 8 /\ i >= 0 /\ i - 0 = i
          OBVIOUS
        <5>3. \A i \in 0..1 : i \in Shl(sensor_mode, 0, 8) <=> i \in sensor_mode
          BY <5>1, <5>2
        <5>4. \A i \in sensor_mode : i \in 0..1
          OBVIOUS
        <5> QED
          BY <5>3, <5>4, Zenon
      <4>2. byte = (Meas(p.chip) \ (0..1)) \cup sensor_mode
        BY <3>1, <4>1 DEF SET_BITS, SENSOR_MODE
      <4>3. byte \in Byte
        <5>1. \A i \in sensor_mode : i \in Bits(8)
          BY DEF Bits
        <5> QED
          BY <3>1, <4>2, <5>1, Zenon DEF Byte
      <4>4. Meas(p.chip) = Meas(s.chip) \ (0..1)
        BY <1>2, <1>4
      <4> QED
        BY <4>2, <4>3, <4>4 DEF MeasInMode
    <3> HIDE DEF byte
    <3>3. /\ Follows(q, w) /\ Config(w.chip) = Config(q.chip) /\ Hum(w.chip) = Hum(q.chip)
          /\ \/ w.rslt = OK /\ Meas(w.chip) = byte /\ w.chip.hum = Hum(q.chip)
             \/ w.rslt = E_COMM_FAIL /\ q.fail # 0
      BY <3>1, <3>2, SetMeas
    <3> HIDE DEF w
    <3>4. r = w
      BY <1>1, <1>4, <2>6
    <3>5. Follows(s, r)
      BY <1>2, <2>2, <3>3, <3>4 DEF Follows
    <3> QED
      BY <1>2, <1>4, <2>1, <2>4, <3>1, <3>2, <3>3, <3>4, <3>5
         DEF SameControl, config, ModeDone, OK, E_COMM_FAIL
  <2> QED
    BY <2>5, <2>6
<1> QED
  BY <1>3, <1>4

\* bme280_get_sensor_settings brings the settings of the control registers.
SettingsOf(c) == parse_device_settings(<<Hum(c), {}, Meas(c), Config(c)>>)
WithSettings(d, settings) == [d EXCEPT !.settings = settings]

\* bme280_get_sensor_settings: the settings of the chip, or the ones the driver
\* had.
LEMMA GetSettings ==
    ASSUME NEW s \in Runs, NEW r, r = bme280_get_sensor_settings(s)
    PROVE  /\ r \in Runs /\ r.comp = s.comp /\ r.fail = s.fail
           /\ SameControl(s.chip, r.chip)
           /\ SettingsOf(s.chip) \in Settings
           /\ \/ r.rslt = OK /\ r.dev = WithSettings(s.dev, SettingsOf(s.chip))
              \/ r.rslt = E_COMM_FAIL /\ s.fail # 0 /\ r.dev = s.dev
<1> DEFINE q == bme280_get_regs(s, CTRL_HUM_ADDR, 4)
           p == parse_device_settings(q.data)
           w == [q EXCEPT !.dev.settings = p]
<1>1. r = IF q.rslt = OK THEN w ELSE q
  BY DEF bme280_get_sensor_settings, Then
<1>2. /\ Follows(s, q) /\ q.chip = Later(s.chip) /\ q.copies = s.copies
      /\ \/ /\ q.rslt = OK
            /\ q.data[1] = Hum(s.chip) /\ q.data[3] = Meas(s.chip)
            /\ q.data[4] = Config(s.chip)
         \/ q.rslt = E_COMM_FAIL /\ s.fail # 0
  BY GetControl
<1>3. s.chip \in Chip /\ Hum(s.chip) \in SUBSET Bits(3) /\ Meas(s.chip) \in Byte
      /\ Config(s.chip) \in Byte
  BY ChipRegisters DEF Runs
<1>7. SettingsOf(s.chip) \in Settings
  <2> DEFINE data == <<Hum(s.chip), {}, Meas(s.chip), Config(s.chip)>>
  <2>1. data[1] = Hum(s.chip) /\ data[3] = Meas(s.chip) /\ data[4] = Config(s.chip)
    OBVIOUS
  <2> HIDE DEF data
  <2>2. parse_device_settings(data) \in Settings
    BY <1>3, <2>1, ParsedSettings
  <2> QED
    BY <2>2 DEF data, SettingsOf
<1>4. SameControl(s.chip, q.chip)
  BY <1>2, <1>3, LaterControl
<1> HIDE DEF q
<1>5. CASE q.rslt # OK
  BY <1>1, <1>2, <1>4, <1>5, <1>7 DEF Follows
<1>6. CASE q.rslt = OK
  <2>1. q.data[1] = Hum(s.chip) /\ q.data[3] = Meas(s.chip) /\ q.data[4] = Config(s.chip)
    BY <1>2, <1>6 DEF OK, E_COMM_FAIL
  <2>3. p = SettingsOf(s.chip)
    BY <2>1 DEF parse_device_settings, SettingsOf
  <2>2. p \in Settings
    BY <1>7, <2>3
  <2> HIDE DEF p
  <2> DEFINE d == WithSettings(q.dev, p)
  <2>4. w = [q EXCEPT !.dev = d]
    BY Zenon DEF WithSettings
  <2>5. q \in Runs /\ q.dev = s.dev /\ q.comp = s.comp /\ q.fail = s.fail /\ q.dev \in Dev
    BY <1>2 DEF Follows, Runs
  <2>6. d \in Dev /\ d.settings = p /\ d = WithSettings(s.dev, p)
    BY <2>2, <2>5 DEF Dev, WithSettings
  <2> HIDE DEF d, w
  <2>7. /\ w \in Runs /\ w.dev = d /\ w.chip = q.chip /\ w.comp = q.comp /\ w.fail = q.fail
        /\ w.rslt = q.rslt
    BY <2>4, <2>5, <2>6 DEF Runs
  <2> QED
    BY <1>1, <1>4, <1>6, <1>7, <2>3, <2>5, <2>6, <2>7
<1> QED
  BY <1>5, <1>6

-----------------------------------------------------------------------------
(* Readings. *)

\* The 20 bits of a pressure or a temperature, from three registers.
LEMMA TwentyBits ==
    ASSUME NEW b1 \in Byte, NEW b2 \in Byte, NEW b3 \in Byte,
           NEW w, w = Shl(b1, 12, 32) \cup Shl(b2, 4, 32) \cup Shr(b3, 4)
    PROVE  /\ w \in SUBSET Bits(32)
           /\ Val(w) = 4096 * Val(b1) + 16 * Val(b2) + (Val(b3) \div 16)
<1>1. /\ b1 \in SUBSET Nat /\ b2 \in SUBSET Nat /\ b3 \in SUBSET Nat
      /\ \A i \in Nat : (i \in b1 \/ i \in b2 \/ i \in b3) => i < 8
  BY DEF Byte, Bits
<1>2. /\ Shl(b1, 12, 32) \in SUBSET Bits(32)
      /\ \A i \in Nat : i \in Shl(b1, 12, 32) <=> i < 32 /\ i >= 12 /\ i - 12 \in b1
  BY <1>1, ShlBits
<1>3. /\ Shl(b2, 4, 32) \in SUBSET Bits(32)
      /\ \A i \in Nat : i \in Shl(b2, 4, 32) <=> i < 32 /\ i >= 4 /\ i - 4 \in b2
  BY <1>1, ShlBits
<1>4. /\ Shr(b3, 4) \in SUBSET Nat
      /\ \A i \in Nat : i \in Shr(b3, 4) <=> i + 4 \in b3
  BY <1>1, ShrBits
<1>5. \A i \in Nat : i \in w <=> (i < 32 /\ i >= 12 /\ i - 12 \in b1)
                                   \/ (i < 32 /\ i >= 4 /\ i - 4 \in b2)
                                   \/ i + 4 \in b3
  BY <1>2, <1>3, <1>4
<1>6. w \in SUBSET Bits(32)
  <2>1. \A i \in Shr(b3, 4) : i \in Bits(32)
    BY <1>1, <1>4 DEF Bits
  <2> QED
    BY <1>2, <1>3, <2>1, Zenon
<1>7. /\ \A k \in 0..3 : 0 + k \in w <=> 4 + k \in b3
      /\ \A k \in 0..3 : 4 + k \in w <=> 0 + k \in b2
      /\ \A k \in 0..3 : 8 + k \in w <=> 4 + k \in b2
      /\ \A k \in 0..3 : 12 + k \in w <=> 0 + k \in b1
      /\ \A k \in 0..3 : 16 + k \in w <=> 4 + k \in b1
  <2>1. \A k \in 0..3 : 0 + k \in w <=> 4 + k \in b3
    BY <1>1, <1>5
  <2>2. \A k \in 0..3 : 4 + k \in w <=> 0 + k \in b2
    BY <1>1, <1>5
  <2>3. \A k \in 0..3 : 8 + k \in w <=> 4 + k \in b2
    BY <1>1, <1>5
  <2>4. \A k \in 0..3 : 12 + k \in w <=> 0 + k \in b1
    <3>1. \A k \in 0..3 : 12 + k - 12 = 0 + k /\ 12 + k - 4 >= 8 /\ 12 + k + 4 >= 8
                          /\ 12 + k - 4 \in Nat
      OBVIOUS
    <3> QED
      BY <1>1, <1>5, <3>1
  <2>5. \A k \in 0..3 : 16 + k \in w <=> 4 + k \in b1
    <3>1. \A k \in 0..3 : 16 + k - 12 = 4 + k /\ 16 + k - 4 >= 8 /\ 16 + k + 4 >= 8
                          /\ 16 + k - 4 \in Nat
      OBVIOUS
    <3> QED
      BY <1>1, <1>5, <3>1
  <2> QED
    BY <2>1, <2>2, <2>3, <2>4, <2>5
<1>8. /\ \A k \in 0..3 : 20 + k \notin w
      /\ \A k \in 0..3 : 24 + k \notin w
      /\ \A k \in 0..3 : 28 + k \notin w
  BY <1>1, <1>5
<1>9. Nibble(w, 0) = Nibble(b3, 4)
  BY <1>7, NibbleSame
<1>10. Nibble(w, 4) = Nibble(b2, 0)
  BY <1>7, NibbleSame
<1>11. Nibble(w, 8) = Nibble(b2, 4)
  BY <1>7, NibbleSame
<1>12. Nibble(w, 12) = Nibble(b1, 0)
  BY <1>7, NibbleSame
<1>13. Nibble(w, 16) = Nibble(b1, 4)
  BY <1>7, NibbleSame
<1>14. Nibble(w, 20) = 0 /\ Nibble(w, 24) = 0 /\ Nibble(w, 28) = 0
  BY <1>8, NibbleZero
<1> DEFINE x0 == Nibble(b3, 4)
           x1 == Nibble(b2, 0)
           x2 == Nibble(b2, 4)
           x3 == Nibble(b1, 0)
           x4 == Nibble(b1, 4)
<1>15. x0 \in 0..15 /\ x1 \in 0..15 /\ x2 \in 0..15 /\ x3 \in 0..15 /\ x4 \in 0..15
  BY NibbleValue
<1> DEFINE v1 == Val(b1)
           v2 == Val(b2)
           v3 == Val(b3) \div 16
<1>16. v1 = x3 + 16 * x4 /\ v2 = x1 + 16 * x2 /\ v3 = x0
  BY ByteValue DEF Byte
<1> DEFINE n0 == Nibble(w, 0)
           n1 == Nibble(w, 4)
           n2 == Nibble(w, 8)
           n3 == Nibble(w, 12)
           n4 == Nibble(w, 16)
           n5 == Nibble(w, 20)
           n6 == Nibble(w, 24)
           n7 == Nibble(w, 28)
<1>17. Val(w) = n0 + 16 * n1 + 256 * n2 + 4096 * n3 + 65536 * n4 + 1048576 * n5
                + 16777216 * n6 + 268435456 * n7
  BY DEF Val
<1>18. n0 = x0 /\ n1 = x1 /\ n2 = x2 /\ n3 = x3 /\ n4 = x4 /\ n5 = 0 /\ n6 = 0 /\ n7 = 0
  BY <1>9, <1>10, <1>11, <1>12, <1>13, <1>14
<1> HIDE DEF x0, x1, x2, x3, x4, n0, n1, n2, n3, n4, n5, n6, n7, v1, v2, v3
<1>19. Val(w) = 4096 * v1 + 16 * v2 + v3
  BY <1>15, <1>16, <1>17, <1>18
<1> QED
  BY <1>6, <1>19 DEF v1, v2, v3

\* The 16 bits of a humidity, from two registers.
LEMMA SixteenBits ==
    ASSUME NEW b1 \in Byte, NEW b2 \in Byte, NEW w, w = Shl(b1, 8, 32) \cup b2
    PROVE  w \in SUBSET Bits(32) /\ Val(w) = 256 * Val(b1) + Val(b2)
<1>1. /\ b1 \in SUBSET Nat /\ b2 \in SUBSET Nat
      /\ \A i \in Nat : (i \in b1 \/ i \in b2) => i < 8
  BY DEF Byte, Bits
<1>2. /\ Shl(b1, 8, 32) \in SUBSET Bits(32)
      /\ \A i \in Nat : i \in Shl(b1, 8, 32) <=> i < 32 /\ i >= 8 /\ i - 8 \in b1
  BY <1>1, ShlBits
<1>3. \A i \in Nat : i \in w <=> (i < 32 /\ i >= 8 /\ i - 8 \in b1) \/ i \in b2
  BY <1>2
<1>4. w \in SUBSET Bits(16)
  <2>1. \A i \in w : i \in Nat
    <3>1. \A i \in Bits(32) : i \in Nat
      BY DEF Bits
    <3> QED
      BY <1>1, <1>2, <3>1, Zenon
  <2>2. \A i \in w : i < 16
    BY <1>1, <1>3, <2>1
  <2> QED
    BY <2>1, <2>2 DEF Bits
<1>5. w \in SUBSET Bits(32)
  BY <1>4 DEF Bits
<1>6. \A k \in 0..3 : 0 + k \in w <=> 0 + k \in b2
  BY <1>1, <1>3
<1>7. \A k \in 0..3 : 4 + k \in w <=> 4 + k \in b2
  BY <1>1, <1>3
<1>8. \A k \in 0..3 : 8 + k \in w <=> 0 + k \in b1
  BY <1>1, <1>3
<1>9. \A k \in 0..3 : 12 + k \in w <=> 4 + k \in b1
  BY <1>1, <1>3
<1>10. Nibble(w, 0) = Nibble(b2, 0)
  BY <1>6, NibbleSame
<1>11. Nibble(w, 4) = Nibble(b2, 4)
  BY <1>7, NibbleSame
<1>12. Nibble(w, 8) = Nibble(b1, 0)
  BY <1>8, NibbleSame
<1>13. Nibble(w, 12) = Nibble(b1, 4)
  BY <1>9, NibbleSame
<1>14. /\ Nibble(b1, 0) \in 0..15 /\ Nibble(b1, 4) \in 0..15
       /\ Nibble(b2, 0) \in 0..15 /\ Nibble(b2, 4) \in 0..15
  BY NibbleValue
<1>15. /\ Val(b1) = Nibble(b1, 0) + 16 * Nibble(b1, 4)
       /\ Val(b2) = Nibble(b2, 0) + 16 * Nibble(b2, 4)
  BY ByteValue DEF Byte
<1>16. Val(w) = Nibble(b2, 0) + 16 * Nibble(b2, 4) + 256 * Nibble(b1, 0) + 4096 * Nibble(b1, 4)
  BY <1>4, <1>10, <1>11, <1>12, <1>13, ShortValue
<1>17. Val(w) = 256 * Val(b1) + Val(b2)
  BY <1>14, <1>15, <1>16, SMTT(30)
<1> QED
  BY <1>5, <1>17

\* The data registers, as they are read in one transfer.
DataOf(c) == bme280_parse_sensor_data(Read(c, DATA_ADDR, 8))

\* The numbers of a reading, from the registers they are spread over.
LEMMA DataValues ==
    ASSUME NEW c \in Chip, NEW u, u = DataOf(c)
    PROVE  /\ u.pressure \in SUBSET Bits(32) /\ u.temperature \in SUBSET Bits(32)
           /\ u.humidity \in SUBSET Bits(32)
           /\ LET byte(k) == Val(c.regs[DATA_ADDR + k])
                  twenty(k) == 4096 * byte(k) + 16 * byte(k + 1) + (byte(k + 2) \div 16)
              IN  /\ Val(u.pressure) = twenty(0)
                  /\ Val(u.temperature) = twenty(3)
                  /\ Val(u.humidity) = 256 * byte(6) + byte(7)
<1> DEFINE d == Read(c, DATA_ADDR, 8)
           reg(k) == c.regs[DATA_ADDR + k]
<1>1. /\ reg(0) \in Byte /\ reg(1) \in Byte /\ reg(2) \in Byte /\ reg(3) \in Byte
      /\ reg(4) \in Byte /\ reg(5) \in Byte /\ reg(6) \in Byte /\ reg(7) \in Byte
  BY DEF Chip, CTRL_HUM_ADDR, DATA_ADDR
<1>2. \A k \in 1..8 : d[k] = reg(k - 1)
  <2> SUFFICES ASSUME NEW k \in 1..8 PROVE d[k] = reg(k - 1)
    OBVIOUS
  <2>1. DATA_ADDR + k - 1 = DATA_ADDR + (k - 1) /\ DATA_ADDR + k - 1 \in (242..254) \ {243}
    BY DEF DATA_ADDR
  <2>2. d[k] = Register(c, DATA_ADDR + k - 1)
    BY DEF Read
  <2> QED
    BY <2>1, <2>2, RegisterCases
<1>3. /\ d[1] = reg(0) /\ d[2] = reg(1) /\ d[3] = reg(2) /\ d[4] = reg(3)
      /\ d[5] = reg(4) /\ d[6] = reg(5) /\ d[7] = reg(6) /\ d[8] = reg(7)
  <2>1. /\ d[1] = reg(1 - 1) /\ d[2] = reg(2 - 1) /\ d[3] = reg(3 - 1) /\ d[4] = reg(4 - 1)
        /\ d[5] = reg(5 - 1) /\ d[6] = reg(6 - 1) /\ d[7] = reg(7 - 1) /\ d[8] = reg(8 - 1)
    BY <1>2, 1 \in 1..8, 2 \in 1..8, 3 \in 1..8, 4 \in 1..8, 5 \in 1..8, 6 \in 1..8,
       7 \in 1..8, 8 \in 1..8
  <2>2. 1 - 1 = 0 /\ 2 - 1 = 1 /\ 3 - 1 = 2 /\ 4 - 1 = 3 /\ 5 - 1 = 4 /\ 6 - 1 = 5
        /\ 7 - 1 = 6 /\ 8 - 1 = 7
    OBVIOUS
  <2> QED
    BY <2>1, <2>2, Zenon
<1>4. /\ u.pressure = Shl(d[1], 12, 32) \cup Shl(d[1 + 1], 4, 32) \cup Shr(d[1 + 2], 4)
      /\ u.temperature = Shl(d[4], 12, 32) \cup Shl(d[4 + 1], 4, 32) \cup Shr(d[4 + 2], 4)
      /\ u.humidity = Shl(d[7], 8, 32) \cup d[8]
  BY DEF DataOf, bme280_parse_sensor_data
<1>5. 1 + 1 = 2 /\ 1 + 2 = 3 /\ 4 + 1 = 5 /\ 4 + 2 = 6
  OBVIOUS
<1>6. /\ u.pressure = Shl(reg(0), 12, 32) \cup Shl(reg(1), 4, 32) \cup Shr(reg(2), 4)
      /\ u.temperature = Shl(reg(3), 12, 32) \cup Shl(reg(4), 4, 32) \cup Shr(reg(5), 4)
      /\ u.humidity = Shl(reg(6), 8, 32) \cup reg(7)
  <2> HIDE DEF d, reg
  <2> QED
    BY <1>3, <1>4, <1>5, Zenon
<1>7. /\ u.pressure \in SUBSET Bits(32)
      /\ Val(u.pressure) = 4096 * Val(reg(0)) + 16 * Val(reg(1)) + (Val(reg(2)) \div 16)
  <2> HIDE DEF reg
  <2> QED
    BY <1>1, <1>6, TwentyBits
<1>8. /\ u.temperature \in SUBSET Bits(32)
      /\ Val(u.temperature) = 4096 * Val(reg(3)) + 16 * Val(reg(4)) + (Val(reg(5)) \div 16)
  <2> HIDE DEF reg
  <2> QED
    BY <1>1, <1>6, TwentyBits
<1>9. /\ u.humidity \in SUBSET Bits(32)
      /\ Val(u.humidity) = 256 * Val(reg(6)) + Val(reg(7))
  <2> HIDE DEF reg
  <2> QED
    BY <1>1, <1>6, SixteenBits
<1> HIDE DEF d
<1> QED
  BY <1>7, <1>8, <1>9

\* What a reading returns: pressure and humidity with the temperature beside them.
Compensated(u, comp) ==
    [temperature |-> IF comp = {} THEN <<>> ELSE <<u.temperature>>,
     pressure |-> IF "press" \in comp THEN <<u.pressure, u.temperature>> ELSE <<>>,
     humidity |-> IF "hum" \in comp THEN <<u.humidity, u.temperature>> ELSE <<>>]
WithFine(d, u, comp) == IF comp = {} THEN d ELSE [d EXCEPT !.t_fine = u.temperature]

\* bme280_get_sensor_data compensates exactly what was asked for, with the
\* temperature of the same reading.
LEMMA GetData ==
    ASSUME NEW s \in Runs, s.comp = NoData, NEW comp \in SUBSET {"press", "temp", "hum"},
           NEW r, r = bme280_get_sensor_data(s, comp)
    PROVE  /\ r \in Runs /\ r.fail = s.fail /\ SameControl(s.chip, r.chip)
           /\ \/ /\ r.rslt = OK /\ r.comp = Compensated(DataOf(s.chip), comp)
                 /\ r.dev = WithFine(s.dev, DataOf(s.chip), comp)
              \/ r.rslt = E_COMM_FAIL /\ s.fail # 0 /\ r.dev = s.dev
<1> DEFINE q == bme280_get_regs(s, DATA_ADDR, 8)
           u == bme280_parse_sensor_data(q.data)
           w == bme280_compensate_data(q, comp, u)
<1>1. r = IF q.rslt = OK THEN w ELSE q
  BY DEF bme280_get_sensor_data, Then
<1>2. /\ Follows(s, q) /\ q.chip = Later(s.chip) /\ q.copies = s.copies
      /\ \/ q.rslt = OK /\ q.data = Read(s.chip, DATA_ADDR, 8)
         \/ q.rslt = E_COMM_FAIL /\ q.data = s.data /\ s.fail # 0
  <2>1. DATA_ADDR \in Nat /\ CanRead(DATA_ADDR, 8)
    BY DEF DATA_ADDR, CTRL_HUM_ADDR, Readable, CanRead
  <2> QED
    BY <2>1, GetRegs
<1>3. s.chip \in Chip
  BY DEF Runs
<1>4. SameControl(s.chip, q.chip)
  BY <1>2, <1>3, LaterControl
<1> HIDE DEF q
<1>5. CASE q.rslt # OK
  BY <1>1, <1>2, <1>4, <1>5 DEF Follows
<1>6. CASE q.rslt = OK
  <2>1. u = DataOf(s.chip)
    BY <1>2, <1>6 DEF DataOf, OK, E_COMM_FAIL
  <2>2. /\ u.pressure \in SUBSET Bits(32) /\ u.temperature \in SUBSET Bits(32)
        /\ u.humidity \in SUBSET Bits(32)
    BY <1>3, <2>1, DataValues
  <2>3. /\ q \in Runs /\ q.dev = s.dev /\ q.fail = s.fail /\ q.comp = NoData /\ q.dev \in Dev
    BY <1>2 DEF Follows, Runs
  <2> HIDE DEF u
  <2> DEFINE d == WithFine(q.dev, u, comp)
             x == IF comp = {} THEN q ELSE compensate_temperature(q, u)
             z == Compensated(u, comp)
  <2>4. /\ d \in Dev /\ (comp # {} => d.t_fine = u.temperature)
    BY <2>2, <2>3 DEF WithFine, Dev
  <2>5. z \in Comp
    <3>1. <<>> \in Seq(SUBSET Bits(32)) /\ <<u.temperature>> \in Seq(SUBSET Bits(32))
          /\ <<u.pressure, u.temperature>> \in Seq(SUBSET Bits(32))
          /\ <<u.humidity, u.temperature>> \in Seq(SUBSET Bits(32))
      BY <2>2
    <3> QED
      BY <3>1 DEF Compensated, Comp
  <2>6. /\ x \in Runs /\ x.chip = q.chip /\ x.dev = d /\ x.fail = q.fail /\ x.rslt = q.rslt
        /\ x.comp = [NoData EXCEPT !.temperature = IF comp = {} THEN <<>> ELSE <<u.temperature>>]
    <3>1. CASE comp = {}
      <4>1. x = q /\ d = q.dev
        BY <3>1 DEF WithFine
      <4>2. [NoData EXCEPT !.temperature = <<>>] = NoData
        BY DEF NoData
      <4> QED
        BY <2>3, <3>1, <4>1, <4>2
    <3>2. CASE comp # {}
      <4> DEFINE e == [NoData EXCEPT !.temperature = <<u.temperature>>]
      <4>1. d = [q.dev EXCEPT !.t_fine = u.temperature]
        BY <3>2 DEF WithFine
      <4>2. x = [q EXCEPT !.comp = e, !.dev = d]
        BY <2>3, <3>2, <4>1, Zenon DEF compensate_temperature
      <4>3. e \in Comp
        <5>1. <<u.temperature>> \in Seq(SUBSET Bits(32)) /\ <<>> \in Seq(SUBSET Bits(32))
          BY <2>2
        <5> QED
          BY <5>1 DEF NoData, Comp
      <4> HIDE DEF d, e, x
      <4>4. /\ x \in Runs /\ x.chip = q.chip /\ x.dev = d /\ x.fail = q.fail
            /\ x.rslt = q.rslt /\ x.comp = e
        BY <2>3, <2>4, <4>2, <4>3 DEF Runs
      <4> QED
        BY <3>2, <4>4 DEF d, e
    <3> QED
      BY <3>1, <3>2
  <2>7. w = compensate_pressure_humidity(x, comp, u)
    BY DEF bme280_compensate_data
  <2> HIDE DEF d, x, w
  <2>8. w = [x EXCEPT !.comp = z]
    <3> DEFINE p == IF "press" \in comp THEN <<u.pressure, x.dev.t_fine>> ELSE <<>>
               h == IF "hum" \in comp THEN <<u.humidity, x.dev.t_fine>> ELSE <<>>
    <3>1. w = [x EXCEPT !.comp = [[x.comp EXCEPT !.pressure = p] EXCEPT !.humidity = h]]
      BY <2>7, <2>6 DEF compensate_pressure_humidity, Runs
    <3>2. /\ "press" \in comp => p = <<u.pressure, u.temperature>>
          /\ "hum" \in comp => h = <<u.humidity, u.temperature>>
      BY <2>4, <2>6
    <3> DEFINE e == IF comp = {} THEN <<>> ELSE <<u.temperature>>
    <3>4. x.comp = [temperature |-> e, pressure |-> <<>>, humidity |-> <<>>]
      <4> HIDE DEF e
      <4>1. x.comp = [NoData EXCEPT !.temperature = e]
        BY <2>6 DEF e
      <4> QED
        BY <4>1 DEF NoData
    <3>5. z = [temperature |-> e, pressure |-> p, humidity |-> h]
      <4>1. p = (IF "press" \in comp THEN <<u.pressure, u.temperature>> ELSE <<>>)
        BY <3>2
      <4>2. h = (IF "hum" \in comp THEN <<u.humidity, u.temperature>> ELSE <<>>)
        BY <3>2
      <4> HIDE DEF p, h
      <4> QED
        BY <4>1, <4>2, Zenon DEF Compensated
    <3>3. [[x.comp EXCEPT !.pressure = p] EXCEPT !.humidity = h] = z
      <4> DEFINE c == x.comp
      <4> HIDE DEF p, h, e, z, c
      <4> DEFINE none == <<>>
      <4>1. c = [temperature |-> e, pressure |-> none, humidity |-> none]
        BY <3>4 DEF c
      <4> HIDE DEF none
      <4>3. [c EXCEPT !.pressure = p] = [temperature |-> e, pressure |-> p, humidity |-> none]
        BY <4>1
      <4> DEFINE e1 == [c EXCEPT !.pressure = p]
      <4> HIDE DEF e1
      <4>4. e1 = [temperature |-> e, pressure |-> p, humidity |-> none]
        BY <4>3 DEF e1
      <4>5. [e1 EXCEPT !.humidity = h] = [temperature |-> e, pressure |-> p, humidity |-> h]
        BY <4>4
      <4>2. [[c EXCEPT !.pressure = p] EXCEPT !.humidity = h] = z
        BY <4>5, <3>5, Zenon DEF e1
      <4> QED
        BY <4>2 DEF c
    <3> QED
      BY <3>1, <3>3
  <2> HIDE DEF z
  <2>9. /\ w \in Runs /\ w.comp = z /\ w.chip = x.chip /\ w.dev = x.dev /\ w.fail = x.fail
        /\ w.rslt = x.rslt
    BY <2>5, <2>6, <2>8 DEF Runs
  <2> QED
    BY <1>1, <1>4, <1>6, <2>1, <2>3, <2>6, <2>9 DEF z, d
<1> QED
  BY <1>5, <1>6

-----------------------------------------------------------------------------
(* Writes of several registers. *)

\* The largest of some numbers.
LEMMA MaxGiven ==
    ASSUME NEW S \in SUBSET Nat, NEW k \in S, \A i \in S : i <= k
    PROVE  Max(S) = k
<1>1. \A y \in S : k >= y
  OBVIOUS
<1> DEFINE m == Max(S)
<1>2. m \in S /\ \A y \in S : m >= y
  BY <1>1, Zenon DEF Max
<1> HIDE DEF m
<1>3. m = k
  BY <1>1, <1>2
<1> QED
  BY <1>3 DEF m

\* Sleep mode is two bits of ctrl_meas that are not set.
LEMMA AsleepBits ==
    ASSUME NEW c \in Chip
    PROVE  Mode(c) = {} <=> Val(c.regs[CTRL_MEAS_ADDR]) % 4 = 0
<1> DEFINE b == c.regs[CTRL_MEAS_ADDR]
<1>1. b \in SUBSET Bits(8)
  BY ChipRegisters DEF Meas, Byte
<1>2. Mode(c) = {} <=> 0 \notin b /\ 1 \notin b
  <2>1. Mode(c) = b \cap {0, 1}
    BY ModeBits DEF Meas
  <2> QED
    BY <2>1
<1> HIDE DEF b
<1> DEFINE n == Val(b)
           b0 == Bit(b, 0)
           b1 == Bit(b, 1)
           b2 == Bit(b, 2)
<1>3. n % 8 = b0 + 2 * b1 + 4 * b2
  BY <1>1, ByteFields
<1>4. n \in Nat
  BY <1>1, ByteValue
<1>5. b0 \in {0, 1} /\ b1 \in {0, 1} /\ b2 \in {0, 1}
  BY BitValue
<1>6. (b0 = 0 <=> 0 \notin b) /\ (b1 = 0 <=> 1 \notin b)
  BY DEF Bit
<1> HIDE DEF n, b0, b1, b2
<1>7. n % 4 = 0 <=> b0 = 0 /\ b1 = 0
  BY <1>3, <1>4, <1>5
<1> QED
  BY <1>2, <1>6, <1>7 DEF n, b

\* The addresses of the registers.
Addresses == 242..254

LEMMA MeasAddress == CTRL_MEAS_ADDR \in Addresses
BY DEF Addresses, CTRL_MEAS_ADDR

\* What a register takes of a byte.
Taken(a, byte) == IF a = CTRL_HUM_ADDR THEN Low(byte, 3) ELSE byte

\* A write that is no reset changes the register it addresses and no other;
\* config only in sleep mode.
LEMMA WrittenRegister ==
    ASSUME NEW c \in Chip, NEW a \in Writable, NEW byte \in Byte, NEW copies \in Nat,
           a = RESET_ADDR => byte # SOFT_RESET_COMMAND
    PROVE  \A x \in Addresses : Written(c, a, byte, copies).regs[x] =
             IF a = x /\ (x = CONFIG_ADDR => Mode(c) = {}) THEN Taken(x, byte) ELSE c.regs[x]
<1> SUFFICES ASSUME NEW x \in Addresses
             PROVE  Written(c, a, byte, copies).regs[x] =
                      IF a = x /\ (x = CONFIG_ADDR => Mode(c) = {}) THEN Taken(x, byte)
                      ELSE c.regs[x]
  OBVIOUS
<1>1. Low(byte, 3) \in Byte /\ Low(byte, 3) \subseteq Bits(3)
  BY DEF Low, Byte, Bits
<1>2. DOMAIN c.regs = Addresses
  BY DEF Chip, Addresses, CTRL_HUM_ADDR, DATA_ADDR
<1>3. CASE a = RESET_ADDR
  <2>1. a \notin Addresses
    BY <1>3 DEF RESET_ADDR, Addresses
  <2> QED
    BY <1>3, <2>1, WrittenCases
<1>4. CASE a = CTRL_HUM_ADDR
  <2>1. Written(c, a, byte, copies) = Stored(c, a, Low(byte, 3))
    BY <1>4, WrittenCases
  <2>2. Stored(c, a, Low(byte, 3)).regs = [c.regs EXCEPT ![a] = Low(byte, 3)]
    BY <1>1, <1>4, StoredChip
  <2> QED
    BY <2>1, <2>2, <1>2, <1>4, Distinct DEF Taken
<1>5. CASE a = CTRL_MEAS_ADDR
  <2> DEFINE d == Stored(c, a, byte)
  <2>1. Written(c, a, byte, copies) = [d EXCEPT !.hum = c.regs[CTRL_HUM_ADDR]]
    BY <1>5, WrittenCases
  <2>2. d.regs = [c.regs EXCEPT ![a] = byte] /\ d \in Chip
    BY <1>5, Distinct, StoredChip
  <2> HIDE DEF d
  <2>3. [d EXCEPT !.hum = c.regs[CTRL_HUM_ADDR]].regs = d.regs
    BY <2>2 DEF Chip
  <2> QED
    BY <2>1, <2>2, <2>3, <1>2, <1>5, Distinct DEF Taken
<1>6. CASE a = CONFIG_ADDR
  <2>1. Written(c, a, byte, copies) = IF Mode(c) = {} THEN Stored(c, a, byte) ELSE c
    BY <1>6, WrittenCases
  <2>2. Stored(c, a, byte).regs = [c.regs EXCEPT ![a] = byte]
    BY <1>6, Distinct, StoredChip
  <2> QED
    BY <2>1, <2>2, <1>2, <1>6, Distinct DEF Taken
<1> QED
  BY <1>3, <1>4, <1>5, <1>6 DEF Writable

\* The write of the byte at place k.
Place(c, addrs, bytes, k, copies) ==
    IF k <= Len(bytes) THEN Written(c, addrs[k], bytes[k], copies) ELSE c

\* After the first j places of a burst that began at c0: the last byte that a
\* register takes is in it.
LastFor(c0, addrs, bytes, c, j, a) ==
    \/ /\ c.regs[a] = c0.regs[a]
       /\ \A k \in 1..j : k \notin TakenPlaces(c0, addrs, bytes, a)
    \/ \E k \in 1..j :
          /\ k \in TakenPlaces(c0, addrs, bytes, a)
          /\ \A i \in (k + 1)..j : i \notin TakenPlaces(c0, addrs, bytes, a)
          /\ c.regs[a] = Taken(a, bytes[k])
\* After the first j places of a burst.
BurstState(c0, addrs, bytes, c, j) ==
    /\ c \in Chip
    /\ NoReset(addrs, bytes) =>
         \A a \in Addresses : LastFor(c0, addrs, bytes, c, j, a)

\* Whether the chip sleeps after the first j places is what the last byte for
\* ctrl_meas among them says.
LEMMA AsleepNow ==
    ASSUME NEW addrs \in Seq(Writable), NEW bytes \in Seq(Byte), Len(addrs) = Len(bytes),
           NEW c0 \in Chip, NEW c \in Chip, NEW j \in 0..9,
           LastFor(c0, addrs, bytes, c, j, CTRL_MEAS_ADDR)
    PROVE  Mode(c) = {} <=> AsleepAt(c0, addrs, bytes, j + 1)
<1> DEFINE P == PlacesFor(addrs, CTRL_MEAS_ADDR)
           before == {i \in P : i < j + 1}
           T == TakenPlaces(c0, addrs, bytes, CTRL_MEAS_ADDR)
<1>1. T = P
  BY Distinct DEF TakenPlaces
<1>2. P \in SUBSET Nat /\ \A i \in P : i >= 1
  BY DEF PlacesFor
<1>3. Mode(c) = {} <=> Val(c.regs[CTRL_MEAS_ADDR]) % 4 = 0
  BY AsleepBits
<1>4. AsleepAt(c0, addrs, bytes, j + 1) <=>
        Val(IF before = {} THEN c0.regs[CTRL_MEAS_ADDR] ELSE bytes[Max(before)]) % 4 = 0
  BY DEF AsleepAt
<1>5. before \in SUBSET Nat /\ \A i : i \in before <=> i \in 1..j /\ i \in T
  <2> HIDE DEF P, T
  <2>1. \A i \in P : i < j + 1 <=> i \in 1..j
    BY <1>2
  <2> QED
    BY <1>1, <1>2, <2>1
<1> HIDE DEF before, T
<1>6. CASE /\ c.regs[CTRL_MEAS_ADDR] = c0.regs[CTRL_MEAS_ADDR]
           /\ \A k \in 1..j : k \notin T
  <2>1. before = {}
    BY <1>5, <1>6
  <2>2. (IF before = {} THEN c0.regs[CTRL_MEAS_ADDR] ELSE bytes[Max(before)])
          = c.regs[CTRL_MEAS_ADDR]
    BY <1>6, <2>1
  <2> QED
    BY <1>3, <1>4, <2>2
<1>7. CASE \E k \in 1..j :
             /\ k \in T
             /\ \A i \in (k + 1)..j : i \notin T
             /\ c.regs[CTRL_MEAS_ADDR] = Taken(CTRL_MEAS_ADDR, bytes[k])
  <2>1. PICK k \in 1..j :
          /\ k \in T
          /\ \A i \in (k + 1)..j : i \notin T
          /\ c.regs[CTRL_MEAS_ADDR] = Taken(CTRL_MEAS_ADDR, bytes[k])
    BY <1>7
  <2>2. k \in before
    BY <1>5, <2>1
  <2>3. ASSUME NEW i \in before PROVE i <= k
    <3>1. i \in 1..j /\ i \in T
      BY <1>5
    <3>2. i \notin (k + 1)..j
      BY <2>1, <3>1, Zenon
    <3> QED
      BY <3>1, <3>2
  <2>4. Max(before) = k
    BY <1>5, <2>2, <2>3, MaxGiven
  <2>5. before # {}
    BY <2>2
  <2>6. Taken(CTRL_MEAS_ADDR, bytes[k]) = bytes[k]
    BY Distinct DEF Taken
  <2>7. (IF before = {} THEN c0.regs[CTRL_MEAS_ADDR] ELSE bytes[Max(before)])
          = c.regs[CTRL_MEAS_ADDR]
    BY <2>1, <2>4, <2>5, <2>6, Zenon
  <2> QED
    BY <1>3, <1>4, <2>7
<1> QED
  BY <1>6, <1>7 DEF LastFor, T

\* The next place of a burst.
LEMMA BurstStep ==
    ASSUME NEW addrs \in Seq(Writable), NEW bytes \in Seq(Byte), Len(addrs) = Len(bytes),
           NEW copies \in Nat, NEW c0 \in Chip, NEW c, NEW j \in 0..9,
           BurstState(c0, addrs, bytes, c, j)
    PROVE  BurstState(c0, addrs, bytes, Place(c, addrs, bytes, j + 1, copies), j + 1)
<1> DEFINE d == Place(c, addrs, bytes, j + 1, copies)
           T(a) == TakenPlaces(c0, addrs, bytes, a)
<1>1. c \in Chip
  BY DEF BurstState
<1>2. ASSUME j + 1 <= Len(bytes), NoReset(addrs, bytes), NEW a \in Addresses
      PROVE  d.regs[a] = IF j + 1 \in T(a) THEN Taken(a, bytes[j + 1]) ELSE c.regs[a]
  <2>1. addrs[j + 1] \in Writable /\ bytes[j + 1] \in Byte /\ j + 1 \in 1..Len(bytes)
    BY <1>2
  <2>2. d.regs[a] = IF addrs[j + 1] = a /\ (a = CONFIG_ADDR => Mode(c) = {})
                    THEN Taken(a, bytes[j + 1]) ELSE c.regs[a]
    <3>1. addrs[j + 1] = RESET_ADDR => bytes[j + 1] # SOFT_RESET_COMMAND
      BY <1>2, <2>1 DEF NoReset
    <3>2. d = Written(c, addrs[j + 1], bytes[j + 1], copies)
      BY <1>2 DEF Place
    <3> HIDE DEF d
    <3>3. \A x \in Addresses : d.regs[x] =
            IF addrs[j + 1] = x /\ (x = CONFIG_ADDR => Mode(c) = {})
            THEN Taken(x, bytes[j + 1]) ELSE c.regs[x]
      BY <1>1, <2>1, <3>1, <3>2, WrittenRegister, Zenon
    <3> QED
      BY <3>3, Zenon
  <2>3. LastFor(c0, addrs, bytes, c, j, CTRL_MEAS_ADDR)
    BY <1>2, MeasAddress DEF BurstState
  <2>4. Mode(c) = {} <=> AsleepAt(c0, addrs, bytes, j + 1)
    BY <1>1, <2>3, AsleepNow
  <2>5. j + 1 \in PlacesFor(addrs, a) <=> addrs[j + 1] = a
    BY <2>1 DEF PlacesFor
  <2>6. j + 1 \in T(a) <=> addrs[j + 1] = a /\ (a = CONFIG_ADDR => Mode(c) = {})
    BY <2>4, <2>5 DEF TakenPlaces
  <2> QED
    BY <2>2, <2>6, Zenon
<1>3. ASSUME ~(j + 1 <= Len(bytes)), NEW a
      PROVE  d = c /\ j + 1 \notin T(a)
  BY <1>3 DEF Place, TakenPlaces, PlacesFor
<1>4. d \in Chip
  <2>1. CASE j + 1 <= Len(bytes)
    <3>1. addrs[j + 1] \in Writable /\ bytes[j + 1] \in Byte
      BY <2>1
    <3> QED
      BY <1>1, <2>1, <3>1, WrittenChip DEF Place
  <2> QED
    BY <1>1, <1>3, <2>1
<1>5. ASSUME NoReset(addrs, bytes), NEW a \in Addresses
      PROVE  LastFor(c0, addrs, bytes, d, j + 1, a)
  <2>1. d.regs[a] = IF j + 1 \in T(a) THEN Taken(a, bytes[j + 1]) ELSE c.regs[a]
    BY <1>2, <1>3, <1>5
  <2>2. LastFor(c0, addrs, bytes, c, j, a)
    BY <1>5 DEF BurstState
  <2> HIDE DEF d
  <2>3. CASE j + 1 \in T(a)
    <3>1. /\ j + 1 \in 1..(j + 1)
          /\ \A i \in (j + 1 + 1)..(j + 1) : i \notin T(a)
      OBVIOUS
    <3> QED
      BY <2>1, <2>3, <3>1 DEF LastFor
  <2>4. CASE j + 1 \notin T(a)
    <3>1. CASE c.regs[a] = c0.regs[a] /\ \A k \in 1..j : k \notin T(a)
      <4>1. \A k \in 1..(j + 1) : k \notin T(a)
        BY <2>4, <3>1
      <4> QED
        BY <2>1, <2>4, <3>1, <4>1 DEF LastFor
    <3>2. ASSUME NEW k \in 1..j, k \in T(a), \A i \in (k + 1)..j : i \notin T(a),
                 c.regs[a] = Taken(a, bytes[k])
          PROVE  LastFor(c0, addrs, bytes, d, j + 1, a)
      <4>1. k \in 1..(j + 1) /\ \A i \in (k + 1)..(j + 1) : i \notin T(a)
        BY <2>4, <3>2
      <4> QED
        BY <2>1, <2>4, <3>2, <4>1 DEF LastFor
    <3> QED
      BY <2>2, <3>1, <3>2 DEF LastFor
  <2> QED
    BY <2>3, <2>4
<1> QED
  BY <1>4, <1>5 DEF BurstState

\* The transfer that bme280_set_regs makes is these writes, in order.
SamePlaces(buff, addrs, bytes, copies) ==
    \A c : \A k \in 1..9 :
        PairWritten(c, buff, k, copies) = Place(c, addrs, bytes, k + 1, copies)

\* interleave_reg_addr lays the bytes out so that the transfer writes each to
\* its own address, the first ten of them.
LEMMA BurstPlaces ==
    ASSUME NEW addrs \in Seq(Writable), NEW bytes \in Seq(Byte), Len(addrs) = Len(bytes),
           NEW len \in 1..10, len = (IF Len(bytes) > 10 THEN 10 ELSE Len(bytes)),
           NEW buff, buff = interleave_reg_addr(addrs, bytes, len), NEW copies
    PROVE  buff[1] = bytes[1] /\ SamePlaces(buff, addrs, bytes, copies)
<1>1. /\ buff = [k \in 1..(2 * len - 1) |->
                   IF k % 2 = 0 THEN addrs[k \div 2 + 1] ELSE bytes[k \div 2 + 1]]
      /\ 2 * len - 1 \in Nat
  BY DEF interleave_reg_addr
<1>2. Len(buff) = 2 * len - 1
  BY <1>1
<1>3. buff[1] = bytes[1]
  <2>1. 1 % 2 # 0 /\ 1 \div 2 + 1 = 1 /\ 1 \in 1..(2 * len - 1)
    OBVIOUS
  <2> QED
    BY <1>1, <2>1
<1>4. ASSUME NEW c, NEW k \in 1..9
      PROVE  PairWritten(c, buff, k, copies) = Place(c, addrs, bytes, k + 1, copies)
  <2>1. 2 * k < Len(buff) <=> k + 1 <= Len(bytes)
    BY <1>2
  <2>2. CASE k + 1 <= Len(bytes)
    <3>1. /\ 2 * k \in 1..(2 * len - 1) /\ 2 * k + 1 \in 1..(2 * len - 1)
          /\ (2 * k) % 2 = 0 /\ (2 * k + 1) % 2 # 0
          /\ (2 * k) \div 2 + 1 = k + 1 /\ (2 * k + 1) \div 2 + 1 = k + 1
      BY <2>2
    <3>2. buff[2 * k] = addrs[k + 1] /\ buff[2 * k + 1] = bytes[k + 1]
      BY <1>1, <3>1, SMTT(30)
    <3> QED
      BY <2>1, <2>2, <3>2 DEF PairWritten, Place
  <2>3. CASE ~(k + 1 <= Len(bytes))
    BY <2>1, <2>3 DEF PairWritten, Place
  <2> QED
    BY <2>2, <2>3
<1> QED
  BY <1>3, <1>4 DEF SamePlaces

\* The whole transfer.
LEMMA BurstChip ==
    ASSUME NEW addrs \in Seq(Writable), NEW bytes \in Seq(Byte), Len(addrs) = Len(bytes),
           Len(bytes) > 0, NEW c0 \in Chip, NEW copies \in Nat,
           NEW len, len = (IF Len(bytes) > 10 THEN 10 ELSE Len(bytes)),
           NEW d, d = BurstWritten(c0, addrs[1], interleave_reg_addr(addrs, bytes, len), copies)
    PROVE  BurstState(c0, addrs, bytes, d, 10)
<1> DEFINE buff == interleave_reg_addr(addrs, bytes, len)
           next(c, k) == Place(c, addrs, bytes, k, copies)
           c1 == next(c0, 1)
           c2 == next(c1, 2)
           c3 == next(c2, 3)
           c4 == next(c3, 4)
           c5 == next(c4, 5)
           c6 == next(c5, 6)
           c7 == next(c6, 7)
           c8 == next(c7, 8)
           c9 == next(c8, 9)
           c10 == next(c9, 10)
<1>1. len \in 1..10
  <2>1. \A m \in Nat : m > 0 => (IF m > 10 THEN 10 ELSE m) \in 1..10
    OBVIOUS
  <2>2. Len(bytes) \in Nat /\ Len(bytes) > 0
    OBVIOUS
  <2> QED
    BY <2>1, <2>2, Zenon
<1>2. buff[1] = bytes[1] /\ SamePlaces(buff, addrs, bytes, copies)
  <2> HIDE DEF next, c1, c2, c3, c4, c5, c6, c7, c8, c9, c10
  <2> QED
    BY <1>1, BurstPlaces
<1>3. c1 = Written(c0, addrs[1], buff[1], copies)
  BY <1>2 DEF Place
<1>4. \A c : /\ PairWritten(c, buff, 1, copies) = next(c, 2)
             /\ PairWritten(c, buff, 2, copies) = next(c, 3)
             /\ PairWritten(c, buff, 3, copies) = next(c, 4)
             /\ PairWritten(c, buff, 4, copies) = next(c, 5)
             /\ PairWritten(c, buff, 5, copies) = next(c, 6)
             /\ PairWritten(c, buff, 6, copies) = next(c, 7)
             /\ PairWritten(c, buff, 7, copies) = next(c, 8)
             /\ PairWritten(c, buff, 8, copies) = next(c, 9)
             /\ PairWritten(c, buff, 9, copies) = next(c, 10)
  <2> HIDE DEF buff
  <2>1. /\ 1 + 1 = 2 /\ 2 + 1 = 3 /\ 3 + 1 = 4 /\ 4 + 1 = 5 /\ 5 + 1 = 6 /\ 6 + 1 = 7
        /\ 7 + 1 = 8 /\ 8 + 1 = 9 /\ 9 + 1 = 10
        /\ 1 \in 1..9 /\ 2 \in 1..9 /\ 3 \in 1..9 /\ 4 \in 1..9 /\ 5 \in 1..9 /\ 6 \in 1..9
        /\ 7 \in 1..9 /\ 8 \in 1..9 /\ 9 \in 1..9
    OBVIOUS
  <2> QED
    BY <1>2, <2>1 DEF SamePlaces
<1>5. d = c10
  <2> HIDE DEF buff, next
  <2>1. d = PairWritten(PairWritten(PairWritten(PairWritten(PairWritten(PairWritten(PairWritten(
              PairWritten(PairWritten(c1, buff, 1, copies), buff, 2, copies),
              buff, 3, copies), buff, 4, copies), buff, 5, copies), buff, 6, copies),
              buff, 7, copies), buff, 8, copies), buff, 9, copies)
    BY <1>3, Zenon DEF BurstWritten, buff
  <2>2. /\ PairWritten(c1, buff, 1, copies) = c2 /\ PairWritten(c2, buff, 2, copies) = c3
        /\ PairWritten(c3, buff, 3, copies) = c4 /\ PairWritten(c4, buff, 4, copies) = c5
        /\ PairWritten(c5, buff, 5, copies) = c6 /\ PairWritten(c6, buff, 6, copies) = c7
        /\ PairWritten(c7, buff, 7, copies) = c8 /\ PairWritten(c8, buff, 8, copies) = c9
        /\ PairWritten(c9, buff, 9, copies) = c10
    <3> HIDE DEF c1, c2, c3, c4, c5, c6, c7, c8, c9, c10
    <3> QED
      BY <1>4 DEF c2, c3, c4, c5, c6, c7, c8, c9, c10
  <2> HIDE DEF c1, c2, c3, c4, c5, c6, c7, c8, c9, c10
  <2> QED
    BY <2>1, <2>2
<1>6. BurstState(c0, addrs, bytes, c0, 0)
  BY DEF BurstState, LastFor
<1>7. /\ 0 + 1 = 1 /\ 1 + 1 = 2 /\ 2 + 1 = 3 /\ 3 + 1 = 4 /\ 4 + 1 = 5 /\ 5 + 1 = 6
      /\ 6 + 1 = 7 /\ 7 + 1 = 8 /\ 8 + 1 = 9 /\ 9 + 1 = 10
      /\ 0 \in 0..9 /\ 1 \in 0..9 /\ 2 \in 0..9 /\ 3 \in 0..9 /\ 4 \in 0..9
      /\ 5 \in 0..9 /\ 6 \in 0..9 /\ 7 \in 0..9 /\ 8 \in 0..9 /\ 9 \in 0..9
  OBVIOUS
<1> DEFINE State(c, j) == BurstState(c0, addrs, bytes, c, j)
<1>8. \A c : \A j \in 0..9 : State(c, j) => State(next(c, j + 1), j + 1)
  BY BurstStep
<1>9. /\ \A c : State(c, 0) => State(next(c, 1), 1)
      /\ \A c : State(c, 1) => State(next(c, 2), 2)
      /\ \A c : State(c, 2) => State(next(c, 3), 3)
      /\ \A c : State(c, 3) => State(next(c, 4), 4)
      /\ \A c : State(c, 4) => State(next(c, 5), 5)
      /\ \A c : State(c, 5) => State(next(c, 6), 6)
      /\ \A c : State(c, 6) => State(next(c, 7), 7)
      /\ \A c : State(c, 7) => State(next(c, 8), 8)
      /\ \A c : State(c, 8) => State(next(c, 9), 9)
      /\ \A c : State(c, 9) => State(next(c, 10), 10)
  <2> HIDE DEF State, next
  <2> QED
    BY <1>7, <1>8
<1>10. State(c0, 0)
  BY <1>6
<1>11. State(c10, 10)
  <2> HIDE DEF State, next
  <2> QED
    BY <1>9, <1>10, Zenon
<1> QED
  BY <1>5, <1>11

\* bme280_set_regs: the burst, or a failure and no write.
LEMMA SetRegs ==
    ASSUME NEW s \in Runs, NEW addrs \in Seq(Writable), NEW bytes \in Seq(Byte),
           Len(addrs) = Len(bytes), NEW r, r = bme280_set_regs(s, addrs, bytes)
    PROVE  /\ Follows(s, r)
           /\ \/ /\ r.rslt = OK
                 /\ BurstState(Later(s.chip), addrs, bytes, r.chip, 10)
                 /\ r.chip = BurstWritten(Later(s.chip), addrs[1],
                      interleave_reg_addr(addrs, bytes, IF Len(bytes) > 10 THEN 10 ELSE Len(bytes)),
                      s.copies)
              \/ r.rslt # OK /\ (s.fail # 0 \/ Len(bytes) = 0)
           /\ r.rslt = OK => Len(bytes) # 0
<1> DEFINE len == IF Len(bytes) > 10 THEN 10 ELSE Len(bytes)
           d == BurstWritten(Later(s.chip), addrs[1],
                             interleave_reg_addr(addrs, bytes, len), s.copies)
<1>1. r = IF len = 0 THEN [s EXCEPT !.rslt = E_INVALID_LEN]
          ELSE IF s.n + 1 = s.fail THEN CommFail(s)
          ELSE [s EXCEPT !.n = @ + 1, !.rslt = OK,
                         !.copies = IF Resets(addrs, len) THEN 0 ELSE @, !.chip = d]
  BY DEF bme280_set_regs, Runs
<1>2. len = 0 <=> Len(bytes) = 0
  OBVIOUS
<1>3. CASE Len(bytes) = 0
  <2>1. r = [s EXCEPT !.rslt = E_INVALID_LEN]
    BY <1>1, <1>2, <1>3
  <2>2. E_INVALID_LEN \in Int /\ E_INVALID_LEN # OK
    BY DEF E_INVALID_LEN, OK
  <2>3. r \in Runs /\ r.dev = s.dev /\ r.comp = s.comp /\ r.fail = s.fail /\ r.rslt = E_INVALID_LEN
    BY <2>1, <2>2 DEF Runs
  <2> QED
    BY <1>3, <2>2, <2>3 DEF Follows
<1>4. CASE Len(bytes) # 0 /\ s.n + 1 = s.fail
  <2>1. r = CommFail(s) /\ s.fail # 0
    BY <1>1, <1>2, <1>4 DEF Runs
  <2> QED
    BY <2>1, CommFailRun DEF OK, E_COMM_FAIL
<1>5. CASE Len(bytes) # 0 /\ s.n + 1 # s.fail
  <2> DEFINE n == s.n + 1
             copies == IF Resets(addrs, len) THEN 0 ELSE s.copies
  <2>1. r = [s EXCEPT !.n = n, !.rslt = OK, !.copies = copies, !.chip = d]
    <3> HIDE DEF d, len
    <3> QED
      BY <1>1, <1>2, <1>5, Zenon
  <2>2. n \in Nat /\ s.copies \in Nat /\ copies \in Nat /\ s.chip \in Chip /\ OK \in Int
        /\ Len(bytes) > 0
    BY <1>5 DEF Runs, OK
  <2>3. BurstState(Later(s.chip), addrs, bytes, d, 10)
    <3>1. Later(s.chip) \in Chip
      BY <2>2, LaterChip
    <3> QED
      BY <2>2, <3>1, BurstChip
  <2> HIDE DEF n, d, copies
  <2>4. d \in Chip
    BY <2>3 DEF BurstState
  <2>5. /\ r \in Runs /\ r.dev = s.dev /\ r.comp = s.comp /\ r.fail = s.fail
        /\ r.chip = d /\ r.rslt = OK
    BY <2>1, <2>2, <2>4 DEF Runs
  <2> QED
    BY <1>5, <2>3, <2>5 DEF Follows, d
<1> QED
  BY <1>3, <1>4, <1>5

-----------------------------------------------------------------------------
(* Every call. *)

\* The calibration data a driver holds are those of the chip.
Exact(d) ==
    /\ d.temp_press # <<>> => d.temp_press = ChipTempPress
    /\ d.humidity # <<>> => d.humidity = ChipHumidity

\* The settings of the user, kept in the driver before anything else is done.
Given(s, settings) == [s EXCEPT !.dev.settings = settings]

\* Which function a call runs.
LEMMA RunCases ==
    ASSUME NEW call, NEW s
    PROVE  /\ call.op = "init" => Run(call, s) = bme280_init(s)
           /\ call.op = "soft_reset" => Run(call, s) = bme280_soft_reset(s)
           /\ call.op = "set_sensor_settings" =>
                Run(call, s) = bme280_set_sensor_settings(Given(s, call.settings),
                                                          call.desired, call.settings)
           /\ call.op = "get_sensor_settings" => Run(call, s) = bme280_get_sensor_settings(s)
           /\ call.op = "set_sensor_mode" =>
                Run(call, s) = bme280_set_sensor_mode(s, call.sensor_mode)
           /\ call.op = "get_sensor_data" =>
                Run(call, s) = bme280_get_sensor_data(s, call.sensor_comp)
           /\ call.op = "set_regs" =>
                Run(call, s) = bme280_set_regs(s, call.burst.addrs, call.burst.bytes)
BY Zenon DEF Run, Given

\* What a call gives its function.
LEMMA CallCases ==
    ASSUME NEW call \in Calls
    PROVE  \/ call.op \in {"init", "soft_reset", "get_sensor_settings"}
           \/ /\ call.op = "set_sensor_settings"
              /\ call.desired \in SUBSET Fields /\ call.settings \in Settings
           \/ call.op = "set_sensor_mode" /\ call.sensor_mode \in SUBSET {0, 1}
           \/ /\ call.op = "get_sensor_data"
              /\ call.sensor_comp \in SUBSET {"press", "temp", "hum"}
           \/ /\ call.op = "set_regs"
              /\ call.burst.addrs \in Seq(Writable) /\ call.burst.bytes \in Seq(Byte)
              /\ Len(call.burst.addrs) = Len(call.burst.bytes)
<1>1. Samples \subseteq Settings /\ Desired \subseteq SUBSET Fields
  BY SettingsAssumption
<1>2. \A burst \in Bursts :
        /\ burst.addrs \in Seq(Writable) /\ burst.bytes \in Seq(Byte)
        /\ Len(burst.addrs) = Len(burst.bytes)
  BY BurstsAssumption DEF Writable
<1> QED
  BY <1>1, <1>2 DEF Calls

\* The settings given are a state of a run.
LEMMA GivenRun ==
    ASSUME NEW s \in Runs, NEW settings \in Settings, NEW g, g = Given(s, settings)
    PROVE  /\ g \in Runs /\ g.chip = s.chip /\ g.comp = s.comp /\ g.fail = s.fail
           /\ g.copies = s.copies /\ g.rslt = s.rslt
           /\ g.dev = [s.dev EXCEPT !.settings = settings]
           /\ Exact(s.dev) => Exact(g.dev)
<1> DEFINE d == [s.dev EXCEPT !.settings = settings]
<1>1. g = [s EXCEPT !.dev = d]
  BY Zenon DEF Given
<1>2. s.dev \in Dev
  BY DEF Runs
<1>3. d \in Dev /\ d.temp_press = s.dev.temp_press /\ d.humidity = s.dev.humidity
  BY <1>2 DEF Dev
<1> HIDE DEF d
<1>4. /\ g \in Runs /\ g.chip = s.chip /\ g.comp = s.comp /\ g.fail = s.fail
      /\ g.copies = s.copies /\ g.rslt = s.rslt /\ g.dev = d
  BY <1>1, <1>3 DEF Runs
<1>5. Exact(s.dev) => Exact(d)
  BY <1>3 DEF Exact
<1> QED
  BY <1>4, <1>5 DEF d

\* Types, and the calibration data.
LEMMA RunTyped ==
    ASSUME NEW call \in Calls, NEW s \in Runs, s.rslt = OK, s.comp = NoData,
           NEW r, r = Run(call, s)
    PROVE  r \in Runs /\ r.fail = s.fail /\ (Exact(s.dev) => Exact(r.dev))
<1>0. s.dev \in Dev
  BY DEF Runs
<1>1. CASE call.op = "init"
  <2>1. /\ r \in Runs /\ r.fail = s.fail
        /\ r.dev \in {s.dev, Identified(s.dev), WithTempPress(Identified(s.dev)),
                      WithHumidity(WithTempPress(Identified(s.dev)))}
    BY <1>1, RunCases, InitRun
  <2>2. \A d \in Dev : /\ Identified(d) \in Dev /\ WithTempPress(d) \in Dev
                       /\ WithHumidity(d) \in Dev
    <3>1. CHIP_ID \in Byte
      BY DEF CHIP_ID, Byte, Bits
    <3> QED
      BY <3>1, CalibTypes DEF Identified, WithTempPress, WithHumidity, Dev
  <2>3. \A d \in Dev : Exact(d) => /\ Exact(Identified(d)) /\ Exact(WithTempPress(d))
                                   /\ Exact(WithHumidity(d))
    BY DEF Exact, Identified, WithTempPress, WithHumidity, Dev
  <2> QED
    BY <1>0, <2>1, <2>2, <2>3
<1>2. CASE call.op = "soft_reset"
  <2>1. Follows(s, r)
    BY <1>2, RunCases, SoftReset
  <2> QED
    BY <2>1 DEF Follows
<1>3. CASE call.op = "get_sensor_settings"
  <2>1. /\ r \in Runs /\ r.fail = s.fail
        /\ r.dev \in {s.dev, WithSettings(s.dev, SettingsOf(s.chip))}
    BY <1>3, RunCases, GetSettings
  <2>2. \A p : Exact(s.dev) => Exact(WithSettings(s.dev, p))
    BY <1>0 DEF Exact, Dev, WithSettings
  <2> QED
    BY <2>1, <2>2
<1>4. CASE call.op = "set_sensor_settings"
  <2> DEFINE g == Given(s, call.settings)
  <2>1. call.desired \in SUBSET Fields /\ call.settings \in Settings
    BY <1>4, CallCases
  <2>2. g \in Runs /\ g.fail = s.fail /\ g.rslt = OK /\ (Exact(s.dev) => Exact(g.dev))
    BY <2>1, GivenRun
  <2>3. Follows(g, r)
    BY <1>4, <2>1, <2>2, RunCases, SetSettings
  <2> QED
    BY <2>2, <2>3 DEF Follows
<1>5. CASE call.op = "set_sensor_mode"
  <2>1. call.sensor_mode \in SUBSET {0, 1}
    BY <1>5, CallCases
  <2>2. Follows(s, r)
    BY <1>5, <2>1, RunCases, SetMode
  <2> QED
    BY <2>2 DEF Follows
<1>6. CASE call.op = "get_sensor_data"
  <2>1. call.sensor_comp \in SUBSET {"press", "temp", "hum"}
    BY <1>6, CallCases
  <2>2. /\ r \in Runs /\ r.fail = s.fail
        /\ r.dev = WithFine(s.dev, DataOf(s.chip), call.sensor_comp) \/ r.dev = s.dev
    BY <1>6, <2>1, RunCases, GetData
  <2>3. \A u, comp : Exact(s.dev) => Exact(WithFine(s.dev, u, comp))
    BY <1>0 DEF Exact, Dev, WithFine
  <2> QED
    BY <2>2, <2>3
<1>7. CASE call.op = "set_regs"
  <2>1. /\ call.burst.addrs \in Seq(Writable) /\ call.burst.bytes \in Seq(Byte)
        /\ Len(call.burst.addrs) = Len(call.burst.bytes)
    BY <1>7, CallCases
  <2>2. Follows(s, r)
    BY <1>7, <2>1, RunCases, SetRegs
  <2> QED
    BY <2>2 DEF Follows
<1> QED
  BY <1>1, <1>2, <1>3, <1>4, <1>5, <1>6, <1>7, CallCases

\* Of two runs of a call from the same state, one without a fault: when the other
\* succeeds so does it, and they leave the same but for the humidity setting.
LEMMA SameOutcome ==
    ASSUME NEW call \in Calls, NEW s \in Runs, NEW t \in Runs,
           s.rslt = OK, s.comp = NoData, t.rslt = OK, t.comp = NoData,
           t.chip = s.chip, t.dev = s.dev, t.copies = s.copies, t.fail = 0,
           NEW r, r = Run(call, s), r.rslt = OK,
           NEW w, w = Run(call, t)
    PROVE  /\ w.rslt = OK
           /\ Meas(w.chip) = Meas(r.chip) /\ Config(w.chip) = Config(r.chip)
           /\ w.dev = r.dev /\ w.comp = r.comp
<1>1. CASE call.op = "init"
  <2>1. r = bme280_init(s) /\ w = bme280_init(t)
    BY <1>1, RunCases
  <2>2. /\ r.comp = s.comp /\ s.copies < 6 /\ s.chip.id = CHIP_ID
        /\ r.dev = WithHumidity(WithTempPress(Identified(s.dev)))
        /\ Meas(r.chip) = {} /\ Config(r.chip) = {}
    BY <2>1, InitRun
  <2>3. w.rslt = OK
    BY <2>1, <2>2, InitRun
  <2>4. /\ w.comp = t.comp
        /\ w.dev = WithHumidity(WithTempPress(Identified(t.dev)))
        /\ Meas(w.chip) = {} /\ Config(w.chip) = {}
    BY <2>1, <2>3, InitRun
  <2> QED
    BY <2>2, <2>3, <2>4
<1>2. CASE call.op = "soft_reset"
  <2>1. r = bme280_soft_reset(s) /\ w = bme280_soft_reset(t)
    BY <1>2, RunCases
  <2>2. Follows(s, r) /\ s.copies < 6 /\ Meas(r.chip) = {} /\ Config(r.chip) = {}
    BY <2>1, SoftReset
  <2>3. Follows(t, w) /\ w.rslt = OK /\ Meas(w.chip) = {} /\ Config(w.chip) = {}
    BY <2>1, <2>2, SoftReset
  <2> QED
    BY <2>2, <2>3 DEF Follows
<1>3. CASE call.op = "get_sensor_settings"
  <2>1. r = bme280_get_sensor_settings(s) /\ w = bme280_get_sensor_settings(t)
    BY <1>3, RunCases
  <2>2. /\ r.comp = s.comp /\ SameControl(s.chip, r.chip)
        /\ r.dev = WithSettings(s.dev, SettingsOf(s.chip))
    BY <2>1, GetSettings DEF OK, E_COMM_FAIL
  <2>3. /\ w.rslt = OK /\ w.comp = t.comp /\ SameControl(t.chip, w.chip)
        /\ w.dev = WithSettings(t.dev, SettingsOf(t.chip))
    BY <2>1, GetSettings DEF OK, E_COMM_FAIL
  <2> QED
    BY <2>2, <2>3 DEF SameControl
<1>4. CASE call.op = "set_sensor_settings"
  <2> DEFINE desired == call.desired
             settings == call.settings
             g == Given(s, settings)
             h == Given(t, settings)
  <2>1. desired \in SUBSET Fields /\ settings \in Settings
    BY <1>4, CallCases
  <2>2. /\ r = bme280_set_sensor_settings(g, desired, settings)
        /\ w = bme280_set_sensor_settings(h, desired, settings)
    BY <1>4, RunCases
  <2>3. /\ g \in Runs /\ g.rslt = OK /\ g.chip = s.chip /\ g.comp = s.comp
        /\ g.copies = s.copies /\ g.dev = [s.dev EXCEPT !.settings = settings]
    BY <2>1, GivenRun
  <2>4. /\ h \in Runs /\ h.rslt = OK /\ h.chip = t.chip /\ h.comp = t.comp /\ h.fail = 0
        /\ h.copies = t.copies /\ h.dev = [t.dev EXCEPT !.settings = settings]
    BY <2>1, GivenRun
  <2> HIDE DEF g, h, desired, settings
  <2>5. /\ Follows(g, r) /\ CanSleep(g.chip, g.copies)
        /\ SettingsDone(g.chip, desired, settings, r.chip)
    BY <2>1, <2>2, <2>3, SetSettings
  <2>6. CanSleep(h.chip, h.copies)
    BY <2>3, <2>4, <2>5
  <2>7. w.rslt = OK
    BY <2>1, <2>2, <2>4, <2>6, SetSettings
  <2>8. Follows(h, w) /\ SettingsDone(h.chip, desired, settings, w.chip)
    BY <2>1, <2>2, <2>4, <2>7, SetSettings
  <2> QED
    BY <2>3, <2>4, <2>5, <2>7, <2>8 DEF Follows, SettingsDone
<1>5. CASE call.op = "set_sensor_mode"
  <2>1. call.sensor_mode \in SUBSET {0, 1}
    BY <1>5, CallCases
  <2>2. /\ r = bme280_set_sensor_mode(s, call.sensor_mode)
        /\ w = bme280_set_sensor_mode(t, call.sensor_mode)
    BY <1>5, RunCases
  <2>3. /\ Follows(s, r) /\ CanSleep(s.chip, s.copies)
        /\ ModeDone(s.chip, call.sensor_mode, r.chip)
    BY <2>1, <2>2, SetMode
  <2>4. CanSleep(t.chip, t.copies)
    BY <2>3
  <2>5. w.rslt = OK
    BY <2>1, <2>2, <2>4, SetMode
  <2>6. Follows(t, w) /\ ModeDone(t.chip, call.sensor_mode, w.chip)
    BY <2>1, <2>2, <2>5, SetMode
  <2> QED
    BY <2>3, <2>5, <2>6 DEF Follows, ModeDone
<1>6. CASE call.op = "get_sensor_data"
  <2>1. call.sensor_comp \in SUBSET {"press", "temp", "hum"}
    BY <1>6, CallCases
  <2>2. /\ r = bme280_get_sensor_data(s, call.sensor_comp)
        /\ w = bme280_get_sensor_data(t, call.sensor_comp)
    BY <1>6, RunCases
  <2>3. /\ SameControl(s.chip, r.chip)
        /\ r.comp = Compensated(DataOf(s.chip), call.sensor_comp)
        /\ r.dev = WithFine(s.dev, DataOf(s.chip), call.sensor_comp)
    BY <2>1, <2>2, GetData DEF OK, E_COMM_FAIL
  <2>4. /\ w.rslt = OK /\ SameControl(t.chip, w.chip)
        /\ w.comp = Compensated(DataOf(t.chip), call.sensor_comp)
        /\ w.dev = WithFine(t.dev, DataOf(t.chip), call.sensor_comp)
    BY <2>1, <2>2, GetData DEF OK, E_COMM_FAIL
  <2> QED
    BY <2>3, <2>4 DEF SameControl
<1>7. CASE call.op = "set_regs"
  <2> DEFINE addrs == call.burst.addrs
             bytes == call.burst.bytes
             len == IF Len(bytes) > 10 THEN 10 ELSE Len(bytes)
  <2>1. addrs \in Seq(Writable) /\ bytes \in Seq(Byte) /\ Len(addrs) = Len(bytes)
    BY <1>7, CallCases
  <2>2. r = bme280_set_regs(s, addrs, bytes) /\ w = bme280_set_regs(t, addrs, bytes)
    BY <1>7, RunCases
  <2> HIDE DEF addrs, bytes
  <2>3. /\ Follows(s, r) /\ Len(bytes) # 0
        /\ r.chip = BurstWritten(Later(s.chip), addrs[1],
                                 interleave_reg_addr(addrs, bytes, len), s.copies)
    BY <2>1, <2>2, SetRegs
  <2>4. /\ Follows(t, w) /\ w.rslt = OK
        /\ w.chip = BurstWritten(Later(t.chip), addrs[1],
                                 interleave_reg_addr(addrs, bytes, len), t.copies)
    BY <2>1, <2>2, <2>3, SetRegs
  <2> QED
    BY <2>3, <2>4 DEF Follows
<1> QED
  BY <1>1, <1>2, <1>3, <1>4, <1>5, <1>6, <1>7, CallCases

-----------------------------------------------------------------------------
(* The invariants. *)

\* A call starts in a state of a run.
LEMMA StartRun ==
    ASSUME TypeOK, NEW fail \in Nat, NEW copies \in Nat, NEW s, s = Start(fail, copies)
    PROVE  /\ s \in Runs /\ s.rslt = OK /\ s.comp = NoData
           /\ s.chip = chip /\ s.dev = dev /\ s.fail = fail /\ s.copies = copies
<1>1. NoData \in Comp /\ OK \in Int /\ chip \in Chip /\ dev \in Dev /\ <<>> \in Seq(Byte)
  <2>1. <<>> \in Seq(SUBSET Bits(32)) /\ <<>> \in Seq(Byte)
    OBVIOUS
  <2> QED
    BY <2>1 DEF NoData, Comp, OK, TypeOK
<1> QED
  BY <1>1, 0 \in Nat DEF Start, Runs

\* One step of the driver: the run of a call, with the fault it met.
Did(call, fail, copies, r) ==
    /\ r = Run(call, Start(fail, copies))
    /\ chip' = r.chip /\ dev' = r.dev
    /\ last' = [call |-> call, fail |-> fail, copies |-> copies, rslt |-> r.rslt, comp |-> r.comp]

\* A call is such a run, whatever transfer fails.
LEMMA CallStep ==
    ASSUME TypeOK, NEW call \in Calls, NEW copies \in Copies, Call(call, copies)
    PROVE  \E fail \in Nat : \E r \in Runs : Did(call, fail, copies, r)
<1>1. copies \in Nat /\ 0 \in Nat
  BY BoundsAssumption
<1> DEFINE whole == Run(call, Start(0, copies))
<1>2. whole \in Runs
  BY <1>1, StartRun, RunTyped
<1>3. PICK fail \in 0..whole.n :
        \E s \in {IF fail = 0 THEN whole ELSE Run(call, Start(fail, copies))} :
            /\ chip' = s.chip /\ dev' = s.dev
            /\ last' = [call |-> call, fail |-> fail, copies |-> copies,
                        rslt |-> s.rslt, comp |-> s.comp]
  BY Zenon DEF Call
<1>4. fail \in Nat
  BY <1>2, <1>3 DEF Runs
<1> DEFINE r == Run(call, Start(fail, copies))
<1>5. r = IF fail = 0 THEN whole ELSE Run(call, Start(fail, copies))
  OBVIOUS
<1>6. r \in Runs
  BY <1>1, <1>4, StartRun, RunTyped
<1> HIDE DEF whole, r
<1>7. /\ chip' = r.chip /\ dev' = r.dev
      /\ last' = [call |-> call, fail |-> fail, copies |-> copies,
                  rslt |-> r.rslt, comp |-> r.comp]
  BY <1>3, <1>5
<1> QED
  BY <1>4, <1>6, <1>7 DEF Did, r

\* A conversion leaves a chip.
LEMMA ConversionChip ==
    ASSUME TypeOK, NEW reading \in Readings, Conversion(reading)
    PROVE  chip' \in Chip
<1> DEFINE Registers == {f \in [242..254 -> Byte] : f[242] \subseteq Bits(3)}
           f == [a \in 242..254 |->
                   IF a >= DATA_ADDR THEN reading[a - DATA_ADDR + 1]
                   ELSE IF a = CTRL_MEAS_ADDR /\ Mode(chip) # {0, 1}
                   THEN chip.regs[a] \ SENSOR_MODE.msk ELSE chip.regs[a]]
<1>1. chip \in [regs : Registers, hum : SUBSET Bits(3), id : Byte, copying : Nat]
  BY DEF TypeOK, Chip, CTRL_HUM_ADDR, DATA_ADDR
<1>2. chip.regs \in [242..254 -> Byte] /\ chip.regs[242] \subseteq Bits(3)
      /\ reading \in [1..8 -> Byte]
  BY <1>1, ReadingsAssumption
<1>3. chip' = [chip EXCEPT !.regs = f]
  BY <1>2 DEF Conversion
<1>4. f \in Registers
  <2>1. \A a \in 242..254 : f[a] \in Byte
    <3> SUFFICES ASSUME NEW a \in 242..254 PROVE f[a] \in Byte
      OBVIOUS
    <3>1. CASE a >= DATA_ADDR
      <4>1. a - DATA_ADDR + 1 \in 1..8
        BY <3>1 DEF DATA_ADDR
      <4> QED
        BY <1>2, <3>1, <4>1
    <3>2. CASE ~(a >= DATA_ADDR)
      <4>1. chip.regs[a] \in Byte
        BY <1>2
      <4>2. \A b \in Byte : \A m : b \ m \in Byte
        BY DEF Byte
      <4> QED
        BY <3>2, <4>1, <4>2
    <3> QED
      BY <3>1, <3>2
  <2>2. f[242] = chip.regs[242]
    BY DEF DATA_ADDR, CTRL_MEAS_ADDR
  <2>3. f \in [242..254 -> Byte]
    BY <2>1
  <2> HIDE DEF f
  <2> QED
    BY <1>2, <2>2, <2>3
<1> HIDE DEF f, Registers
<1>5. chip' \in [regs : Registers, hum : SUBSET Bits(3), id : Byte, copying : Nat]
  BY <1>1, <1>3, <1>4
<1> QED
  BY <1>5 DEF Registers, Chip, CTRL_HUM_ADDR, DATA_ADDR

\* The state after power on satisfies the invariant.
LEMMA InitInvariant == Init => TypeOK /\ CalibExact
<1> SUFFICES ASSUME Init PROVE TypeOK /\ CalibExact
  OBVIOUS
<1>1. chip \in Chip
  BY PoweredOnChip, IdsAssumption DEF Init
<1>2. dev \in Dev
  <2>1. {} \in Byte /\ {} \in SUBSET Bits(32)
    BY DEF Byte
  <2>2. Zeroed \in Settings
    BY <2>1 DEF Zeroed, Settings, Fields
  <2> QED
    BY <2>1, <2>2 DEF Init, Dev
<1>3. NoData \in Comp
  <2>1. <<>> \in Seq(SUBSET Bits(32))
    OBVIOUS
  <2> QED
    BY <2>1 DEF NoData, Comp
<1>4. /\ last.call \in Calls \cup {[op |-> "none"]} /\ last.copies \in Copies \cup {0}
      /\ last.fail \in Nat /\ last.rslt \in Int /\ last.comp \in Comp
  BY <1>3 DEF Init, OK
<1>5. calls \in 0..MaxCalls
  BY BoundsAssumption DEF Init
<1>6. CalibExact
  BY DEF Init, CalibExact
<1> QED
  BY <1>1, <1>2, <1>4, <1>5, <1>6 DEF TypeOK

\* Every call and every conversion keeps it.
LEMMA NextInvariant == TypeOK /\ CalibExact /\ [Next]_vars => (TypeOK /\ CalibExact)'
<1> SUFFICES ASSUME TypeOK, CalibExact, [Next]_vars PROVE (TypeOK /\ CalibExact)'
  OBVIOUS
<1>1. Exact(dev)
  BY DEF CalibExact, Exact
<1>2. ASSUME NEW call \in Calls, NEW copies \in Copies, Call(call, copies)
      PROVE  (TypeOK /\ CalibExact)'
  <2>1. PICK fail \in Nat : \E r \in Runs : Did(call, fail, copies, r)
    BY <1>2, CallStep
  <2>2. PICK r \in Runs : Did(call, fail, copies, r)
    BY <2>1
  <2>3. copies \in Nat
    BY BoundsAssumption
  <2>4. Exact(r.dev)
    BY <1>1, <2>2, <2>3, StartRun, RunTyped DEF Did
  <2>5. /\ chip' = r.chip /\ dev' = r.dev
        /\ last' = [call |-> call, fail |-> fail, copies |-> copies,
                    rslt |-> r.rslt, comp |-> r.comp]
    BY <2>2 DEF Did
  <2>6. chip' \in Chip /\ dev' \in Dev /\ r.rslt \in Int /\ r.comp \in Comp
    BY <2>5 DEF Runs
  <2>7. /\ last'.call \in Calls \cup {[op |-> "none"]} /\ last'.copies \in Copies \cup {0}
        /\ last'.fail \in Nat /\ last'.rslt \in Int /\ last'.comp \in Comp
    BY <2>5, <2>6
  <2>8. calls' \in 0..MaxCalls
    BY <1>2, BoundsAssumption DEF Call, TypeOK
  <2>9. CalibExact'
    BY <2>4, <2>5 DEF CalibExact, Exact
  <2>10. TypeOK'
    BY <2>6, <2>7, <2>8 DEF TypeOK
  <2> QED
    BY <2>9, <2>10
<1>3. ASSUME NEW reading \in Readings, Conversion(reading)
      PROVE  (TypeOK /\ CalibExact)'
  <2>1. chip' \in Chip
    BY <1>3, ConversionChip
  <2>2. dev' = dev /\ last' = last /\ calls' = calls
    BY <1>3 DEF Conversion
  <2> QED
    BY <2>1, <2>2 DEF TypeOK, CalibExact
<1>4. CASE UNCHANGED vars
  BY <1>4 DEF vars, TypeOK, CalibExact
<1> QED
  BY <1>2, <1>3, <1>4 DEF Next

\* The inductive invariant: whatever calls are made in whatever order, and
\* whichever transfer of each fails, the state has its types and the
\* calibration data the driver holds are the chip's, number by number.
THEOREM Registers == Spec => [](TypeOK /\ CalibExact)
BY InitInvariant, NextInvariant, PTL DEF Spec

-----------------------------------------------------------------------------
(* The delay of a measurement. *)

\* samples and part of Longest.
SamplesOf(n) == IF n = 0 THEN 0 ELSE IF n >= 5 THEN 16 ELSE 2^(n - 1)
PartOf(n, offset) == IF n = 0 THEN 0 ELSE 2300 * SamplesOf(n) + offset

\* The number of samples the driver takes is never below that of the data sheet.
LEMMA EnoughSamples ==
    ASSUME NEW osr \in Byte
    PROVE  /\ act_osr(osr) \in 0..16
           /\ \A offset \in Nat : /\ PartOf(Val(osr) % 8, offset) \in Nat
                                  /\ PartOf(Val(osr) % 8, offset) <= 2300 * act_osr(osr) + offset
<1> DEFINE v == Val(osr)
<1>1. v \in 0..255
  BY ByteValue DEF Byte
<1>2. act_osr(osr) = IF v <= 5 THEN <<0, 1, 2, 4, 8, 16>>[v + 1] ELSE 16
  BY DEF act_osr
<1> HIDE DEF v
<1>3. 2^(1 - 1) = 1 /\ 2^(2 - 1) = 2 /\ 2^(3 - 1) = 4 /\ 2^(4 - 1) = 8
  OBVIOUS
<1>4. /\ SamplesOf(0) = 0 /\ SamplesOf(1) = 1 /\ SamplesOf(2) = 2 /\ SamplesOf(3) = 4
      /\ SamplesOf(4) = 8 /\ SamplesOf(5) = 16 /\ SamplesOf(6) = 16 /\ SamplesOf(7) = 16
  BY <1>3 DEF SamplesOf
<1>5. SamplesOf(v % 8) \in Nat /\ SamplesOf(v % 8) <= act_osr(osr) /\ act_osr(osr) \in 0..16
  <2>1. CASE v \in 0..5
    <3>1. v = 0 \/ v = 1 \/ v = 2 \/ v = 3 \/ v = 4 \/ v = 5
      BY <2>1
    <3>2. v % 8 = v
      BY <2>1
    <3> QED
      BY <1>2, <1>4, <3>1, <3>2
  <2>2. CASE ~(v \in 0..5)
    <3>1. v % 8 \in 0..7 /\ ~(v <= 5)
      BY <1>1, <2>2
    <3>2. act_osr(osr) = 16
      BY <1>2, <3>1
    <3> DEFINE n == v % 8
    <3>3. n = 0 \/ n = 1 \/ n = 2 \/ n = 3 \/ n = 4 \/ n = 5 \/ n = 6 \/ n = 7
      BY <3>1
    <3> HIDE DEF n
    <3>4. SamplesOf(n) \in 0..16
      BY <1>4, <3>3
    <3> QED
      BY <3>2, <3>4 DEF n
  <2> QED
    BY <2>1, <2>2
<1> DEFINE x == SamplesOf(v % 8)
           y == act_osr(osr)
<1>6. \A offset \in Nat : PartOf(v % 8, offset) = IF v % 8 = 0 THEN 0 ELSE 2300 * x + offset
  BY DEF PartOf
<1>7. x \in Nat /\ x <= y /\ y \in 0..16
  BY <1>5
<1> HIDE DEF x, y
<1>8. \A offset \in Nat : /\ PartOf(v % 8, offset) \in Nat
                          /\ PartOf(v % 8, offset) <= 2300 * y + offset
  BY <1>6, <1>7
<1> QED
  BY <1>7, <1>8 DEF v, y

\* Longest, with the products of powers of two by name.
LEMMA LongestParts ==
    ASSUME NEW numbers
    PROVE  Longest(numbers) = 1250 + PartOf(numbers.osr_t, 0) + PartOf(numbers.osr_p, 575)
                              + PartOf(numbers.osr_h, 575)
BY Zenon DEF Longest, PartOf, SamplesOf

\* bme280_cal_meas_delay, a millisecond added, covers the longest measurement
\* of the data sheet, for every byte in every field.
LEMMA DelayLongEnough ==
    ASSUME NEW settings \in Settings
    PROVE  1000 * bme280_cal_meas_delay(settings) + 1000 > Longest(Numbers(settings))
<1> DEFINE t == act_osr(settings.osr_t)
           p == act_osr(settings.osr_p)
           h == act_osr(settings.osr_h)
           tt == PartOf(Val(settings.osr_t) % 8, 0)
           pp == PartOf(Val(settings.osr_p) % 8, 575)
           hh == PartOf(Val(settings.osr_h) % 8, 575)
<1>1. settings.osr_t \in Byte /\ settings.osr_p \in Byte /\ settings.osr_h \in Byte
  BY DEF Settings
<1>2. /\ t \in 0..16 /\ p \in 0..16 /\ h \in 0..16
      /\ tt \in Nat /\ pp \in Nat /\ hh \in Nat
      /\ tt <= 2300 * t + 0 /\ pp <= 2300 * p + 575 /\ hh <= 2300 * h + 575
  BY <1>1, EnoughSamples, 0 \in Nat, 575 \in Nat
<1>3. bme280_cal_meas_delay(settings)
        = (1250 + 2300 * t + (2300 * p + 575) + (2300 * h + 575)) \div 1000
  BY DEF bme280_cal_meas_delay
<1>4. Longest(Numbers(settings)) = 1250 + tt + pp + hh
  <2>1. /\ Numbers(settings).osr_t = Val(settings.osr_t) % 8
        /\ Numbers(settings).osr_p = Val(settings.osr_p) % 8
        /\ Numbers(settings).osr_h = Val(settings.osr_h) % 8
    BY DEF Numbers, Fields
  <2> DEFINE a == PartOf(Numbers(settings).osr_t, 0)
             b == PartOf(Numbers(settings).osr_p, 575)
             c == PartOf(Numbers(settings).osr_h, 575)
             longest == Longest(Numbers(settings))
  <2>2. a = tt /\ b = pp /\ c = hh
    BY <2>1, Zenon
  <2>3. longest = 1250 + a + b + c
    BY LongestParts
  <2> HIDE DEF tt, pp, hh, a, b, c, longest
  <2>5. longest = 1250 + tt + pp + hh
    BY <2>2, <2>3
  <2> QED
    BY <2>5 DEF longest
<1> HIDE DEF t, p, h, tt, pp, hh
<1> DEFINE x == 1250 + 2300 * t + (2300 * p + 575) + (2300 * h + 575)
<1>5. x \in Nat /\ 1250 + tt + pp + hh <= x
  BY <1>2
<1> HIDE DEF x
<1>6. 1000 * (x \div 1000) + 1000 > x
  BY <1>5
<1>7. 1000 * bme280_cal_meas_delay(settings) + 1000 > x
  BY <1>3, <1>6 DEF x
<1>8. bme280_cal_meas_delay(settings) \in Int
  BY <1>3, <1>5 DEF x
<1> DEFINE l == 1250 + tt + pp + hh
<1>9. l \in Nat /\ l <= x
  BY <1>2, <1>5
<1> HIDE DEF l
<1>10. 1000 * bme280_cal_meas_delay(settings) + 1000 > l
  BY <1>5, <1>7, <1>8, <1>9
<1> QED
  BY <1>4, <1>10 DEF l

\* The calibration data in struct bme280_dev are those in the chip's memory,
\* signs and split registers included.
THEOREM RegistersCalibExact == Spec => []CalibExact
BY Registers, PTL

\* bme280_cal_meas_delay is at most a millisecond short of the longest
\* measurement of the settings the driver holds: it cuts the microseconds to
\* whole milliseconds.
THEOREM RegistersDelayWithinOne == Spec => []DelayWithinOne
<1>1. TypeOK => DelayWithinOne
  BY DelayLongEnough DEF TypeOK, Dev, DelayWithinOne
<1> QED
  BY <1>1, Registers, PTL

-----------------------------------------------------------------------------
(* What a call that returns has done. *)

\* The step in which a call returned is a run of it.
LEMMA ReturnedRun ==
    ASSUME TypeOK, [Next]_vars, calls' # calls
    PROVE  \E call \in Calls : \E copies \in Nat : \E fail \in Nat : \E r \in Runs :
                Did(call, fail, copies, r)
<1>1. CASE \E call \in Calls, copies \in Copies : Call(call, copies)
  BY <1>1, CallStep, BoundsAssumption
<1>2. ASSUME NEW reading \in Readings, Conversion(reading) PROVE FALSE
  BY <1>2 DEF Conversion
<1> QED
  BY <1>1, <1>2 DEF Next, vars

\* The same call without the fault leaves the same.
LEMMA HumidityLost ==
    ASSUME TypeOK, [Next]_vars, last'.rslt = OK, calls' # calls
    PROVE  \E s \in {Run(last'.call, Start(0, last'.copies))} :
                /\ \A a \in {CTRL_MEAS_ADDR, CONFIG_ADDR} : chip'.regs[a] = s.chip.regs[a]
                /\ dev' = s.dev /\ last'.comp = s.comp
<1>1. PICK call \in Calls : \E copies \in Nat : \E fail \in Nat : \E r \in Runs :
            Did(call, fail, copies, r)
  BY ReturnedRun
<1>2. PICK copies \in Nat : \E fail \in Nat : \E r \in Runs : Did(call, fail, copies, r)
  BY <1>1
<1>3. PICK fail \in Nat : \E r \in Runs : Did(call, fail, copies, r)
  BY <1>2
<1>4. PICK r \in Runs : Did(call, fail, copies, r)
  BY <1>3
<1> DEFINE s == Start(fail, copies)
           t == Start(0, copies)
           w == Run(call, t)
<1>5. /\ s \in Runs /\ s.rslt = OK /\ s.comp = NoData /\ s.chip = chip /\ s.dev = dev
      /\ s.copies = copies
  BY StartRun
<1>6. /\ t \in Runs /\ t.rslt = OK /\ t.comp = NoData /\ t.chip = chip /\ t.dev = dev
      /\ t.copies = copies /\ t.fail = 0
  BY 0 \in Nat, StartRun
<1>7. /\ r = Run(call, s) /\ chip' = r.chip /\ dev' = r.dev /\ last'.call = call
      /\ last'.copies = copies /\ last'.comp = r.comp /\ r.rslt = OK
  BY <1>4 DEF Did
<1> HIDE DEF s, t
<1>8. /\ Meas(w.chip) = Meas(r.chip) /\ Config(w.chip) = Config(r.chip)
      /\ w.dev = r.dev /\ w.comp = r.comp
  BY <1>5, <1>6, <1>7, SameOutcome
<1>9. w = Run(last'.call, Start(0, last'.copies))
  BY <1>7 DEF t
<1> HIDE DEF w
<1> QED
  BY <1>7, <1>8, <1>9 DEF Meas, Config

\* A call that met a fault of the bus and yet returned BME280_OK has done what
\* it does without the fault, but for the humidity setting, whose error
\* set_osr_settings overwrites.
THEOREM RegistersOnlyHumidityLost == Spec => OnlyHumidityLost
<1>1. TypeOK /\ [Next]_vars =>
        [last'.fail # 0 /\ last'.rslt = OK /\ calls' # calls =>
            \E s \in {Run(last'.call, Start(0, last'.copies))} :
                /\ \A a \in {CTRL_MEAS_ADDR, CONFIG_ADDR} : chip'.regs[a] = s.chip.regs[a]
                /\ dev' = s.dev /\ last'.comp = s.comp]_vars
  BY HumidityLost
<1> QED
  BY <1>1, Registers, PTL DEF Spec, OnlyHumidityLost

\* A call that succeeded, as the run it was.
LEMMA RunReturned ==
    ASSUME TypeOK, [Next]_vars, calls' # calls, last'.rslt = OK
    PROVE  \E fail \in Nat : \E copies \in Nat : \E s \in Runs : \E r \in Runs :
                /\ s.rslt = OK /\ s.comp = NoData /\ s.chip = chip /\ s.fail = fail
                /\ last'.call \in Calls /\ last'.fail = fail /\ last'.comp = r.comp
                /\ r = Run(last'.call, s) /\ r.rslt = OK /\ chip' = r.chip
<1>1. PICK call \in Calls : \E copies \in Nat : \E fail \in Nat : \E r \in Runs :
            Did(call, fail, copies, r)
  BY ReturnedRun
<1>2. PICK copies \in Nat : \E fail \in Nat : \E r \in Runs : Did(call, fail, copies, r)
  BY <1>1
<1>3. PICK fail \in Nat : \E r \in Runs : Did(call, fail, copies, r)
  BY <1>2
<1>4. PICK r \in Runs : Did(call, fail, copies, r)
  BY <1>3
<1> DEFINE s == Start(fail, copies)
<1>5. s \in Runs /\ s.rslt = OK /\ s.comp = NoData /\ s.chip = chip /\ s.fail = fail
  BY StartRun
<1>6. /\ r = Run(call, s) /\ chip' = r.chip /\ last'.call = call /\ last'.fail = fail
      /\ last'.comp = r.comp /\ r.rslt = OK
  BY <1>4 DEF Did
<1> HIDE DEF s
<1> QED
  BY <1>5, <1>6

\* The numbers of the words a reading returned.
ValuesIn(value) == [k \in DOMAIN value |-> Val(value[k])]

\* At most two of them.
LEMMA ValuesOf ==
    ASSUME NEW x, NEW y
    PROVE  /\ ValuesIn(<<>>) = <<>>
           /\ ValuesIn(<<x>>) = <<Val(x)>>
           /\ ValuesIn(<<x, y>>) = <<Val(x), Val(y)>>
BY DEF ValuesIn

\* bme280_get_sensor_data, from the registers to what is returned.
LEMMA OwnTemperature ==
    ASSUME TypeOK, [Next]_vars, Returned("get_sensor_data")
    PROVE  LET byte(k) == Val(chip.regs[DATA_ADDR + k])
               twenty(k) == 4096 * byte(k) + 16 * byte(k + 1) + (byte(k + 2) \div 16)
               given(c) == c \in last'.call.sensor_comp
               is(value, numbers) == [k \in DOMAIN value |-> Val(value[k])] = numbers
           IN  /\ is(last'.comp.temperature,
                     IF last'.call.sensor_comp = {} THEN <<>> ELSE <<twenty(3)>>)
               /\ is(last'.comp.pressure,
                     IF given("press") THEN <<twenty(0), twenty(3)>> ELSE <<>>)
               /\ is(last'.comp.humidity,
                     IF given("hum") THEN <<256 * byte(6) + byte(7), twenty(3)>>
                     ELSE <<>>)
<1> DEFINE byte(k) == Val(chip.regs[DATA_ADDR + k])
           twenty(k) == 4096 * byte(k) + 16 * byte(k + 1) + (byte(k + 2) \div 16)
           comp == last'.call.sensor_comp
           u == DataOf(chip)
<1>1. PICK s \in Runs, r \in Runs :
        /\ s.rslt = OK /\ s.comp = NoData /\ s.chip = chip
        /\ last'.call \in Calls /\ last'.comp = r.comp
        /\ r = Run(last'.call, s) /\ r.rslt = OK
  <2>1. calls' # calls /\ last'.rslt = OK
    BY DEF Returned
  <2> QED
    BY <2>1, RunReturned
<1>2. last'.call.op = "get_sensor_data"
  BY DEF Returned
<1>3. comp \in SUBSET {"press", "temp", "hum"} /\ r = bme280_get_sensor_data(s, comp)
  BY <1>1, <1>2, CallCases, RunCases
<1>4. r.comp = Compensated(u, comp)
  <2> HIDE DEF comp, u
  <2>1. r.comp = Compensated(DataOf(s.chip), comp)
    BY <1>1, <1>3, GetData DEF OK, E_COMM_FAIL
  <2> QED
    BY <1>1, <2>1 DEF u
<1>5. /\ Val(u.pressure) = twenty(0) /\ Val(u.temperature) = twenty(3)
      /\ Val(u.humidity) = 256 * byte(6) + byte(7)
  BY DataValues DEF TypeOK
<1> DEFINE p == twenty(0)
           t == twenty(3)
           h == 256 * byte(6) + byte(7)
<1>6. Val(u.pressure) = p /\ Val(u.temperature) = t /\ Val(u.humidity) = h
  BY <1>5
<1> HIDE DEF p, t, h, u, comp
<1>7. ValuesIn(r.comp.temperature) = IF comp = {} THEN <<>> ELSE <<t>>
  <2>1. r.comp.temperature = IF comp = {} THEN <<>> ELSE <<u.temperature>>
    BY <1>4 DEF Compensated
  <2> QED
    BY <1>6, <2>1, ValuesOf, Zenon
<1>8. ValuesIn(r.comp.pressure) = IF "press" \in comp THEN <<p, t>> ELSE <<>>
  <2>1. r.comp.pressure = IF "press" \in comp THEN <<u.pressure, u.temperature>> ELSE <<>>
    BY <1>4 DEF Compensated
  <2> QED
    BY <1>6, <2>1, ValuesOf, Zenon
<1>9. ValuesIn(r.comp.humidity) = IF "hum" \in comp THEN <<h, t>> ELSE <<>>
  <2>1. r.comp.humidity = IF "hum" \in comp THEN <<u.humidity, u.temperature>> ELSE <<>>
    BY <1>4 DEF Compensated
  <2> QED
    BY <1>6, <2>1, ValuesOf, Zenon
<1>10. /\ ValuesIn(last'.comp.temperature)
            = IF last'.call.sensor_comp = {} THEN <<>> ELSE <<t>>
       /\ ValuesIn(last'.comp.pressure)
            = IF "press" \in last'.call.sensor_comp THEN <<p, t>> ELSE <<>>
       /\ ValuesIn(last'.comp.humidity)
            = IF "hum" \in last'.call.sensor_comp THEN <<h, t>> ELSE <<>>
  <2>1. last'.comp = r.comp
    BY <1>1
  <2> QED
    BY <2>1, <1>7, <1>8, <1>9, Zenon DEF comp
<1> QED
  BY <1>10, ZenonT(30) DEF ValuesIn, p, t, h

\* A pressure or humidity that bme280_get_sensor_data returns was compensated
\* with the temperature of the same reading, also when the user did not ask for
\* the temperature, and each raw number is the data sheet's.
THEOREM RegistersOwnCompensation == Spec => OwnCompensation
<1>1. TypeOK /\ [Next]_vars =>
        [Returned("get_sensor_data") =>
        LET byte(k) == Val(chip.regs[DATA_ADDR + k])
            twenty(k) == 4096 * byte(k) + 16 * byte(k + 1) + (byte(k + 2) \div 16)
            given(c) == c \in last'.call.sensor_comp
            is(value, numbers) == [k \in DOMAIN value |-> Val(value[k])] = numbers
        IN  /\ is(last'.comp.temperature,
                  IF last'.call.sensor_comp = {} THEN <<>> ELSE <<twenty(3)>>)
            /\ is(last'.comp.pressure,
                  IF given("press") THEN <<twenty(0), twenty(3)>> ELSE <<>>)
            /\ is(last'.comp.humidity,
                  IF given("hum") THEN <<256 * byte(6) + byte(7), twenty(3)>>
                  ELSE <<>>)]_vars
  BY OwnTemperature
<1> QED
  BY <1>1, Registers, PTL DEF Spec, OwnCompensation

-----------------------------------------------------------------------------
(* The numbers in the control registers. *)

\* The two fields of a control register, as numbers.
MiddleOf(b) == (Val(b) \div 4) % 8
UpperOf(b) == Val(b) \div 32

\* Fields of equal bits are equal.
LEMMA SameFields ==
    ASSUME NEW b \in Byte, NEW e \in Byte
    PROVE  /\ (\A i \in 2..4 : i \in b <=> i \in e) => MiddleOf(b) = MiddleOf(e)
           /\ (\A i \in 5..7 : i \in b <=> i \in e) => UpperOf(b) = UpperOf(e)
<1>1. b \in SUBSET Bits(8) /\ e \in SUBSET Bits(8)
  BY DEF Byte
<1>2. /\ MiddleOf(b) = Bit(b, 2) + 2 * Bit(b, 3) + 4 * Bit(b, 4)
      /\ MiddleOf(e) = Bit(e, 2) + 2 * Bit(e, 3) + 4 * Bit(e, 4)
  BY <1>1, ByteFields DEF MiddleOf
<1>3. /\ UpperOf(b) = Bit(b, 5) + 2 * Bit(b, 6) + 4 * Bit(b, 7)
      /\ UpperOf(e) = Bit(e, 5) + 2 * Bit(e, 6) + 4 * Bit(e, 7)
  BY <1>1, ByteFields DEF UpperOf
<1>4. ASSUME \A i \in 2..4 : i \in b <=> i \in e PROVE MiddleOf(b) = MiddleOf(e)
  <2>1. Bit(b, 2) = Bit(e, 2) /\ Bit(b, 3) = Bit(e, 3) /\ Bit(b, 4) = Bit(e, 4)
    BY <1>4, 2 \in 2..4, 3 \in 2..4, 4 \in 2..4, Zenon DEF Bit
  <2> QED
    BY <1>2, <2>1, Zenon
<1>5. ASSUME \A i \in 5..7 : i \in b <=> i \in e PROVE UpperOf(b) = UpperOf(e)
  <2>1. Bit(b, 5) = Bit(e, 5) /\ Bit(b, 6) = Bit(e, 6) /\ Bit(b, 7) = Bit(e, 7)
    BY <1>5, 5 \in 5..7, 6 \in 5..7, 7 \in 5..7, Zenon DEF Bit
  <2> QED
    BY <1>3, <2>1, Zenon
<1> QED
  BY <1>4, <1>5

\* A field written has the low three bits of what was given.
LEMMA FieldsGiven ==
    ASSUME NEW b \in Byte, NEW data \in Byte
    PROVE  /\ (\A i \in 2..4 : i \in b <=> i - 2 \in data) => MiddleOf(b) = Val(data) % 8
           /\ (\A i \in 5..7 : i \in b <=> i - 5 \in data) => UpperOf(b) = Val(data) % 8
<1>1. b \in SUBSET Bits(8) /\ data \in SUBSET Bits(8)
  BY DEF Byte
<1>2. /\ MiddleOf(b) = Bit(b, 2) + 2 * Bit(b, 3) + 4 * Bit(b, 4)
      /\ UpperOf(b) = Bit(b, 5) + 2 * Bit(b, 6) + 4 * Bit(b, 7)
  BY <1>1, ByteFields DEF MiddleOf, UpperOf
<1>3. Val(data) % 8 = Bit(data, 0) + 2 * Bit(data, 1) + 4 * Bit(data, 2)
  BY <1>1, ByteFields
<1>4. ASSUME \A i \in 2..4 : i \in b <=> i - 2 \in data PROVE MiddleOf(b) = Val(data) % 8
  <2>1. (2 \in b <=> 2 - 2 \in data) /\ (3 \in b <=> 3 - 2 \in data)
        /\ (4 \in b <=> 4 - 2 \in data)
    BY <1>4, 2 \in 2..4, 3 \in 2..4, 4 \in 2..4, Zenon
  <2>2. 2 - 2 = 0 /\ 3 - 2 = 1 /\ 4 - 2 = 2
    OBVIOUS
  <2>3. Bit(b, 2) = Bit(data, 0) /\ Bit(b, 3) = Bit(data, 1) /\ Bit(b, 4) = Bit(data, 2)
    BY <2>1, <2>2, Zenon DEF Bit
  <2> QED
    BY <1>2, <1>3, <2>3, Zenon
<1>5. ASSUME \A i \in 5..7 : i \in b <=> i - 5 \in data PROVE UpperOf(b) = Val(data) % 8
  <2>1. (5 \in b <=> 5 - 5 \in data) /\ (6 \in b <=> 6 - 5 \in data)
        /\ (7 \in b <=> 7 - 5 \in data)
    BY <1>5, 5 \in 5..7, 6 \in 5..7, 7 \in 5..7, Zenon
  <2>2. 5 - 5 = 0 /\ 6 - 5 = 1 /\ 7 - 5 = 2
    OBVIOUS
  <2>3. Bit(b, 5) = Bit(data, 0) /\ Bit(b, 6) = Bit(data, 1) /\ Bit(b, 7) = Bit(data, 2)
    BY <2>1, <2>2, Zenon DEF Bit
  <2> QED
    BY <1>2, <1>3, <2>3, Zenon
<1> QED
  BY <1>4, <1>5

\* The low three bits as a number.
LEMMA LowValue == ASSUME NEW b \in Byte PROVE Val(Low(b, 3)) = Val(b) % 8
<1> DEFINE w == Low(b, 3)
<1>1. b \in SUBSET Bits(8) /\ w \in SUBSET Bits(8)
  BY DEF Byte, Low
<1>2. \A i \in 0..7 : i \in w <=> i < 3 /\ i \in b
  BY DEF Low, Bits
<1>3. \A k \in 0..3 : 4 + k \notin w
  BY <1>2
<1> HIDE DEF w
<1>4. /\ Bit(w, 0) = Bit(b, 0) /\ Bit(w, 1) = Bit(b, 1) /\ Bit(w, 2) = Bit(b, 2)
      /\ Bit(w, 3) = 0
  BY <1>2 DEF Bit
<1>5. Nibble(w, 4) = 0
  BY <1>3, 4 \in Nat, NibbleZero
<1>6. Nibble(w, 0) = Bit(w, 0) + 2 * Bit(w, 1) + 4 * Bit(w, 2) + 8 * Bit(w, 3)
  BY DEF Nibble
<1>7. Val(w) = Nibble(w, 0) + 16 * Nibble(w, 4)
  BY <1>1, ByteValue
<1>8. Val(b) % 8 = Bit(b, 0) + 2 * Bit(b, 1) + 4 * Bit(b, 2)
  BY <1>1, ByteFields
<1> DEFINE n == Val(w)
           m == Val(b) % 8
           b0 == Bit(b, 0)
           b1 == Bit(b, 1)
           b2 == Bit(b, 2)
<1>9. b0 \in {0, 1} /\ b1 \in {0, 1} /\ b2 \in {0, 1}
  BY BitValue
<1>10. n = b0 + 2 * b1 + 4 * b2 + 8 * 0 + 16 * 0 /\ m = b0 + 2 * b1 + 4 * b2
  BY <1>4, <1>5, <1>6, <1>7, <1>8, Zenon
<1> HIDE DEF n, m, b0, b1, b2
<1>11. n = m
  BY <1>9, <1>10
<1> QED
  BY <1>11 DEF n, m, w

\* The settings of the chip, as fields of its registers.
LEMMA ChipFields ==
    ASSUME NEW c, NEW hum
    PROVE  /\ InChip(c, hum).osr_p = MiddleOf(Meas(c))
           /\ InChip(c, hum).osr_t = UpperOf(Meas(c))
           /\ InChip(c, hum).osr_h = Val(hum)
           /\ InChip(c, hum).filter = MiddleOf(Config(c))
           /\ InChip(c, hum).standby_time = UpperOf(Config(c))
BY DEF InChip, MiddleOf, UpperOf, Meas, Config

\* bme280_set_sensor_mode, field by field.
LEMMA ModeKept ==
    ASSUME TypeOK, [Next]_vars, Returned("set_sensor_mode")
    PROVE  /\ LET new == InForce(chip')
                  old == Asked(chip)
              IN  \A f \in Sure : new[f] = old[f]
           /\ Mode(chip') = last'.call.sensor_mode
<1> DEFINE mode == last'.call.sensor_mode
           new == InForce(chip')
           old == Asked(chip)
<1>1. PICK fail \in Nat : \E s \in Runs, r \in Runs :
        /\ s.rslt = OK /\ s.chip = chip /\ s.fail = fail /\ last'.fail = fail
        /\ last'.call \in Calls /\ r = Run(last'.call, s) /\ r.rslt = OK /\ chip' = r.chip
  <2>1. calls' # calls /\ last'.rslt = OK
    BY DEF Returned
  <2> QED
    BY <2>1, RunReturned
<1>2. PICK s \in Runs, r \in Runs :
        /\ s.rslt = OK /\ s.chip = chip /\ s.fail = fail /\ last'.fail = fail
        /\ last'.call \in Calls /\ r = Run(last'.call, s) /\ r.rslt = OK /\ chip' = r.chip
  BY <1>1
<1>3. last'.call.op = "set_sensor_mode"
  BY DEF Returned
<1>4. mode \in SUBSET {0, 1} /\ r = bme280_set_sensor_mode(s, mode)
  BY <1>2, <1>3, CallCases, RunCases
<1> HIDE DEF mode
<1>5. ModeDone(chip, mode, chip') /\ (fail = 0 => chip'.hum = Hum(chip)) /\ r \in Runs
  BY <1>2, <1>4, SetMode
<1>6. chip \in Chip /\ chip' \in Chip
  BY <1>2, <1>5 DEF Runs
<1>7. /\ Meas(chip) \in Byte /\ Meas(chip') \in Byte
      /\ Config(chip) \in Byte /\ Config(chip') \in Byte
  BY <1>6, ChipRegisters
<1>8. MiddleOf(Meas(chip')) = MiddleOf(Meas(chip)) /\ UpperOf(Meas(chip')) = UpperOf(Meas(chip))
  <2>1. \A i \in 2..7 : i \in Meas(chip') <=> i \in Meas(chip)
    BY <1>4, <1>5 DEF ModeDone, MeasInMode
  <2> QED
    BY <1>7, <2>1, SameFields
<1>9. /\ MiddleOf(Config(chip')) = MiddleOf(Config(chip))
      /\ UpperOf(Config(chip')) = UpperOf(Config(chip))
  <2>1. \A i \in 2..7 : i \in Config(chip') <=> i \in Config(chip)
    BY <1>5 DEF ModeDone
  <2> QED
    BY <1>7, <2>1, SameFields
<1>10. /\ new.osr_p = old.osr_p /\ new.osr_t = old.osr_t
       /\ new.filter = old.filter /\ new.standby_time = old.standby_time
       /\ fail = 0 => new.osr_h = old.osr_h
  BY <1>5, <1>8, <1>9, ChipFields DEF InForce, Asked, Hum
<1>11. \A f \in Sure : new[f] = old[f]
  <2> HIDE DEF new, old
  <2> QED
    BY <1>2, <1>10 DEF Sure, Fields
<1>12. Mode(chip') = mode
  <2>1. Mode(chip') = Meas(chip') \cap (0..1)
    BY <1>6, ModeBits
  <2>2. Meas(chip') = (Meas(chip) \ (0..1)) \cup mode
    BY <1>5 DEF ModeDone, MeasInMode
  <2>3. \A i \in mode : i \in 0..1
    BY <1>4
  <2> QED
    BY <2>1, <2>2, <2>3, Zenon
<1> QED
  BY <1>11, <1>12 DEF mode

\* bme280_set_sensor_mode, when it succeeds, leaves every setting it is sure of
\* as the chip had it, although it may reset the chip and write them back, and
\* the chip is in the mode asked for.
THEOREM RegistersModeKeepsSettings == Spec => ModeKeepsSettings
<1>1. TypeOK /\ [Next]_vars =>
        [Returned("set_sensor_mode") =>
            /\ LET new == InForce(chip')
                   old == Asked(chip)
               IN  \A f \in Sure : new[f] = old[f]
            /\ Mode(chip') = last'.call.sensor_mode]_vars
  BY ModeKept
<1> QED
  BY <1>1, Registers, PTL DEF Spec, ModeKeepsSettings

\* Settings given change no chip.
LEMMA GivenKeeps ==
    \A s \in Runs : \A settings \in Settings :
        /\ Given(s, settings) \in Runs /\ Given(s, settings).chip = s.chip
        /\ Given(s, settings).fail = s.fail /\ Given(s, settings).rslt = s.rslt
<1> SUFFICES ASSUME NEW s \in Runs, NEW settings \in Settings
             PROVE  /\ Given(s, settings) \in Runs /\ Given(s, settings).chip = s.chip
                    /\ Given(s, settings).fail = s.fail /\ Given(s, settings).rslt = s.rslt
  OBVIOUS
<1> DEFINE g == Given(s, settings)
<1>1. g \in Runs /\ g.chip = s.chip /\ g.fail = s.fail /\ g.rslt = s.rslt
  BY GivenRun
<1> QED
  BY <1>1, Zenon

\* bme280_set_sensor_settings, field by field.
LEMMA AppliedSettings ==
    ASSUME TypeOK, [Next]_vars, Returned("set_sensor_settings")
    PROVE  LET new == InForce(chip')
               was == {InForce(chip), Asked(chip)}
               wanted == Numbers(last'.call.settings)
           IN  /\ \A f \in Sure :
                     IF f \in last'.call.desired THEN new[f] = wanted[f]
                     ELSE \E old \in was : new[f] = old[f]
               /\ Mode(chip') = {}
<1> DEFINE new == InForce(chip')
           was == {InForce(chip), Asked(chip)}
<1>1. PICK fail \in Nat, call \in Calls, s \in Runs, r \in Runs :
        /\ s.rslt = OK /\ s.chip = chip /\ s.fail = fail /\ last'.fail = fail
        /\ last'.call = call /\ r = Run(call, s) /\ r.rslt = OK /\ chip' = r.chip
  <2>1. calls' # calls /\ last'.rslt = OK
    BY DEF Returned
  <2> QED
    BY <2>1, RunReturned
<1>3. call.op = "set_sensor_settings"
  BY <1>1 DEF Returned
<1> DEFINE desired == call.desired
           settings == call.settings
           wanted == Numbers(settings)
           g == Given(s, settings)
<1>4. /\ desired \in SUBSET Fields /\ settings \in Settings
      /\ r = bme280_set_sensor_settings(g, desired, settings)
  BY <1>1, <1>3, CallCases, RunCases
<1> HIDE DEF desired, settings
<1>5. g \in Runs /\ g.chip = chip /\ g.fail = fail /\ g.rslt = OK
  <2>1. s \in Runs /\ settings \in Settings
    BY <1>1, <1>4
  <2>2. g \in Runs /\ g.chip = s.chip /\ g.fail = s.fail /\ g.rslt = s.rslt
    BY <2>1, GivenKeeps, Zenon
  <2> QED
    BY <1>1, <2>2
<1> HIDE DEF g
<1>6. /\ SettingsDone(chip, desired, settings, chip') /\ r \in Runs
      /\ fail = 0 => IF "osr_h" \in desired THEN chip'.hum = Low(settings.osr_h, 3)
                     ELSE chip'.hum \in {chip.hum, Hum(chip)}
  <2>1. /\ Follows(g, r)
        /\ SettingsDone(g.chip, desired, settings, r.chip)
        /\ g.fail = 0 => IF "osr_h" \in desired THEN r.chip.hum = Low(settings.osr_h, 3)
                         ELSE r.chip.hum \in {g.chip.hum, Hum(g.chip)}
    BY <1>1, <1>4, <1>5, SetSettings
  <2> QED
    BY <1>1, <1>5, <2>1, Zenon DEF Follows
<1>7. chip \in Chip /\ chip' \in Chip
  BY <1>1, <1>6 DEF Runs
<1> DEFINE meas == Meas(chip) \ (0..1)
           config == IF Mode(chip) = {} THEN Config(chip) ELSE Config(chip) \ (0..1)
<1>8. /\ Meas(chip) \in Byte /\ Meas(chip') \in Byte /\ meas \in Byte
      /\ Config(chip) \in Byte /\ Config(chip') \in Byte /\ config \in Byte
  <2>1. Meas(chip) \in Byte /\ Config(chip) \in Byte
    BY <1>7, ChipRegisters
  <2>2. Meas(chip') \in Byte /\ Config(chip') \in Byte
    BY <1>7, ChipRegisters
  <2> QED
    BY <2>1, <2>2 DEF Byte
<1>9. /\ \A i \in 2..7 : i \in meas <=> i \in Meas(chip)
      /\ \A i \in 2..7 : i \in config <=> i \in Config(chip)
  OBVIOUS
<1>10. Meas(chip') = MeasWith(meas, desired, settings)
       /\ Config(chip') = ConfigWith(config, desired, settings) /\ Mode(chip') = {}
  BY <1>6 DEF SettingsDone
<1> HIDE DEF meas, config
<1>11. \A i \in 0..7 : i \in Meas(chip') <=>
         IF "osr_p" \in desired /\ i \in 2..4 THEN i - 2 \in settings.osr_p
         ELSE IF "osr_t" \in desired /\ i \in 5..7 THEN i - 5 \in settings.osr_t ELSE i \in meas
  BY <1>4, <1>8, <1>10, MeasWithBits
<1>12. \A i \in 0..7 : i \in Config(chip') <=>
         IF "filter" \in desired /\ i \in 2..4 THEN i - 2 \in settings.filter
         ELSE IF "standby_time" \in desired /\ i \in 5..7 THEN i - 5 \in settings.standby_time
         ELSE i \in config
  BY <1>4, <1>8, <1>10, ConfigWithBits
<1>13. /\ settings.osr_p \in Byte /\ settings.osr_t \in Byte /\ settings.osr_h \in Byte
       /\ settings.filter \in Byte /\ settings.standby_time \in Byte
  BY <1>4 DEF Settings
<1>14. IF "osr_p" \in desired THEN MiddleOf(Meas(chip')) = Val(settings.osr_p) % 8
       ELSE MiddleOf(Meas(chip')) = MiddleOf(Meas(chip))
  <2>1. ASSUME "osr_p" \in desired
        PROVE  \A i \in 2..4 : i \in Meas(chip') <=> i - 2 \in settings.osr_p
    BY <1>11, <2>1
  <2>2. ASSUME "osr_p" \notin desired PROVE \A i \in 2..4 : i \in Meas(chip') <=> i \in Meas(chip)
    BY <1>9, <1>11, <2>2
  <2> QED
    BY <1>8, <1>13, <2>1, <2>2, FieldsGiven, SameFields
<1>15. IF "osr_t" \in desired THEN UpperOf(Meas(chip')) = Val(settings.osr_t) % 8
       ELSE UpperOf(Meas(chip')) = UpperOf(Meas(chip))
  <2>1. ASSUME "osr_t" \in desired
        PROVE  \A i \in 5..7 : i \in Meas(chip') <=> i - 5 \in settings.osr_t
    BY <1>11, <2>1
  <2>2. ASSUME "osr_t" \notin desired PROVE \A i \in 5..7 : i \in Meas(chip') <=> i \in Meas(chip)
    BY <1>9, <1>11, <2>2
  <2> QED
    BY <1>8, <1>13, <2>1, <2>2, FieldsGiven, SameFields
<1>16. IF "filter" \in desired THEN MiddleOf(Config(chip')) = Val(settings.filter) % 8
       ELSE MiddleOf(Config(chip')) = MiddleOf(Config(chip))
  <2>1. ASSUME "filter" \in desired
        PROVE  \A i \in 2..4 : i \in Config(chip') <=> i - 2 \in settings.filter
    BY <1>12, <2>1
  <2>2. ASSUME "filter" \notin desired
        PROVE  \A i \in 2..4 : i \in Config(chip') <=> i \in Config(chip)
    BY <1>9, <1>12, <2>2
  <2> QED
    BY <1>8, <1>13, <2>1, <2>2, FieldsGiven, SameFields
<1>17. IF "standby_time" \in desired
       THEN UpperOf(Config(chip')) = Val(settings.standby_time) % 8
       ELSE UpperOf(Config(chip')) = UpperOf(Config(chip))
  <2>1. ASSUME "standby_time" \in desired
        PROVE  \A i \in 5..7 : i \in Config(chip') <=> i - 5 \in settings.standby_time
    BY <1>12, <2>1
  <2>2. ASSUME "standby_time" \notin desired
        PROVE  \A i \in 5..7 : i \in Config(chip') <=> i \in Config(chip)
    BY <1>9, <1>12, <2>2
  <2> QED
    BY <1>8, <1>13, <2>1, <2>2, FieldsGiven, SameFields
<1>18. \A f \in Fields : wanted[f] = Val(settings[f]) % 8
  BY DEF Numbers
<1> DEFINE mine == InForce(chip)
           asked == Asked(chip)
<1>19. /\ new.osr_p = MiddleOf(Meas(chip')) /\ mine.osr_p = MiddleOf(Meas(chip))
       /\ new.osr_t = UpperOf(Meas(chip')) /\ mine.osr_t = UpperOf(Meas(chip))
       /\ new.filter = MiddleOf(Config(chip')) /\ mine.filter = MiddleOf(Config(chip))
       /\ new.standby_time = UpperOf(Config(chip')) /\ mine.standby_time = UpperOf(Config(chip))
       /\ new.osr_h = Val(chip'.hum) /\ mine.osr_h = Val(chip.hum)
       /\ asked.osr_h = Val(Hum(chip))
  BY ChipFields DEF InForce, Asked, Hum
<1> HIDE DEF new, mine, asked, wanted
<1>20. \A f \in {"osr_p", "osr_t", "filter", "standby_time"} :
         IF f \in desired THEN new[f] = wanted[f] ELSE new[f] = mine[f]
  <2>1. /\ wanted.osr_p = Val(settings.osr_p) % 8 /\ wanted.osr_t = Val(settings.osr_t) % 8
        /\ wanted.filter = Val(settings.filter) % 8
        /\ wanted.standby_time = Val(settings.standby_time) % 8
    BY <1>18 DEF Fields
  <2> QED
    BY <1>14, <1>15, <1>16, <1>17, <1>19, <2>1
<1>21. fail = 0 => IF "osr_h" \in desired THEN new.osr_h = wanted.osr_h
                   ELSE new.osr_h = mine.osr_h \/ new.osr_h = asked.osr_h
  <2>1. wanted.osr_h = Val(settings.osr_h) % 8
    BY <1>18 DEF Fields
  <2>2. Val(Low(settings.osr_h, 3)) = Val(settings.osr_h) % 8
    BY <1>13, LowValue
  <2> QED
    BY <1>6, <1>19, <2>1, <2>2
<1>22. \A f \in Sure : IF f \in desired THEN new[f] = wanted[f]
                       ELSE new[f] = mine[f] \/ new[f] = asked[f]
  <2>1. \A f \in Sure : \/ f \in {"osr_p", "osr_t", "filter", "standby_time"}
                        \/ f = "osr_h" /\ fail = 0
    BY <1>1 DEF Sure, Fields
  <2> QED
    BY <1>20, <1>21, <2>1
<1>23. was = {mine, asked}
  BY DEF mine, asked
<1> HIDE DEF was
<1>24. \A f \in Sure : IF f \in desired THEN new[f] = wanted[f]
                       ELSE \E old \in was : new[f] = old[f]
  BY <1>22, <1>23
<1> QED
  BY <1>1, <1>10, <1>24, Zenon DEF new, was, wanted, desired, settings

\* bme280_set_sensor_settings, when it succeeds, has put in force the settings
\* selected and no others, and the chip sleeps.
THEOREM RegistersSettingsApplied == Spec => SettingsApplied
<1>1. TypeOK /\ [Next]_vars =>
        [Returned("set_sensor_settings") =>
            LET new == InForce(chip')
                was == {InForce(chip), Asked(chip)}
                wanted == Numbers(last'.call.settings)
            IN  /\ \A f \in Sure :
                      IF f \in last'.call.desired THEN new[f] = wanted[f]
                      ELSE \E old \in was : new[f] = old[f]
                /\ Mode(chip') = {}]_vars
  BY AppliedSettings
<1> QED
  BY <1>1, Registers, PTL DEF Spec, SettingsApplied

-----------------------------------------------------------------------------
(* Where the bytes of a burst land. *)

\* What a register takes of a byte, as a number.
LEMMA TakenValue ==
    ASSUME NEW a, NEW byte \in Byte
    PROVE  Val(Taken(a, byte)) = Val(byte) % (IF a = CTRL_HUM_ADDR THEN 8 ELSE 256)
<1>1. CASE a = CTRL_HUM_ADDR
  BY <1>1, LowValue, Zenon DEF Taken
<1>2. CASE a # CTRL_HUM_ADDR
  <2> DEFINE v == Val(byte)
  <2>1. v \in 0..255
    BY ByteValue DEF Byte
  <2> HIDE DEF v
  <2>2. v % 256 = v
    BY <2>1
  <2> QED
    BY <1>2, <2>2, Zenon DEF Taken, v
<1> QED
  BY <1>1, <1>2

\* The last byte a register takes is what it holds.
LEMMA LastLands ==
    ASSUME NEW addrs \in Seq(Writable), NEW bytes \in Seq(Byte), Len(addrs) = Len(bytes),
           NEW c0, NEW c, NEW a, LastFor(c0, addrs, bytes, c, 10, a)
    PROVE  Val(c.regs[a]) = Landed(c0, addrs, bytes, a)
<1> DEFINE T == TakenPlaces(c0, addrs, bytes, a)
<1>1. T \in SUBSET Nat /\ \A k \in T : k \in 1..10 /\ k \in 1..Len(bytes)
  <2>1. T \subseteq {k \in DOMAIN addrs : k <= 10}
    BY DEF TakenPlaces, PlacesFor
  <2>2. DOMAIN addrs = 1..Len(bytes)
    OBVIOUS
  <2> HIDE DEF T
  <2> QED
    BY <2>1, <2>2
<1>2. Landed(c0, addrs, bytes, a) =
        IF T = {} THEN Val(c0.regs[a])
        ELSE Val(bytes[Max(T)]) % (IF a = CTRL_HUM_ADDR THEN 8 ELSE 256)
  BY DEF Landed
<1>3. LastFor(c0, addrs, bytes, c, 10, a) <=>
        \/ c.regs[a] = c0.regs[a] /\ \A k \in 1..10 : k \notin T
        \/ \E k \in 1..10 : /\ k \in T
                            /\ \A i \in (k + 1)..10 : i \notin T
                            /\ c.regs[a] = Taken(a, bytes[k])
  BY DEF LastFor
<1> HIDE DEF T
<1>4. CASE c.regs[a] = c0.regs[a] /\ \A k \in 1..10 : k \notin T
  <2>1. T = {}
    BY <1>1, <1>4
  <2> QED
    BY <1>2, <1>4, <2>1, Zenon
<1>5. CASE \E k \in 1..10 : /\ k \in T
                            /\ \A i \in (k + 1)..10 : i \notin T
                            /\ c.regs[a] = Taken(a, bytes[k])
  <2>1. PICK k \in 1..10 : /\ k \in T
                           /\ \A i \in (k + 1)..10 : i \notin T
                           /\ c.regs[a] = Taken(a, bytes[k])
    BY <1>5
  <2>2. ASSUME NEW i \in T PROVE i <= k
    <3>1. i \in Nat /\ i \in 1..10
      BY <1>1
    <3>2. i \notin (k + 1)..10
      BY <2>1, Zenon
    <3> QED
      BY <3>1, <3>2
  <2>3. Max(T) = k
    BY <1>1, <2>1, <2>2, MaxGiven
  <2>4. bytes[k] \in Byte
    BY <1>1, <2>1
  <2>5. Val(c.regs[a]) = Val(bytes[k]) % (IF a = CTRL_HUM_ADDR THEN 8 ELSE 256)
    BY <2>1, <2>4, TakenValue
  <2>6. T # {}
    BY <2>1
  <2> QED
    BY <1>2, <2>3, <2>5, <2>6, Zenon
<1> QED
  BY <1>3, <1>4, <1>5

\* What lands depends on the registers only.
LEMMA SameLanded ==
    ASSUME NEW c, NEW d, d.regs = c.regs, NEW addrs, NEW bytes, NEW a
    PROVE  Landed(d, addrs, bytes, a) = Landed(c, addrs, bytes, a)
BY DEF Landed, TakenPlaces, AsleepAt

\* bme280_set_regs, register by register.
LEMMA BurstLanded ==
    ASSUME TypeOK, [Next]_vars, Returned("set_regs"),
           NoReset(last'.call.burst.addrs, last'.call.burst.bytes)
    PROVE  /\ DOMAIN chip'.regs = DOMAIN chip.regs
           /\ \A a \in DOMAIN chip.regs :
                 Val(chip'.regs[a]) =
                     Landed(chip, last'.call.burst.addrs, last'.call.burst.bytes, a)
<1>1. PICK call \in Calls, s \in Runs, r \in Runs :
        /\ s.rslt = OK /\ s.chip = chip /\ last'.call = call
        /\ r = Run(call, s) /\ r.rslt = OK /\ chip' = r.chip
  <2>1. calls' # calls /\ last'.rslt = OK
    BY DEF Returned
  <2> QED
    BY <2>1, RunReturned
<1>2. call.op = "set_regs"
  BY <1>1 DEF Returned
<1> DEFINE addrs == call.burst.addrs
           bytes == call.burst.bytes
           c0 == Later(s.chip)
<1>3. addrs \in Seq(Writable) /\ bytes \in Seq(Byte) /\ Len(addrs) = Len(bytes)
  BY <1>2, CallCases
<1>4. r = bme280_set_regs(s, addrs, bytes)
  BY <1>1, <1>2, RunCases
<1>5. NoReset(addrs, bytes)
  BY <1>1
<1> HIDE DEF addrs, bytes
<1>6. BurstState(c0, addrs, bytes, r.chip, 10)
  BY <1>1, <1>3, <1>4, SetRegs
<1>7. s.chip = chip /\ chip \in Chip /\ c0.regs = chip.regs
  BY <1>1, LaterChip DEF TypeOK
<1> HIDE DEF c0
<1>8. DOMAIN chip.regs = Addresses /\ DOMAIN chip'.regs = Addresses
  <2>1. r.chip \in Chip
    BY <1>6 DEF BurstState
  <2>2. \A c \in Chip : DOMAIN c.regs = Addresses
    BY DEF Chip, Addresses, CTRL_HUM_ADDR, DATA_ADDR
  <2> QED
    BY <1>1, <1>7, <2>1, <2>2
<1>9. ASSUME NEW a \in Addresses PROVE Val(chip'.regs[a]) = Landed(chip, addrs, bytes, a)
  <2>1. LastFor(c0, addrs, bytes, r.chip, 10, a)
    BY <1>5, <1>6 DEF BurstState
  <2>2. Val(r.chip.regs[a]) = Landed(c0, addrs, bytes, a)
    BY <1>3, <2>1, LastLands
  <2>3. Landed(c0, addrs, bytes, a) = Landed(chip, addrs, bytes, a)
    BY <1>7, SameLanded
  <2> QED
    BY <1>1, <2>2, <2>3
<1> QED
  BY <1>1, <1>8, <1>9 DEF addrs, bytes

\* bme280_set_regs writes each byte to the register of the same place, in
\* order, up to ten of them, config only while the chip sleeps, and changes no
\* other register, unless one of them resets the chip.
THEOREM RegistersBurstLands == Spec => BurstLands
<1>1. TypeOK /\ [Next]_vars =>
        [Returned("set_regs") /\ NoReset(last'.call.burst.addrs, last'.call.burst.bytes) =>
            /\ DOMAIN chip'.regs = DOMAIN chip.regs
            /\ \A a \in DOMAIN chip.regs :
                  Val(chip'.regs[a]) =
                      Landed(chip, last'.call.burst.addrs, last'.call.burst.bytes, a)]_vars
  BY BurstLanded
<1> QED
  BY <1>1, Registers, PTL DEF Spec, BurstLands
=============================================================================
