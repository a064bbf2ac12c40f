---------------------------- MODULE ProtobufWire ----------------------------
(***************************************************************************)
(* The bytes of protobuf-c (main/protobuf-c.c): how one integer, tag or    *)
(* length is written and read.  Signed words are their two's complement;   *)
(* -x - 1 is the complement of x.  A buffer is a sequence of bytes.        *)
(***************************************************************************)
EXTENDS Words, Sequences

\* w < 2^n
Below(w, n) == w \subseteq Bits(n)
\* (w >> n) | 0x80, cut to a byte
More(w, n) == Low(Shr(w, n), 7) \cup {7}

-----------------------------------------------------------------------------
(* Sizes. *)

get_tag_size(number) ==
    IF number < 2^4 THEN 1 ELSE IF number < 2^11 THEN 2
    ELSE IF number < 2^18 THEN 3 ELSE IF number < 2^25 THEN 4 ELSE 5

uint32_size(v) ==
    IF Below(v, 7) THEN 1 ELSE IF Below(v, 14) THEN 2
    ELSE IF Below(v, 21) THEN 3 ELSE IF Below(v, 28) THEN 4 ELSE 5

\* Seeded bug: a negative number counted as if it were not sign extended.
int32_size_Mutant(v) == uint32_size(v)
int32_size(v) == IF 31 \in v THEN 10 ELSE uint32_size(v)

zigzag32(v) == IF 31 \in v THEN Bits(32) \ Shl(v, 1, 32) ELSE Shl(v, 1, 32)

sint32_size(v) == uint32_size(zigzag32(v))

uint64_size(v) ==
    LET upper_v == Shr(v, 32)
    IN  IF upper_v = {} THEN uint32_size(v)
        ELSE IF Below(upper_v, 3) THEN 5 ELSE IF Below(upper_v, 10) THEN 6
        ELSE IF Below(upper_v, 17) THEN 7 ELSE IF Below(upper_v, 24) THEN 8
        ELSE IF Below(upper_v, 31) THEN 9 ELSE 10

zigzag64(v) == IF 63 \in v THEN Bits(64) \ Shl(v, 1, 64) ELSE Shl(v, 1, 64)

sint64_size(v) == uint64_size(zigzag64(v))

-----------------------------------------------------------------------------
(* Packing. *)

\* v in n bytes of seven bits.
Sevens(v, n) == [k \in 1..n |-> IF k < n THEN More(v, 7 * (k - 1)) ELSE Shr(v, 7 * (k - 1))]
\* As many bytes as it takes until no bit is left.
uint32_pack(v) == Sevens(v, Max({i \div 7 : i \in v} \cup {0}) + 1)

\* A negative int32 is written with the sign extended to 64 bits: >> is an
\* arithmetic shift.
int32_pack(v) ==
    IF 31 \in v
    THEN [k \in 1..4 |-> More(v, 7 * (k - 1))]
         \o <<Shr(v, 28) \cup {4, 5, 6, 7}, 0..7, 0..7, 0..7, 0..7, {0}>>
    ELSE uint32_pack(v)

sint32_pack(v) == uint32_pack(zigzag32(v))

\* The loop over hi writes what uint32_pack writes of it.
Halves_pack(lo, hi) ==
    LET fifth == Shl(Low(hi, 3), 4, 7) \cup Shr(lo, 28)
    IN  IF hi = {} THEN uint32_pack(lo)
        ELSE [k \in 1..4 |-> More(lo, 7 * (k - 1))]
             \o IF Below(hi, 3) THEN <<fifth>>
                ELSE <<fifth \cup {7}>> \o uint32_pack(Shr(hi, 3))
uint64_pack(v) == Halves_pack(Low(v, 32), Shr(v, 32))

sint64_pack(v) == uint64_pack(zigzag64(v))

fixed32_pack(v) == [k \in 1..4 |-> Low(Shr(v, 8 * (k - 1)), 8)]
fixed64_pack(v) == [k \in 1..8 |-> Low(Shr(v, 8 * (k - 1)), 8)]
boolean_pack(v) == IF v = {} THEN <<{}>> ELSE <<{0}>>

\* string_pack, binary_data_pack and prefixed_message_pack all write a length
\* and then the bytes.
Prefixed(bytes) == uint32_pack(Word(Len(bytes))) \o bytes

tag_pack(id) ==
    IF id < 2^29 THEN uint32_pack(Shl(Word(id), 3, 32))
    ELSE uint64_pack(Shl(Word(id), 3, 64))

\* The wire type goes into the low bits of the tag's first byte.
Tagged(id, wire_type) ==
    LET tag == tag_pack(id)
    IN  <<tag[1] \cup Word(wire_type)>> \o Tail(tag)

-----------------------------------------------------------------------------
(* Parsing.  d is the rest of the input. *)

Ends(d, max) == {k \in 1..Len(d) : k <= max /\ 7 \notin d[k]}
Digits7(d, n, width) == UNION {Shl(d[k] \ {7}, 7 * (k - 1), width) : k \in 1..n}

parse_tag_and_wiretype(d) ==
    IF Ends(d, 5) = {} THEN [used |-> 0]
    ELSE LET n == Min(Ends(d, 5))
         IN  [used |-> n, tag |-> Val(Shr(Digits7(d, n, 35), 3)),
              wire_type |-> Val(Low(d[1], 3))]

\* hdr_len + val is a sum of 32 bits: of a length just below 2^32 it wraps, to
\* less than hdr_len.  missing is 2^32 - 1 - val.
PrefixedLen(hdr_len, val) ==
    LET missing == Bits(32) \ val
    IN  IF 31 \in val /\ Val(missing) < hdr_len THEN hdr_len - Val(missing) - 1
        ELSE hdr_len + Val(val)

\* len is 0 for an error; the prefix is counted in len.
scan_length_prefixed_data(d) ==
    IF Ends(d, 5) = {} THEN [len |-> 0, pref |-> 0]
    ELSE LET n == Min(Ends(d, 5))
             len == PrefixedLen(n, Digits7(d, n, 32))
         IN  [len |-> IF len > Len(d) THEN 0 ELSE len, pref |-> n]

max_b128_numbers(d) == Cardinality({k \in 1..Len(d) : 7 \notin d[k]})

parse_uint32(d) == Digits7(d, IF Len(d) < 5 THEN Len(d) ELSE 5, 32)

unzigzag32(v) == IF 0 \in v THEN Bits(32) \ Shr(v, 1) ELSE Shr(v, 1)

parse_fixed_uint32(d) == UNION {Shl(d[k], 8 * (k - 1), 32) : k \in 1..4}

\* Seeded bug: digits shifted as 32-bit words.
parse_uint64_Mutant(d) == Digits7(d, Len(d), 32)
parse_uint64(d) == IF Len(d) < 5 THEN parse_uint32(d) ELSE Digits7(d, Len(d), 64)

unzigzag64(v) == IF 0 \in v THEN Bits(64) \ Shr(v, 1) ELSE Shr(v, 1)

parse_fixed_uint64(d) == UNION {Shl(d[k], 8 * (k - 1), 64) : k \in 1..8}

parse_boolean(d) == IF \E k \in 1..Len(d) : d[k] \ {7} # {} THEN {0} ELSE {}

\* Seeded bug: an unterminated varint ends where the data end.
scan_varint_Cut(d) == IF Ends(d, 10) = {} THEN Len(d) ELSE Min(Ends(d, 10))
scan_varint(d) == IF Ends(d, 10) = {} THEN 0 ELSE Min(Ends(d, 10))
=============================================================================
