---------------------------- MODULE ProtobufPack ----------------------------
(***************************************************************************)
(* How protobuf-c measures and writes a message (main/protobuf-c.c): its   *)
(* size, its bytes in one piece, and its bytes appended to a buffer.       *)
(*                                                                         *)
(* A message is a function from the slots of the C structure to values: a  *)
(* scalar is a set of bits, a has_ flag a Boolean, a oneof case a field    *)
(* number, a string, bytes or a message a pointer, and a repeated field a  *)
(* pointer to an array, with its length in the quantifier's slot.  blk is  *)
(* the number of the heap block an object lies in, 0 for an object of the  *)
(* program and -1 for a default value.                                     *)
(***************************************************************************)
EXTENDS ProtobufWire, ProtobufDescriptor

CONSTANTS Descriptors, \* the descriptor of every message type
          MaxNesting   \* bound: how deep a message that is packed nests

ASSUME NestingAssumption == MaxNesting \in Nat

Fixed32 == {"SFIXED32", "FIXED32", "FLOAT"}
Fixed64 == {"SFIXED64", "FIXED64", "DOUBLE"}
Text == {"STRING", "BYTES"}

Packed(field) == "PACKED" \in field.flags
\* What a loop over s that adds up has at its end.
Total(s) ==
    LET total[k \in 0..Len(s)] == IF k = 0 THEN 0 ELSE total[k - 1] + s[k]
    IN  total[Len(s)]

\* An array and the prefix of it a count stands for.
Array(blk, cap, e) == [blk |-> blk, cap |-> cap, e |-> e]
Elements(count, array) == [k \in 1..count |-> array[1].e[k]]

\* The bytes of a C string end before its first NUL.
strlen(s) == IF \E k \in DOMAIN s : s[k] = {}
             THEN Min({k \in DOMAIN s : s[k] = {}}) - 1 ELSE Len(s)
Content(type, p) ==
    IF p = NULL THEN <<>>
    ELSE IF type = "STRING" THEN SubSeq(p[1].s, 1, strlen(p[1].s)) ELSE p[1].s

\* A message or a string that is NULL, or is the default value itself.
Unset(field, member) ==
    /\ field.type \in {"MESSAGE", "STRING"}
    /\ member = NULL \/ member = field.default_value
\* has is only read of a field that is no pointer.
Absent(field, has, member) ==
    IF field.type \in {"MESSAGE", "STRING"} THEN Unset(field, member) ELSE ~has

\* A float is compared with 0 as a float: -0.0, the sign bit alone, equals it.
field_is_zeroish(field, member) ==
    CASE field.type = "FLOAT" -> member \subseteq {31}
      [] field.type = "DOUBLE" -> member \subseteq {63}
      [] field.type = "STRING" -> strlen(Content("STRING", member)) = 0
      [] field.type \in {"BYTES", "MESSAGE"} -> member = NULL
      [] OTHER -> member = {}

-----------------------------------------------------------------------------
(* The values of one field that a message holds, in its slot or its array, *)
(* and the messages it points to.  A function that calls itself for these  *)
(* is here a function on the messages so far below the first, made from    *)
(* the one on the messages below those: what it returns for them is a      *)
(* parameter.                                                              *)

Held(message, field) ==
    LET member == message[field.offset]
        quantifier == message[field.quantifier_offset]
    IN  IF field.label = "REPEATED" THEN Elements(quantifier, member)
        ELSE IF field.label # "REQUIRED" /\ InOneof(field) /\ quantifier # field.id THEN <<>>
        ELSE <<member>>

Submessages(message) ==
    LET fields == Descriptors[message.descriptor].fields
        of(f) == IF fields[f].type = "MESSAGE" THEN ToSet(Held(message, fields[f])) ELSE {}
    IN  {p[1] : p \in (UNION {of(f) : f \in DOMAIN fields}) \ {NULL}}

\* The messages at every depth from 0 to MaxNesting below a message.
Nested(message) ==
    LET level[k \in 0..MaxNesting] ==
            IF k = 0 THEN {message} ELSE UNION {Submessages(m) : m \in level[k - 1]}
    IN  level

\* What a field of a type may hold, in a structure in C.
IsValue(type, v) ==
    CASE type \in {"ENUM", "INT32", "SINT32", "UINT32"} \cup Fixed32 -> v \in SUBSET Bits(32)
      [] type \in {"INT64", "SINT64", "UINT64"} \cup Fixed64 -> v \in SUBSET Bits(64)
      [] type = "BOOL" -> v \in SUBSET Bits(1)
      [] type \in Text -> v = NULL \/ v[1].s \in Seq(Byte)
      [] type = "MESSAGE" -> TRUE

\* bound: values in a repeated field, of ten bytes or less, for the size of the
\* field to stay below 2^31.
MaxCount == 2^27
\* The numbers a tag has room for.
FieldNumbers == 1..(2^29 - 1)
UnknownFields == [tag : FieldNumbers, wire_type : 0..5, blk : Nat, s : Seq(Byte)]
IsField(field) ==
    /\ field.id \in FieldNumbers /\ field.type \in Types /\ field.label \in Labels
    /\ Packed(field) => field.type \notin Text \cup {"MESSAGE"}
IsMessage(message) ==
    /\ message.descriptor \in DOMAIN Descriptors
    /\ message.unknown \in Seq(UnknownFields)
    /\ \A f \in DOMAIN Descriptors[message.descriptor].fields :
          LET field == Descriptors[message.descriptor].fields[f]
              held == Held(message, field)
          IN  /\ field.label = "REPEATED" => message[field.quantifier_offset] \in 0..MaxCount
              /\ \A k \in DOMAIN held : IsValue(field.type, held[k])

-----------------------------------------------------------------------------
(* Sizes.  packed_size is the function on the submessages. *)

scalar_size(type, v) ==
    CASE type = "SINT32" -> sint32_size(v)
      [] type \in {"ENUM", "INT32"} -> int32_size(v)
      [] type = "UINT32" -> uint32_size(v)
      [] type = "SINT64" -> sint64_size(v)
      [] type \in {"INT64", "UINT64"} -> uint64_size(v)
      [] type \in Fixed32 -> 4
      [] type \in Fixed64 -> 8
      [] type = "BOOL" -> 1

payload_size(packed_size, type, member) ==
    LET prefixed(len) == uint32_size(Word(len)) + len
    IN  CASE type \in Text -> prefixed(Len(Content(type, member)))
          [] type = "MESSAGE" ->
                prefixed(IF member = NULL THEN 0 ELSE packed_size[member[1]])
          [] OTHER -> scalar_size(type, member)

required_field_get_packed_size(packed_size, field, member) ==
    get_tag_size(field.id) + payload_size(packed_size, field.type, member)

oneof_field_get_packed_size(packed_size, field, oneof_case, member) ==
    IF oneof_case # field.id \/ Unset(field, member) THEN 0
    ELSE required_field_get_packed_size(packed_size, field, member)

optional_field_get_packed_size(packed_size, field, has, member) ==
    IF Absent(field, has, member) THEN 0
    ELSE required_field_get_packed_size(packed_size, field, member)

unlabeled_field_get_packed_size(packed_size, field, member) ==
    IF field_is_zeroish(field, member) THEN 0
    ELSE required_field_get_packed_size(packed_size, field, member)

repeated_field_get_packed_size(packed_size, field, count, member) ==
    LET e == Elements(count, member)
        rv == Total([k \in DOMAIN e |-> payload_size(packed_size, field.type, e[k])])
        header_size == get_tag_size(field.id)
    IN  IF count = 0 THEN 0
        ELSE IF Packed(field) THEN header_size + uint32_size(Word(rv)) + rv
        ELSE header_size * count + rv

unknown_field_get_packed_size(ufield) == get_tag_size(ufield.tag) + Len(ufield.s)

field_get_packed_size(packed_size, message, field) ==
    LET member == message[field.offset]
        quantifier == message[field.quantifier_offset]
    IN  CASE field.label = "REQUIRED" ->
                required_field_get_packed_size(packed_size, field, member)
          [] field.label = "REPEATED" ->
                repeated_field_get_packed_size(packed_size, field, quantifier, member)
          [] field.label \in {"OPTIONAL", "NONE"} /\ InOneof(field) ->
                oneof_field_get_packed_size(packed_size, field, quantifier, member)
          [] field.label = "OPTIONAL" /\ ~InOneof(field) ->
                optional_field_get_packed_size(packed_size, field, quantifier, member)
          [] field.label = "NONE" /\ ~InOneof(field) ->
                unlabeled_field_get_packed_size(packed_size, field, member)

message_get_packed_size(packed_size, message) ==
    LET fields == Descriptors[message.descriptor].fields
    IN  Total([f \in DOMAIN fields |->
                  field_get_packed_size(packed_size, message, fields[f])])
        + Total([f \in DOMAIN message.unknown |->
                    unknown_field_get_packed_size(message.unknown[f])])

protobuf_c_message_get_packed_size(message) ==
    LET packed_size[n \in 0..MaxNesting] ==
            [m \in Nested(message)[MaxNesting - n] |->
                message_get_packed_size(IF n = 0 THEN <<>> ELSE packed_size[n - 1], m)]
    IN  packed_size[MaxNesting][message]

-----------------------------------------------------------------------------
(* Packing in one piece.  packed is the function on the submessages. *)

wire_type_of(type) ==
    IF type \in Text \cup {"MESSAGE"} THEN LENGTH_PREFIXED
    ELSE IF type \in Fixed32 THEN FIXED_32BIT
    ELSE IF type \in Fixed64 THEN FIXED_64BIT ELSE VARINT

scalar_pack(type, v) ==
    CASE type = "SINT32" -> sint32_pack(v)
      [] type \in {"ENUM", "INT32"} -> int32_pack(v)
      [] type = "UINT32" -> uint32_pack(v)
      [] type = "SINT64" -> sint64_pack(v)
      [] type \in {"INT64", "UINT64"} -> uint64_pack(v)
      [] type \in Fixed32 -> fixed32_pack(v)
      [] type \in Fixed64 -> fixed64_pack(v)
      [] type = "BOOL" -> boolean_pack(v)

required_field_pack(packed, field, member) ==
    Tagged(field.id, wire_type_of(field.type)) \o
    CASE field.type \in Text -> Prefixed(Content(field.type, member))
      [] field.type = "MESSAGE" ->
            Prefixed(IF member = NULL THEN <<>> ELSE packed[member[1]])
      [] OTHER -> scalar_pack(field.type, member)

oneof_field_pack(packed, field, oneof_case, member) ==
    IF oneof_case # field.id \/ Unset(field, member) THEN <<>>
    ELSE required_field_pack(packed, field, member)

optional_field_pack(packed, field, has, member) ==
    IF Absent(field, has, member) THEN <<>> ELSE required_field_pack(packed, field, member)

unlabeled_field_pack(packed, field, member) ==
    IF field_is_zeroish(field, member) THEN <<>> ELSE required_field_pack(packed, field, member)

get_type_min_size(type) ==
    IF type \in Fixed32 THEN 4 ELSE IF type \in Fixed64 THEN 8 ELSE 1

\* The payload is written after the shortest length there may be and moved by
\* one byte when its length turns out to need one more.
PackedPayload(field, e) ==
    LET payload == FlattenSeq([k \in DOMAIN e |-> scalar_pack(field.type, e[k])])
        length_size_min == uint32_size(Word(get_type_min_size(field.type) * Len(e)))
        actual_length_size == uint32_size(Word(Len(payload)))
    IN  IF actual_length_size \in length_size_min..(length_size_min + 1)
        THEN Prefixed(payload)
        ELSE Assert(FALSE, "actual_length_size == length_size_min + 1")

repeated_field_pack(packed, field, count, member) ==
    LET e == Elements(count, member)
    IN  IF count = 0 THEN <<>>
        ELSE IF Packed(field)
        THEN Tagged(field.id, LENGTH_PREFIXED) \o PackedPayload(field, e)
        ELSE FlattenSeq([k \in DOMAIN e |-> required_field_pack(packed, field, e[k])])

\* Seeded bug: the wire type is not put into the tag.
unknown_field_pack_Mutant(ufield) == tag_pack(ufield.tag) \o ufield.s
unknown_field_pack(ufield) == Tagged(ufield.tag, ufield.wire_type) \o ufield.s

field_pack(packed, message, field) ==
    LET member == message[field.offset]
        quantifier == message[field.quantifier_offset]
    IN  CASE field.label = "REQUIRED" -> required_field_pack(packed, field, member)
          [] field.label = "REPEATED" ->
                repeated_field_pack(packed, field, quantifier, member)
          [] field.label \in {"OPTIONAL", "NONE"} /\ InOneof(field) ->
                oneof_field_pack(packed, field, quantifier, member)
          [] field.label = "OPTIONAL" /\ ~InOneof(field) ->
                optional_field_pack(packed, field, quantifier, member)
          [] field.label = "NONE" /\ ~InOneof(field) ->
                unlabeled_field_pack(packed, field, member)

message_pack(packed, message) ==
    LET fields == Descriptors[message.descriptor].fields
    IN  FlattenSeq([f \in DOMAIN fields |-> field_pack(packed, message, fields[f])])
        \o FlattenSeq([f \in DOMAIN message.unknown |->
                          unknown_field_pack(message.unknown[f])])

protobuf_c_message_pack(message) ==
    LET packed[n \in 0..MaxNesting] ==
            [m \in Nested(message)[MaxNesting - n] |->
                message_pack(IF n = 0 THEN <<>> ELSE packed[n - 1], m)]
    IN  packed[MaxNesting][message]
=============================================================================
