--------------------------- MODULE ProtobufBuffer ---------------------------
(***************************************************************************)
(* The allocator of protobuf-c and what is written through it to a growing *)
(* buffer (main/protobuf-c.c): ProtobufCBufferSimple and                   *)
(* protobuf_c_message_pack_to_buffer.                                      *)
(*                                                                         *)
(* A heap counts its allocations, of which number fail returns NULL, and   *)
(* knows the blocks that are live.  faults collects what C leaves          *)
(* undefined: a free of a block that is not live, an access past an end.   *)
(***************************************************************************)
EXTENDS ProtobufPack

\* Bytes a submessage's buffer has on the stack: 256.
CONSTANT SubBuffer

ASSUME SubBufferAssumption == SubBuffer \in Nat \ {0}

Faults == {"free of a block that is not live", "read past the buffer",
           "write past the array", "fields[-1]", "length below its prefix"}
\* n allocations were made; of their blocks, live are not freed.
Heaps == [n : Nat, fail : Nat, live : SUBSET (Nat \ {0}), faults : SUBSET Faults]
Heap(fail) == [n |-> 0, fail |-> fail, live |-> {}, faults |-> {}]
Fault(h, what) == [h EXCEPT !.faults = @ \cup {what}]

\* ptr is the number of the new block, 0 for NULL.
do_alloc(h) ==
    LET n == h.n + 1
    IN  IF n = h.fail THEN [ptr |-> 0, h |-> [h EXCEPT !.n = n]]
        ELSE [ptr |-> n, h |-> [h EXCEPT !.n = n, !.live = @ \cup {n}]]

do_free(h, blk) ==
    IF blk = 0 THEN h
    ELSE IF blk \in h.live THEN [h EXCEPT !.live = @ \ {blk}]
    ELSE Fault(h, "free of a block that is not live")

-----------------------------------------------------------------------------
(* ProtobufCBufferSimple.  A result carries rv, the buffer and the heap.   *)

Buffers == [data : Seq(Byte), alloced : Nat, blk : Nat]
Results == [rv : Nat, b : Buffers, h : Heaps]

\* blk 0 is an array of the caller's: must_free_data is blk # 0.
BufferSimple(size) == [data |-> <<>>, alloced |-> size, blk |-> 0]

\* The loop doubles alloced until there is room for len bytes.
doubled(alloced, len) ==
    LET twice[k \in 0..len] == IF k = 0 THEN alloced ELSE 2 * twice[k - 1]
        rounds == CHOOSE k \in 0..len :
                    twice[k] >= len /\ \A j \in 0..(k - 1) : twice[j] < len
    IN  twice[rounds]

Appended(b, data) == [b EXCEPT !.data = @ \o data]
\* The buffer after new is its memory, its heap, and what its old block becomes.
Grown(b, new, data, all) ==
    IF new.ptr = 0 THEN [b |-> b, h |-> new.h]
    ELSE [b |-> [data |-> all, blk |-> new.ptr,
                 alloced |-> doubled(2 * b.alloced, Len(b.data) + Len(data))],
          h |-> do_free(new.h, b.blk)]

\* Seeded bug: what the buffer held is not copied when it grows.
protobuf_c_buffer_simple_append_NoCopy(b, h, data) ==
    IF Len(b.data) + Len(data) <= b.alloced THEN [b |-> Appended(b, data), h |-> h]
    ELSE Grown(b, do_alloc(h), data, data)
\* Seeded bug: the block the buffer grew out of is not freed.
protobuf_c_buffer_simple_append_Leak(b, h, data) ==
    IF Len(b.data) + Len(data) <= b.alloced THEN [b |-> Appended(b, data), h |-> h]
    ELSE [Grown([b EXCEPT !.blk = 0], do_alloc(h), data, b.data \o data)
             EXCEPT !.b.blk = IF @ = 0 THEN b.blk ELSE @]
\* An append that cannot grow the buffer is dropped, and nobody is told.
protobuf_c_buffer_simple_append(b, h, data) ==
    IF Len(b.data) + Len(data) <= b.alloced THEN [b |-> Appended(b, data), h |-> h]
    ELSE Grown(b, do_alloc(h), data, b.data \o data)

\* r goes on with one more append, which rv counts, or with one for every item.
Put(r, data) ==
    LET a == protobuf_c_buffer_simple_append(r.b, r.h, data)
    IN  [rv |-> r.rv + Len(data), b |-> a.b, h |-> a.h]
PutAll(r, items) ==
    LET after[k \in 0..Len(items)] == IF k = 0 THEN r ELSE Put(after[k - 1], items[k])
    IN  after[Len(items)]

-----------------------------------------------------------------------------
(* Packing to a buffer.  to_buffer is the function on the submessages and  *)
(* on what they go on from.                                                *)

Started(b, h) == [rv |-> 0, b |-> b, h |-> h]

\* The submessage is packed to a buffer of its own, and sublen bytes of that
\* are appended, were they written there or not.
SentSub(field, r, s) ==
    LET h == IF s.rv <= Len(s.b.data) THEN s.h ELSE Fault(s.h, "read past the buffer")
        sub == [k \in 1..s.rv |-> IF k <= Len(s.b.data) THEN s.b.data[k] ELSE {}]
        length == Tagged(field.id, LENGTH_PREFIXED) \o uint32_pack(Word(s.rv))
    IN  [Put(Put([r EXCEPT !.h = h], length), sub) EXCEPT !.h = do_free(@, s.b.blk)]
submessage_pack_to_buffer(to_buffer, field, member, r) ==
    LET start == Started(BufferSimple(SubBuffer), r.h)
    IN  SentSub(field, r, IF member = NULL THEN start ELSE to_buffer[member[1]][start])

required_field_pack_to_buffer(to_buffer, field, member, r) ==
    LET text == Content(field.type, member)
    IN  IF field.type = "MESSAGE"
        THEN submessage_pack_to_buffer(to_buffer, field, member, r)
        ELSE IF field.type \in Text
        THEN Put(Put(r, Tagged(field.id, LENGTH_PREFIXED) \o uint32_pack(Word(Len(text)))),
                 text)
        ELSE Put(r, Tagged(field.id, wire_type_of(field.type))
                        \o scalar_pack(field.type, member))

oneof_field_pack_to_buffer(to_buffer, field, oneof_case, member, r) ==
    IF oneof_case # field.id \/ Unset(field, member) THEN r
    ELSE required_field_pack_to_buffer(to_buffer, field, member, r)

optional_field_pack_to_buffer(to_buffer, field, has, member, r) ==
    IF Absent(field, has, member) THEN r
    ELSE required_field_pack_to_buffer(to_buffer, field, member, r)

unlabeled_field_pack_to_buffer(to_buffer, field, member, r) ==
    IF field_is_zeroish(field, member) THEN r
    ELSE required_field_pack_to_buffer(to_buffer, field, member, r)

get_packed_payload_length(field, e) ==
    Total([k \in DOMAIN e |-> scalar_size(field.type, e[k])])

\* Values of fixed size go out in one append, the others one by one.
pack_buffer_packed_payload(field, e, r) ==
    LET bytes == [k \in DOMAIN e |-> scalar_pack(field.type, e[k])]
    IN  IF field.type \in Fixed32 \cup Fixed64 THEN Put(r, FlattenSeq(bytes))
        ELSE PutAll(r, bytes)

\* assert(tmp == payload_len)
Checked(before, payload_len, after) ==
    IF after.rv - before.rv = payload_len THEN after
    ELSE Assert(FALSE, "tmp == payload_len")
PackedToBuffer(field, e, payload_len, r) ==
    LET header == Tagged(field.id, LENGTH_PREFIXED) \o uint32_pack(Word(payload_len))
    IN  Checked([r EXCEPT !.rv = @ + Len(header)], payload_len,
                pack_buffer_packed_payload(field, e, Put(r, header)))
repeated_field_pack_to_buffer(to_buffer, field, count, member, r) ==
    LET e == Elements(count, member)
        each[k \in 0..count] ==
            IF k = 0 THEN r
            ELSE required_field_pack_to_buffer(to_buffer, field, e[k], each[k - 1])
    IN  IF count = 0 THEN r
        ELSE IF Packed(field)
        THEN PackedToBuffer(field, e, get_packed_payload_length(field, e), r)
        ELSE each[count]

unknown_field_pack_to_buffer(ufield, r) ==
    Put(Put(r, Tagged(ufield.tag, ufield.wire_type)), ufield.s)

field_pack_to_buffer(to_buffer, message, field, r) ==
    LET member == message[field.offset]
        quantifier == message[field.quantifier_offset]
    IN  CASE field.label = "REQUIRED" ->
                required_field_pack_to_buffer(to_buffer, field, member, r)
          [] field.label = "REPEATED" ->
                repeated_field_pack_to_buffer(to_buffer, field, quantifier, member, r)
          [] field.label \in {"OPTIONAL", "NONE"} /\ InOneof(field) ->
                oneof_field_pack_to_buffer(to_buffer, field, quantifier, member, r)
          [] field.label = "OPTIONAL" /\ ~InOneof(field) ->
                optional_field_pack_to_buffer(to_buffer, field, quantifier, member, r)
          [] field.label = "NONE" /\ ~InOneof(field) ->
                unlabeled_field_pack_to_buffer(to_buffer, field, member, r)

\* Field after field, then the unknown ones.
message_pack_to_buffer(to_buffer, message, r) ==
    LET fields == Descriptors[message.descriptor].fields
        known[k \in 0..Len(fields)] ==
            IF k = 0 THEN r
            ELSE field_pack_to_buffer(to_buffer, message, fields[k], known[k - 1])
        all[k \in 0..Len(message.unknown)] ==
            IF k = 0 THEN known[Len(fields)]
            ELSE unknown_field_pack_to_buffer(message.unknown[k], all[k - 1])
    IN  all[Len(message.unknown)]

protobuf_c_message_pack_to_buffer(message, b, h) ==
    LET to_buffer[n \in 0..MaxNesting] ==
            [m \in Nested(message)[MaxNesting - n] |->
                [r \in Results |->
                    message_pack_to_buffer(IF n = 0 THEN <<>> ELSE to_buffer[n - 1], m, r)]]
    IN  to_buffer[MaxNesting][message][Started(b, h)]
=============================================================================
