---------------------------- MODULE ProtobufCodec ----------------------------
(***************************************************************************)
(* A sender and a receiver of protobuf-c messages.  The sender packs one   *)
(* message, or several of a type one after the other, or packs one to a    *)
(* growing buffer; the receiver gets all the bytes or the first of them,   *)
(* unpacks, and frees what it got.  Any one allocation may fail.           *)
(***************************************************************************)
EXTENDS ProtobufUnpack

CONSTANTS Samples,    \* the messages the sender packs
          Readers(_), \* for a type, the types its bytes are unpacked as
          Enums,      \* the enumerations of the schemas
          MaxJoined,  \* bound: messages packed one after the other
          MaxFail,    \* bound: the number of the allocation that fails
          BufferSize  \* bytes the sender's buffer has at first

\* The tables are as the generator makes them.
TableOf(desc) ==
    LET column == [k \in DOMAIN desc.fields |-> desc.fields[k].name]
    IN  /\ IsTable(desc.fields) /\ \A k \in DOMAIN desc.fields : IsField(desc.fields[k])
        /\ Ranges(desc.field_ranges, [k \in DOMAIN desc.fields |-> desc.fields[k].id])
        /\ desc.fields_sorted_by_name # NULL =>
              /\ SortedIndex(desc.fields_sorted_by_name, column)
              /\ Len(desc.fields_sorted_by_name) = Len(desc.fields)
EnumOf(enum) ==
    /\ IsTable(enum.values)
    /\ Ranges(enum.value_ranges, [k \in DOMAIN enum.values |-> enum.values[k].value])
    /\ SortedIndex(enum.values_by_name, [k \in DOMAIN enum.values |-> enum.values[k].name])
ASSUME TablesAssumption ==
    /\ Names \in Seq(STRING)
    /\ \A i, j \in DOMAIN Names : Names[i] = Names[j] => i = j
    /\ \A t \in DOMAIN Descriptors : TableOf(Descriptors[t])
    /\ \A t \in DOMAIN Enums : EnumOf(Enums[t])

\* What is packed is a message of its type, and so is all below it, which ends.
ASSUME SamplesAssumption ==
    \A m \in Samples :
        /\ \A n \in 0..MaxNesting : \A x \in Nested(m)[n] : IsMessage(x)
        /\ \A x \in Nested(m)[MaxNesting] : Submessages(x) = {}

ASSUME ReadersAssumption ==
    \A t \in DOMAIN Descriptors : Readers(t) \subseteq DOMAIN Descriptors
ASSUME BoundsAssumption ==
    MaxJoined \in Nat /\ MaxFail \in Nat /\ BufferSize \in Nat \ {0}

VARIABLES stage,  \* "sending", "received", "unpacked", "buffered"
          sent,   \* the messages packed so far
          wire,   \* the bytes packed so far, then the bytes received
          whole,  \* all the bytes were received
          out,    \* what packing to a buffer returned, the buffer and its heap
          heap,   \* the receiver's heap
          got     \* what unpacking returned

vars == <<stage, sent, wire, whole, out, heap, got>>

NoOutput == [rv |-> 0, b |-> BufferSimple(BufferSize), h |-> Heap(0)]

Init ==
    /\ stage = "sending"
    /\ sent = <<>>
    /\ wire = <<>>
    /\ whole = TRUE
    /\ out = NoOutput
    /\ heap = Heap(0)
    /\ got = NULL

SameType(m) == sent # <<>> => m.descriptor = sent[1].descriptor

PackMessage(m) ==
    /\ stage = "sending" /\ Len(sent) < MaxJoined /\ SameType(m)
    /\ sent' = Append(sent, m)
    /\ wire' = wire \o protobuf_c_message_pack(m)
    /\ UNCHANGED <<stage, whole, out, heap, got>>

PackToBuffer(m, fail) ==
    /\ stage = "sending" /\ sent = <<>>
    /\ sent' = <<m>>
    /\ out' = protobuf_c_message_pack_to_buffer(m, BufferSimple(BufferSize), Heap(fail))
    /\ fail <= out'.h.n    \* a failure that happens, or 0
    /\ stage' = "buffered"
    /\ UNCHANGED <<wire, whole, heap, got>>

\* PROTOBUF_C_BUFFER_SIMPLE_CLEAR.
ClearBuffer ==
    /\ stage = "buffered"
    /\ stage' = "sending"
    /\ sent' = <<>>
    /\ out' = [NoOutput EXCEPT !.h = [do_free(out.h, out.b.blk) EXCEPT !.n = 0, !.fail = 0]]
    /\ UNCHANGED <<wire, whole, heap, got>>

Receive(k) ==
    /\ stage = "sending" /\ sent # <<>>
    /\ k = Len(wire) \/ Len(sent) = 1
    /\ whole' = (k = Len(wire))
    /\ wire' = SubSeq(wire, 1, k)
    /\ stage' = "received"
    /\ UNCHANGED <<sent, out, heap, got>>

Unpack(type, fail) ==
    /\ stage = "received"
    /\ \E u \in {protobuf_c_message_unpack(type, [heap EXCEPT !.fail = fail], wire)} :
          fail <= u.h.n /\ got' = u.rv /\ heap' = u.h
    /\ stage' = "unpacked"
    /\ UNCHANGED <<sent, wire, whole, out>>

FreeUnpacked ==
    /\ stage = "unpacked"
    /\ heap' = [IF got = NULL THEN heap ELSE protobuf_c_message_free_unpacked(got[1], heap)
                   EXCEPT !.n = 0, !.fail = 0]
    /\ got' = NULL
    /\ stage' = "sending"
    /\ sent' = <<>> /\ wire' = <<>> /\ whole' = TRUE
    /\ UNCHANGED out

Next ==
    \/ \E m \in Samples :
          PackMessage(m) \/ \E fail \in 0..MaxFail : PackToBuffer(m, fail)
    \/ ClearBuffer
    \/ \E k \in 0..Len(wire) : Receive(k)
    \/ stage = "received" /\ \E type \in Readers(sent[1].descriptor), fail \in 0..MaxFail :
            Unpack(type, fail)
    \/ FreeUnpacked

Spec == Init /\ [][Next]_vars

-----------------------------------------------------------------------------
(* Properties.  Those of what arrives are in ProtobufReceived. *)

Failed(h) == h.fail # 0 /\ h.n >= h.fail

\* A failed allocation is never survived by a message with a part missing
\* (protobuf_c_message_unpack returns NULL then).
NoPartOnFailure == stage = "unpacked" /\ Failed(heap) => got = NULL

\* A message and all below it.
Within(m) == UNION {Nested(m)[n] : n \in 0..MaxNesting}

\* The blocks a message has itself: those of its unknown fields, their array and
\* its own, 0 for none; those of its arrays; and those of its texts, but for the
\* defaults, which are not on the heap.
OwnBlocks(m) ==
    [k \in DOMAIN m.unknown |-> m.unknown[k].blk] \o m.unknown_fields \o <<m.blk>>
ArrayBlock(m, f) ==
    IF f.label = "REPEATED" /\ m[f.offset] # NULL THEN {m[f.offset][1].blk} ELSE {}
BlockOfText(f, p) ==
    IF f.type \in Text /\ p # NULL /\ (f.label = "REPEATED" \/ p # f.default_value)
    THEN {p[1].blk} ELSE {}
BlocksAlone(m) ==
    LET fields == Descriptors[m.descriptor].fields
        of(f) == ArrayBlock(m, f) \cup UNION {BlockOfText(f, p) : p \in ToSet(Held(m, f))}
    IN  (ToSet(OwnBlocks(m)) \ {0}) \cup UNION {of(fields[i]) : i \in DOMAIN fields}

\* The blocks of a message with all below it, and those of one of its fields.
Blocks(m) == UNION {BlocksAlone(x) : x \in Within(m)}
ValueBlocks(f, p) ==
    IF f.type # "MESSAGE" THEN BlockOfText(f, p)
    ELSE IF p = NULL THEN {} ELSE Blocks(p[1])
FieldBlocks(m, f) ==
    ArrayBlock(m, f) \cup UNION {ValueBlocks(f, p) : p \in ToSet(Held(m, f))}

\* No two places of a message share a block, and where it has elements it has
\* their array.
Separate(m) ==
    LET own == OwnBlocks(m)
        fields == Descriptors[m.descriptor].fields
        of(i) == FieldBlocks(m, fields[i])
        held(i) == Held(m, fields[i])
        value(i, k) == ValueBlocks(fields[i], held(i)[k])
    IN  /\ \A i, j \in DOMAIN own : i # j /\ own[i] = own[j] => own[i] = 0
        /\ \A i \in DOMAIN fields :
              /\ fields[i].label = "REPEATED" /\ m[fields[i].offset] = NULL =>
                    m[fields[i].quantifier_offset] = 0
              /\ of(i) \cap (ToSet(own) \ {0}) = {}
              /\ \A j \in DOMAIN fields : i # j => of(i) \cap of(j) = {}
              /\ \A k \in DOMAIN held(i) :
                    /\ value(i, k) \cap ArrayBlock(m, fields[i]) = {}
                    /\ \A l \in DOMAIN held(i) : k # l => value(i, k) \cap value(i, l) = {}

\* The blocks of the heap are those of the message the receiver holds, each in
\* one place only, and none when it holds none; nothing was freed twice, and
\* nothing was written past an array (the cleanup paths of
\* protobuf_c_message_unpack, merging and protobuf_c_message_free_unpacked).
HeapOwned ==
    /\ heap.faults = {}
    /\ heap.live = (IF got = NULL THEN {} ELSE Blocks(got[1]))
    /\ got # NULL => \A x \in Within(got[1]) : Separate(x)

\* protobuf_c_message_get_packed_size, by which callers size the array they
\* pack to, is the number of bytes protobuf_c_message_pack writes there.
SizeExact ==
    stage = "sending" =>
        Total([k \in DOMAIN sent |-> protobuf_c_message_get_packed_size(sent[k])]) = Len(wire)

\* Packing to a buffer that never failed to grow gives the bytes of packing in
\* one piece, however often the buffer and those of the submessages grew, and
\* leaves no block but the buffer's.
BufferSame ==
    stage = "buffered" /\ ~Failed(out.h) =>
        /\ out.b.data = protobuf_c_message_pack(sent[1])
        /\ out.rv = Len(out.b.data)
        /\ Len(out.b.data) <= out.b.alloced
        /\ out.h.faults = {}
\* Whether an append failed or not, no block but the buffer's is left.
BufferOwned ==
    out.h.live = (IF out.b.blk = 0 THEN {} ELSE {out.b.blk})

\* The numbers in use and those next to them.
Near(numbers) == UNION {(n - 1)..(n + 1) : n \in numbers}
\* What a look through all rows finds, those in S being right.
Only(rows, S) == IF S = {} THEN NULL ELSE <<rows[CHOOSE k \in S : TRUE]>>

FieldsFound(desc) ==
    LET all == DOMAIN desc.fields
    IN  /\ \A n \in Near({desc.fields[k].id : k \in all}) :
              get_field(desc, n) = Only(desc.fields, {k \in all : desc.fields[k].id = n})
        /\ desc.fields_sorted_by_name # NULL =>
           \A s \in ToSet(Names) :
              get_field_by_name(desc, s) =
                  Only(desc.fields, {k \in all : desc.fields[k].name = s})
ValuesFound(e) ==
    LET all == DOMAIN e.values
    IN  /\ \A n \in Near({e.values[k].value : k \in all}) :
              get_value(e, n) = Only(e.values, {k \in all : e.values[k].value = n})
        /\ \A s \in ToSet(Names) :
              get_value_by_name(e, s) = Only(e.values, {k \in all : e.values[k].name = s})

\* The binary searches over the generated tables find what a look through all
\* fields finds, by number and by name, and nothing else.
LookupsAgree ==
    stage = "sending" /\ Len(sent) = 1 =>
        /\ FieldsFound(Descriptors[sent[1].descriptor])
        /\ \A t \in DOMAIN Enums : ValuesFound(Enums[t])

=============================================================================
