-------------------------- MODULE ProtobufReceived --------------------------
(***************************************************************************)
(* What ProtobufUnpack makes of the bytes ProtobufCodec hands it.          *)
(***************************************************************************)
EXTENDS ProtobufCodec, TLC

-----------------------------------------------------------------------------
(* Reference definitions, from what the encoding promises and not from the *)
(* code: what arrives of a message, and what two messages together mean.   *)

\* Whether the sender's field is on the wire at all.
Present(m, field) ==
    LET member == m[field.offset]
        quantifier == m[field.quantifier_offset]
    IN  IF field.label = "REQUIRED" THEN TRUE
        ELSE IF field.label = "REPEATED" THEN quantifier > 0
        ELSE IF InOneof(field) THEN quantifier = field.id /\ ~Unset(field, member)
        ELSE IF field.label = "OPTIONAL" THEN ~Absent(field, quantifier, member)
        ELSE ~field_is_zeroish(field, member)

\* A message without its blocks: texts as bytes, arrays as sequences, and of
\* all fields, by name, only those that are present.
RECURSIVE Plain(_)
PlainValue(field, v) ==
    IF field.type = "MESSAGE" THEN Plain(v[1])
    ELSE IF field.type \in Text THEN Content(field.type, v) ELSE v
Plain(m) ==
    LET fields == SelectSeq(Descriptors[m.descriptor].fields, LAMBDA f : Present(m, f))
        value(f) ==
            IF f.label = "REPEATED"
            THEN [k \in 1..m[f.quantifier_offset] |-> PlainValue(f, m[f.offset][1].e[k])]
            ELSE PlainValue(f, m[f.offset])
    IN  FoldLeft(LAMBDA p, f : f.name :> value(f) @@ p, <<>>, fields)

\* Two plain messages of a type, the second sent after the first.
RECURSIVE Joined(_, _, _)
Joined(type, a, b) ==
    LET fields == Descriptors[type].fields
        members(oneof) == {fields[k].name : k \in {j \in DOMAIN fields :
                                InOneof(fields[j]) /\ fields[j].offset = oneof}}
        replaced == UNION {members(fields[k].offset) : k \in {j \in DOMAIN fields :
                                InOneof(fields[j]) /\ fields[j].name \in DOMAIN b}}
        value(f) ==
            IF f.name \notin DOMAIN b THEN a[f.name]
            ELSE IF f.name \notin DOMAIN a THEN b[f.name]
            ELSE IF f.label = "REPEATED" THEN a[f.name] \o b[f.name]
            ELSE IF f.type = "MESSAGE" /\ ~InOneof(f)
            THEN Joined(f.descriptor, a[f.name], b[f.name])
            ELSE b[f.name]
        names == ((DOMAIN a) \ replaced) \cup DOMAIN b
    IN  FoldLeft(LAMBDA p, f : IF f.name \in names THEN f.name :> value(f) @@ p ELSE p,
                 <<>>, fields)

\* The types whose embedded messages have a has_ flag for every scalar.
RECURSIVE Flagged(_, _)
Flagged(type, embedded) ==
    \A k \in DOMAIN Descriptors[type].fields :
        LET f == Descriptors[type].fields[k]
        IN  /\ embedded => f.type \in Pointer \/ f.label # "NONE"
            /\ f.type = "MESSAGE" /\ f.descriptor # type => Flagged(f.descriptor, TRUE)

RECURSIVE OneofsOfMessages(_)
OneofsOfMessages(type) ==
    \A k \in DOMAIN Descriptors[type].fields :
        LET f == Descriptors[type].fields[k]
        IN  /\ InOneof(f) => f.type = "MESSAGE"
            /\ f.type = "MESSAGE" /\ f.descriptor # type => OneofsOfMessages(f.descriptor)

-----------------------------------------------------------------------------
(* Properties. *)

\* What was packed whole is never refused, and to a receiver of the same schema
\* it arrives: field by field what the sender had set.
Arrives ==
    stage = "unpacked" /\ whole /\ ~Failed(heap) =>
        /\ got # NULL
        /\ Len(sent) = 1 /\ got[1].descriptor = sent[1].descriptor =>
               Plain(got[1]) = Plain(sent[1])

\* Of a message cut short the receiver accepts only what is whole: packed
\* again, it is the very bytes that were received.
CutIsExact ==
    stage = "unpacked" /\ got # NULL /\ Len(sent) = 1
    /\ got[1].descriptor = sent[1].descriptor
        => protobuf_c_message_pack(got[1]) = wire

\* A receiver with an older schema passes on the fields it does not know: what
\* it packs again still means the same to a receiver with the newer one.
UnknownPassesOn ==
    stage = "unpacked" /\ got # NULL /\ whole /\ Len(sent) = 1
    /\ got[1].descriptor # sent[1].descriptor
        => \E again \in {protobuf_c_message_unpack(sent[1].descriptor, Heap(0),
                                                   protobuf_c_message_pack(got[1]))} :
              again.rv # NULL /\ Plain(again.rv[1]) = Plain(sent[1])

Joins == stage = "unpacked" /\ got # NULL /\ Len(sent) = 2
            /\ got[1].descriptor = sent[1].descriptor
            => Plain(got[1]) = Joined(sent[1].descriptor, Plain(sent[1]), Plain(sent[2]))

\* Two messages one after the other mean what the comment of merge_messages
\* says, in every type whose embedded scalars have has_ flags.
JoinedFlagged == sent # <<>> /\ Flagged(sent[1].descriptor, FALSE) => Joins

\* The same in every type: "all singular scalar fields in the latter instance
\* replace those in the former, singular embedded messages are merged"
\* (main/protobuf-c.c:2148).
JoinedAll == Joins

\* What was unpacked can be packed: it passes protobuf_c_message_check.  That
\* function reads a oneof as if every member of it were there, which is right
\* only where all are messages, as in the firmware.
UnpackedChecks ==
    stage = "unpacked" /\ got # NULL /\ OneofsOfMessages(got[1].descriptor)
        => protobuf_c_message_check(got[1])

\* A generated initialiser sets what message_init_generic sets from the
\* descriptor: the .h and the .c of the generated code agree.
InitsAgree ==
    stage = "sending" /\ Len(sent) = 1 /\ Functions[sent[1].descriptor] # NULL =>
        protobuf_c_message_init(sent[1].descriptor)
            = message_init_generic(sent[1].descriptor)
=============================================================================
