--------------------------- MODULE ProtobufUnpack ---------------------------
(***************************************************************************)
(* How protobuf-c reads a message (main/protobuf-c.c): a scan of the       *)
(* input, the allocation of the arrays it counted, the parse of every      *)
(* member, the merge of submessages given twice, and what frees it all.    *)
(* An operator that may allocate takes the heap and returns it in h; ok is *)
(* FALSE where the code returns FALSE.                                     *)
(***************************************************************************)
EXTENDS ProtobufBuffer

\* What the generated code gives for a type: Generated(...).  message_init is
\* NULL in a descriptor no code was generated for.
CONSTANT Functions
\* Bytes of the bitmap of required fields that lies on the stack: 16.
CONSTANT BitmapStack

Pointer == {"STRING", "BYTES", "MESSAGE"}
\* Memory that was zeroed.  A oneof that is not set holds nothing of any type.
Zero(field) ==
    IF field.label = "REPEATED" \/ field.type \in Pointer \/ InOneof(field) THEN NULL ELSE {}

\* What lies at the quantifier's offset, in the code's words: 0 is not set.
IsSet(message, field) ==
    IF field.quantifier_offset = "descriptor" THEN TRUE
    ELSE IF InOneof(field) THEN message[field.quantifier_offset] # 0
    ELSE message[field.quantifier_offset]
\* Seeded bug: a has_ flag starts as set.
ZeroQuantifier_Mutant(field) ==
    IF field.label = "REPEATED" \/ InOneof(field) THEN 0 ELSE TRUE
ZeroQuantifier(field) ==
    IF field.label = "REPEATED" \/ InOneof(field) THEN 0 ELSE FALSE

\* memset: the slots of all fields, the members of a oneof sharing one.
zeroed(fields) ==
    LET offsets == {fields[k].offset : k \in DOMAIN fields}
        quantifiers == {fields[k].quantifier_offset : k \in DOMAIN fields} \ {"descriptor"}
        at(slot) == fields[CHOOSE k \in DOMAIN fields :
                              slot \in {fields[k].offset, fields[k].quantifier_offset}]
    IN  [slot \in offsets \cup quantifiers |->
            IF slot \in offsets THEN Zero(at(slot)) ELSE ZeroQuantifier(at(slot))]
init_default(message, field) ==
    IF field.default_value = NULL \/ field.label = "REPEATED" THEN message
    ELSE [message EXCEPT ![field.offset] =
            IF field.type \in Pointer THEN field.default_value ELSE field.default_value[1]]
message_init_fields(type, fields) ==
    LET set[k \in 0..Len(fields)] ==
            IF k = 0 THEN InitValue(type, zeroed(fields))
            ELSE init_default(set[k - 1], fields[k])
    IN  set[Len(fields)]
message_init_generic(type) == message_init_fields(type, Descriptors[type].fields)

protobuf_c_message_init(type) == Functions[type][1].init_value

\* A structure in C: its fields have memory of their own, but for the members of
\* a oneof, which share theirs and their case.
Header == {"descriptor", "blk", "unknown_fields", "unknown"}
Apart(f, g) ==
    /\ f.offset # g.quantifier_offset
    /\ f.offset = g.offset <=> InOneof(f) /\ f.quantifier_offset = g.quantifier_offset
    /\ f.quantifier_offset = g.quantifier_offset =>
          f.quantifier_offset = "descriptor" \/ InOneof(f)
Structured(fields) ==
    /\ \A i, j \in DOMAIN fields : i # j => Apart(fields[i], fields[j])
    /\ \A i \in DOMAIN fields :
          LET f == fields[i]
          IN  /\ f.offset \notin Header \cup {f.quantifier_offset}
              /\ f.quantifier_offset \notin Header \ {"descriptor"}
              /\ f.label = "REPEATED" \/ InOneof(f) => f.quantifier_offset # "descriptor"
              /\ InOneof(f) => f.label \in {"OPTIONAL", "NONE"}
              /\ f.type = "MESSAGE" => f.descriptor \in DOMAIN Descriptors
              /\ f.type = "MESSAGE" \/ InOneof(f) => f.default_value = NULL
\* What an initialiser leaves: no element, no member of a oneof, no submessage.
Fresh(type, message) ==
    /\ message.descriptor = type /\ message.unknown_fields = NULL /\ message.unknown = <<>>
    /\ Header \subseteq DOMAIN message
    /\ \A i \in DOMAIN Descriptors[type].fields :
          LET f == Descriptors[type].fields[i]
          IN  /\ {f.offset, f.quantifier_offset} \subseteq DOMAIN message
              /\ f.label = "REPEATED" \/ InOneof(f) => message[f.quantifier_offset] = 0
              /\ f.type = "MESSAGE" \/ InOneof(f) => message[f.offset] = NULL
ASSUME LayoutAssumption ==
    \A t \in DOMAIN Descriptors :
        /\ Structured(Descriptors[t].fields)
        /\ Functions[t] # NULL => Fresh(t, Functions[t][1].init_value)

-----------------------------------------------------------------------------
(* Freeing.  free is the function on the submessages and heaps. *)

\* What lies behind a pointer: a string or bytes, or a message too.  The default
\* stays.
free_text(h, p, default_value) ==
    IF p = NULL \/ p = default_value THEN h ELSE do_free(h, p[1].blk)
free_pointer(free, h, type, p, default_value) ==
    IF type # "MESSAGE" THEN free_text(h, p, default_value)
    ELSE IF p = NULL \/ p = default_value THEN h
    ELSE free[p[1]][h]

free_array(free, h, field, count, array) ==
    LET e == Elements(count, array)
        freed[k \in 0..count] ==
            IF k = 0 THEN h ELSE free_pointer(free, freed[k - 1], field.type, e[k], NULL)
    IN  IF array = NULL THEN h
        ELSE do_free(IF field.type \in Pointer THEN freed[count] ELSE h, array[1].blk)

free_member(free, h, field, member, quantifier) ==
    IF InOneof(field) /\ quantifier # field.id THEN h
    ELSE IF field.label = "REPEATED" THEN free_array(free, h, field, quantifier, member)
    ELSE IF field.type \in Pointer
    THEN free_pointer(free, h, field.type, member, field.default_value)
    ELSE h

free_blocks(h, blocks) ==
    LET freed[k \in 0..Len(blocks)] ==
            IF k = 0 THEN h ELSE do_free(freed[k - 1], blocks[k])
    IN  freed[Len(blocks)]

\* The members, the unknown fields, their array, the message.
message_free(free, message, h) ==
    LET fields == Descriptors[message.descriptor].fields
        members[k \in 0..Len(fields)] ==
            IF k = 0 THEN h
            ELSE free_member(free, members[k - 1], fields[k], message[fields[k].offset],
                             message[fields[k].quantifier_offset])
    IN  free_blocks(members[Len(fields)],
                    [k \in DOMAIN message.unknown |-> message.unknown[k].blk]
                        \o message.unknown_fields \o <<message.blk>>)

protobuf_c_message_free_unpacked(message, h) ==
    LET free[n \in 0..MaxNesting] ==
            [m \in Nested(message)[MaxNesting - n] |->
                [g \in Heaps |-> message_free(IF n = 0 THEN <<>> ELSE free[n - 1], m, g)]]
    IN  free[MaxNesting][message][h]

-----------------------------------------------------------------------------
(* Merging an earlier submessage into a later one.  merged is the function *)
(* on the submessages of both and heaps.                                   *)

\* Seeded bug: the count is taken over without the array.
merge_repeated_Mutant(field, s) ==
    LET q == field.quantifier_offset
    IN  IF s.em[q] = 0 \/ s.lm[q] # 0 THEN s
        ELSE [s EXCEPT !.lm[q] = s.em[q], !.em[q] = 0, !.em[field.offset] = NULL]
\* Both arrays in a new one; the old ones are freed.
merge_arrays(field, s, latter, earlier, new) ==
    LET q == field.quantifier_offset
        all == Elements(s.em[q], earlier) \o Elements(s.lm[q], latter)
    IN  IF new.ptr = 0 THEN [s EXCEPT !.ok = FALSE, !.h = new.h]
        ELSE [s EXCEPT !.em[q] = 0, !.em[field.offset] = NULL,
                       !.lm[q] = Len(all),
                       !.lm[field.offset] = <<Array(new.ptr, Len(all), all)>>,
                       !.h = do_free(do_free(new.h, latter[1].blk), earlier[1].blk)]
merge_repeated(field, s) ==
    LET q == field.quantifier_offset
    IN  IF s.em[q] = 0 THEN s
        ELSE IF s.lm[q] = 0
        THEN [s EXCEPT !.lm[q] = s.em[q], !.lm[field.offset] = s.em[field.offset],
                       !.em[q] = 0, !.em[field.offset] = NULL]
        ELSE merge_arrays(field, s, s.lm[field.offset], s.em[field.offset],
                          do_alloc(s.h))

\* Seeded bug: the earlier message keeps the element too.
move_element_Twice(field, s) ==
    [s EXCEPT !.lm[field.offset] = s.em[field.offset]]
\* Seeded bug: the element moves without its has_ flag.
move_element_Bare(field, s) ==
    [s EXCEPT !.lm[field.offset] = s.em[field.offset], !.em[field.offset] = Zero(field)]
\* The element moves: the earlier message keeps nothing of it.
move_element(field, s) ==
    LET q == field.quantifier_offset
        moved == [s EXCEPT !.lm[field.offset] = s.em[field.offset],
                           !.em[field.offset] = Zero(field)]
    IN  IF q = "descriptor" THEN moved
        ELSE [moved EXCEPT !.lm[q] = s.em[q], !.em[q] = ZeroQuantifier(field)]

need_to_merge(field, s, earlier, latter) ==
    LET NoData(p) == p = NULL \/ p = field.default_value
    IN  CASE field.type = "MESSAGE" -> earlier # NULL /\ latter = NULL
          [] field.type = "BYTES" -> ~NoData(earlier) /\ NoData(latter)
          [] field.type = "STRING" ->
                earlier # field.default_value /\ latter = field.default_value
          [] OTHER -> IsSet(s.em, field) /\ ~IsSet(s.lm, field)
MergedSub(field, s, sub) ==
    [s EXCEPT !.ok = sub.ok, !.h = sub.h,
              !.em[field.offset] = <<sub.em>>, !.lm[field.offset] = <<sub.lm>>]
merge_singular(merged, field, s) ==
    LET earlier == s.em[field.offset]
        latter == s.lm[field.offset]
    IN  IF field.type = "MESSAGE" /\ earlier # NULL /\ latter # NULL
        THEN MergedSub(field, s, merged[earlier[1]][latter[1]][s.h])
        ELSE IF need_to_merge(field, s, earlier, latter) THEN move_element(field, s)
        ELSE s

\* The earlier message's case says which member of a oneof there is; a number
\* that is not a field's reads past the table.
merge_picked(merged, s, picked) ==
    IF picked = NULL THEN [s EXCEPT !.h = Fault(@, "fields[-1]")]
    ELSE merge_singular(merged, picked[1], s)
merge_field(merged, desc, s, field) ==
    IF ~s.ok \/ field.label = "REQUIRED" THEN s
    ELSE IF field.label = "REPEATED" THEN merge_repeated(field, s)
    ELSE IF InOneof(field) /\ IsSet(s.lm, field) THEN s
    ELSE merge_picked(merged, s, IF InOneof(field)
                                 THEN get_field(desc, s.em[field.quantifier_offset])
                                 ELSE <<field>>)
message_merge(merged, earlier_msg, latter_msg, h) ==
    LET desc == Descriptors[latter_msg.descriptor]
        loop[k \in 0..Len(desc.fields)] ==
            IF k = 0 THEN [ok |-> TRUE, em |-> earlier_msg, lm |-> latter_msg, h |-> h]
            ELSE merge_field(merged, desc, loop[k - 1], desc.fields[k])
    IN  loop[Len(desc.fields)]
merge_messages(earlier_msg, latter_msg, h) ==
    LET merged[n \in 0..MaxNesting] ==
            [em \in Nested(earlier_msg)[MaxNesting - n] |->
                [lm \in Nested(latter_msg)[MaxNesting - n] |->
                    [g \in Heaps |->
                        message_merge(IF n = 0 THEN <<>> ELSE merged[n - 1], em, lm, g)]]]
    IN  merged[MaxNesting][earlier_msg][latter_msg][h]

-----------------------------------------------------------------------------
(* Parsing one member that was scanned: its tag and wire type, its data,   *)
(* and pref, the length of the prefix the data begin with.  unpacked is    *)
(* the function on the types, heaps and bytes of submessages.              *)

is_packable_type(type) == type \notin Pointer

scalar_parse(type, d) ==
    CASE type \in {"ENUM", "INT32", "UINT32"} -> parse_uint32(d)
      [] type = "SINT32" -> unzigzag32(parse_uint32(d))
      [] type \in {"INT64", "UINT64"} -> parse_uint64(d)
      [] type = "SINT64" -> unzigzag64(parse_uint64(d))
      [] type \in Fixed32 -> parse_fixed_uint32(d)
      [] type \in Fixed64 -> parse_fixed_uint64(d)
      [] type = "BOOL" -> parse_boolean(d)

\* A string gets a block even when it is empty, bytes only when there are any.
TextBlock(new, bytes) ==
    [ok |-> new.ptr # 0, h |-> new.h,
     v |-> IF new.ptr = 0 THEN NULL ELSE <<[blk |-> new.ptr, s |-> bytes]>>]
parse_text(field, bytes, member, h, maybe_clear) ==
    LET cleared == IF maybe_clear THEN free_text(h, member, field.default_value) ELSE h
    IN  IF field.type = "BYTES" /\ bytes = <<>>
        THEN [ok |-> TRUE, v |-> NULL, h |-> cleared]
        ELSE TextBlock(do_alloc(cleared), bytes)

\* The new submessage is unpacked first, then the old one merged and freed.
FreeAfter(r, old) == [r EXCEPT !.h = protobuf_c_message_free_unpacked(old, r.h)]
AfterMerge(p) == FreeAfter([ok |-> p.ok, v |-> <<p.lm>>, h |-> p.h], p.em)
MergeInto(subm, member, clear) ==
    IF ~clear THEN [ok |-> subm.rv # NULL, v |-> subm.rv, h |-> subm.h]
    ELSE IF subm.rv = NULL
    THEN FreeAfter([ok |-> FALSE, v |-> NULL, h |-> subm.h], member[1])
    ELSE AfterMerge(merge_messages(member[1], subm.rv[1], subm.h))
parse_submessage(unpacked, field, bytes, member, h, maybe_clear) ==
    MergeInto(unpacked[field.descriptor][h][bytes], member,
              maybe_clear /\ member # NULL /\ member # field.default_value)

\* Data that are shorter than their prefix (PrefixedLen): len - pref_len, which
\* the code goes on with, is then no length, and what comes of it is undefined.
BelowPrefix(sm) == Len(sm.data) < sm.pref
Undefined(h) == Fault(h, "length below its prefix")

\* bytes are the data without their prefix.
parse_required_member(unpacked, sm, member, h, maybe_clear) ==
    LET field == sm.field[1]
        bytes == SubSeq(sm.data, sm.pref + 1, Len(sm.data))
    IN  IF field.type # "BOOL" /\ sm.wire_type # wire_type_of(field.type)
        THEN [ok |-> FALSE, v |-> member, h |-> h]
        ELSE IF field.type \in Pointer /\ BelowPrefix(sm)
        THEN [ok |-> FALSE, v |-> member, h |-> Undefined(h)]
        ELSE CASE field.type \in Text -> parse_text(field, bytes, member, h, maybe_clear)
               [] field.type = "MESSAGE" ->
                    parse_submessage(unpacked, field, bytes, member, h, maybe_clear)
               [] OTHER ->
                    [ok |-> TRUE, v |-> scalar_parse(field.type, sm.data), h |-> h]

\* The parsed member goes into its slot, and present to its quantifier.
Stored(field, message, p, present) ==
    [ok |-> p.ok, h |-> p.h,
     m |-> IF p.ok /\ field.quantifier_offset # "descriptor"
           THEN [message EXCEPT ![field.offset] = p.v, ![field.quantifier_offset] = present]
           ELSE [message EXCEPT ![field.offset] = p.v]]

\* The member that was there is freed, whichever it is, and zeroed.  It stays the
\* one in force when the new one cannot be parsed.
free_old_member(old_field, member, h) ==
    CASE old_field.type \in Text -> free_text(h, member, old_field.default_value)
      [] old_field.type = "MESSAGE" ->
            IF member = NULL \/ member = old_field.default_value THEN h
            ELSE protobuf_c_message_free_unpacked(member[1], h)
      [] OTHER -> h
parse_oneof_member(unpacked, sm, message, h) ==
    LET field == sm.field[1]
        oneof_case == message[field.quantifier_offset]
        old_field == get_field(Descriptors[message.descriptor], oneof_case)[1]
        cleared == IF oneof_case = 0 THEN h
                   ELSE free_old_member(old_field, message[field.offset], h)
        p == parse_required_member(unpacked, sm, Zero(field), cleared, TRUE)
    IN  Stored(field, message,
               [ok |-> p.ok, h |-> p.h,
                v |-> IF p.ok \/ oneof_case = 0 THEN p.v ELSE Zero(old_field)],
               sm.tag)

parse_optional_member(unpacked, sm, message, h) ==
    Stored(sm.field[1], message,
           parse_required_member(unpacked, sm, message[sm.field[1].offset], h, TRUE), TRUE)

\* More elements at the end of what the array holds so far.
Extend(message, field, h, elements) ==
    LET n == message[field.quantifier_offset]
        array == message[field.offset][1]
        all == Elements(n, <<array>>) \o elements
    IN  IF elements = <<>> THEN [ok |-> TRUE, m |-> message, h |-> h]
        ELSE [ok |-> TRUE,
              h |-> IF Len(all) <= array.cap THEN h ELSE Fault(h, "write past the array"),
              m |-> [message EXCEPT ![field.quantifier_offset] = Len(all),
                                    ![field.offset] = <<Array(array.blk, array.cap, all)>>]]

Element(sm, message, p) ==
    IF p.ok THEN Extend(message, sm.field[1], p.h, <<p.v>>)
    ELSE [ok |-> FALSE, m |-> message, h |-> p.h]
parse_repeated_member(unpacked, sm, message, h) ==
    Element(sm, message, parse_required_member(unpacked, sm, NULL, h, FALSE))

count_packed_elements(type, d) ==
    CASE type \in Fixed32 -> [ok |-> Len(d) % 4 = 0, count |-> Len(d) \div 4]
      [] type \in Fixed64 -> [ok |-> Len(d) % 8 = 0, count |-> Len(d) \div 8]
      [] type = "BOOL" -> [ok |-> TRUE, count |-> Len(d)]
      [] type \in Pointer -> [ok |-> FALSE, count |-> 0]
      [] OTHER -> [ok |-> TRUE, count |-> max_b128_numbers(d)]

\* The varints d begins with, ok when nothing is left of it: one in each round.
NextVarint(r, s) ==
    IF r.d = <<>> \/ ~r.ok THEN r
    ELSE IF s = 0 THEN [r EXCEPT !.ok = FALSE]
    ELSE [r EXCEPT !.d = SubSeq(@, s + 1, Len(@)), !.e = Append(@, SubSeq(r.d, 1, s))]
Varints(d) ==
    LET round[k \in 0..Len(d)] ==
            IF k = 0 THEN [ok |-> TRUE, d |-> d, e |-> <<>>]
            ELSE LET r == round[k - 1] IN NextVarint(r, scan_varint(r.d))
    IN  round[Len(d)]

Parts(type, d, size) ==
    IF type \in Fixed32 \cup Fixed64 \cup {"BOOL"}
    THEN [ok |-> type # "BOOL" \/ \A k \in DOMAIN d : d[k] \subseteq {0},
          e |-> [k \in 1..(Len(d) \div size) |-> SubSeq(d, size * (k - 1) + 1, size * k)]]
    ELSE Varints(d)
ExtendParts(field, message, h, parts) ==
    IF ~parts.ok THEN [ok |-> FALSE, m |-> message, h |-> h]
    ELSE Extend(message, field, h,
                [k \in DOMAIN parts.e |-> scalar_parse(field.type, parts.e[k])])
parse_packed_repeated_member(sm, message, h) ==
    ExtendParts(sm.field[1], message, h,
                Parts(sm.field[1].type, SubSeq(sm.data, sm.pref + 1, Len(sm.data)),
                      get_type_min_size(sm.field[1].type)))

Unknown(sm, message, new, s, ok) ==
    [ok |-> ok, h |-> new.h,
     m |-> [message EXCEPT !.unknown =
                Append(@, [tag |-> sm.tag, wire_type |-> sm.wire_type, blk |-> new.ptr,
                           s |-> s])]]
\* Seeded bug: an unknown field whose bytes got no block is kept without them.
parse_unknown_member_Mutant(sm, message, h) ==
    LET new == do_alloc(h)
    IN  Unknown(sm, message, new, IF new.ptr = 0 THEN <<>> ELSE sm.data, TRUE)
\* The unknown field is counted before its bytes have a block.
parse_unknown_member(sm, message, h) ==
    LET new == do_alloc(h)
    IN  Unknown(sm, message, new, sm.data, new.ptr # 0)

IsPackedMember(sm) ==
    /\ sm.wire_type = LENGTH_PREFIXED
    /\ Packed(sm.field[1]) \/ is_packable_type(sm.field[1].type)

RequiredMember(sm, message, p) ==
    [ok |-> p.ok, h |-> p.h, m |-> [message EXCEPT ![sm.field[1].offset] = p.v]]
parse_member(unpacked, sm, message, h) ==
    IF sm.field = NULL THEN parse_unknown_member(sm, message, h)
    ELSE LET field == sm.field[1]
         IN  CASE field.label = "REQUIRED" ->
                    RequiredMember(sm, message,
                        parse_required_member(unpacked, sm, message[field.offset], h, TRUE))
               [] field.label \in {"OPTIONAL", "NONE"} /\ InOneof(field) ->
                    parse_oneof_member(unpacked, sm, message, h)
               [] field.label \in {"OPTIONAL", "NONE"} /\ ~InOneof(field) ->
                    parse_optional_member(unpacked, sm, message, h)
               [] field.label = "REPEATED" /\ IsPackedMember(sm) ->
                    parse_packed_repeated_member(sm, message, h)
               [] field.label = "REPEATED" /\ ~IsPackedMember(sm) ->
                    parse_repeated_member(unpacked, sm, message, h)

-----------------------------------------------------------------------------
(* Unpacking a message. *)

\* Bytes of the member that d begins with, 0 for an error.
member_len(wire_type, d) ==
    CASE wire_type = VARINT -> [len |-> scan_varint(d), pref |-> 0]
      [] wire_type = FIXED_64BIT -> [len |-> IF Len(d) < 8 THEN 0 ELSE 8, pref |-> 0]
      [] wire_type = LENGTH_PREFIXED -> scan_length_prefixed_data(d)
      [] wire_type = FIXED_32BIT -> [len |-> IF Len(d) < 4 THEN 0 ELSE 4, pref |-> 0]
      [] OTHER -> [len |-> 0, pref |-> 0]

\* The first slab has 16 members and lies on the stack; each of the others has
\* twice as many as the one before, and there are at most 22 of them.
NextSlab(s, new) ==
    IF new.ptr = 0 THEN [s EXCEPT !.ok = FALSE, !.h = new.h]
    ELSE [s EXCEPT !.slabs = Append(@, new.ptr), !.in_slab_index = 1, !.h = new.h]
store_member(s, sm) ==
    LET stored == [s EXCEPT !.members = Append(@, sm), !.in_slab_index = @ + 1]
    IN  IF s.in_slab_index < 2^(Len(s.slabs) + 4) THEN stored
        ELSE IF Len(s.slabs) = 22 THEN [s EXCEPT !.ok = FALSE]
        ELSE NextSlab(stored, do_alloc(s.h))

count_elements(s, field, c) ==
    IF ~c.ok THEN [s EXCEPT !.ok = FALSE]
    ELSE [s EXCEPT !.m[field.quantifier_offset] = @ + c.count]
count_member(s, sm) ==
    IF ~s.ok \/ sm.field = NULL THEN s
    ELSE IF sm.field[1].label # "REPEATED" THEN s
    ELSE IF IsPackedMember(sm) /\ BelowPrefix(sm)
    THEN [s EXCEPT !.ok = FALSE, !.h = Undefined(@)]
    ELSE count_elements(s, sm.field[1],
            IF IsPackedMember(sm)
            THEN count_packed_elements(sm.field[1].type,
                                       SubSeq(sm.data, sm.pref + 1, Len(sm.data)))
            ELSE [ok |-> TRUE, count |-> 1])

\* The number of the field of a tag, 0 for none; that of the last member is
\* tried first.
field_of_tag(desc, last_field, tag) ==
    IF last_field # 0 /\ desc.fields[last_field].id = tag THEN last_field
    ELSE int_range_lookup(desc.field_ranges, tag) + 1
\* The member with tag t, then data of length l.
ScannedMember(t, l, rest, field) ==
    [tag |-> t.tag, wire_type |-> t.wire_type, pref |-> l.pref, field |-> field,
     data |-> SubSeq(rest, 1, l.len)]
FoundField(s, i, field) ==
    [s EXCEPT !.n_unknown = IF i = 0 THEN @ + 1 ELSE @,
              !.last_field = IF i = 0 THEN @ ELSE i,
              !.bitmap = IF field # NULL /\ field[1].label = "REQUIRED" THEN @ \cup {i}
                         ELSE @]
TakeMember(s, sm, rest) ==
    IF sm.data = <<>> THEN [s EXCEPT !.ok = FALSE]
    ELSE count_member(store_member([s EXCEPT !.at = SubSeq(rest, Len(sm.data) + 1,
                                                            Len(rest))], sm), sm)
scan_data(s, t, l, i, field, rest) ==
    TakeMember(FoundField(s, i, field), ScannedMember(t, l, rest, field), rest)
scan_field(desc, s, t, i, rest) ==
    scan_data(s, t, member_len(t.wire_type, rest), i,
              IF i = 0 THEN NULL ELSE <<desc.fields[i]>>, rest)
scan_tag(desc, s, t) ==
    IF t.used = 0 THEN [s EXCEPT !.ok = FALSE]
    ELSE scan_field(desc, s, t, field_of_tag(desc, s.last_field, t.tag),
                    SubSeq(s.at, t.used + 1, Len(s.at)))
scan_member(desc, s) == scan_tag(desc, s, parse_tag_and_wiretype(s.at))

\* Every round takes a member, of a byte at least, until nothing is left.
scan(desc, s) ==
    LET round(r) == IF r.at = <<>> \/ ~r.ok THEN r ELSE scan_member(desc, r)
        after[k \in 0..Len(s.at)] == IF k = 0 THEN s ELSE round(after[k - 1])
    IN  after[Len(s.at)]

\* CLEAR_REMAINING_N_PTRS is s.m with the counts of all later arrays at 0.
clear_remaining(m, fields, i) ==
    LET counts == {fields[k].quantifier_offset :
                      k \in {j \in i..Len(fields) : fields[j].label = "REPEATED"}}
    IN  [slot \in DOMAIN m |-> IF slot \in counts THEN 0 ELSE m[slot]]
allocate_array(a, fields, i, new) ==
    LET o == fields[i].offset
        q == fields[i].quantifier_offset
    IN  IF new.ptr = 0
        THEN [a EXCEPT !.ok = FALSE, !.h = new.h, !.m = clear_remaining(@, fields, i)]
        ELSE [a EXCEPT !.h = new.h, !.m[q] = 0, !.m[o] = <<Array(new.ptr, a.m[q], <<>>)>>]
allocate_field(a, fields, i) ==
    LET field == fields[i]
    IN  IF ~a.ok THEN a
        ELSE IF field.label = "REPEATED"
        THEN IF a.m[field.quantifier_offset] = 0 THEN a
             ELSE allocate_array(a, fields, i, do_alloc(a.h))
        ELSE IF field.label = "REQUIRED" /\ field.default_value = NULL
                /\ i \notin a.bitmap
        THEN [a EXCEPT !.ok = FALSE, !.m = clear_remaining(@, fields, i)]
        ELSE a
allocate_repeated(desc, s) ==
    LET after[i \in 0..Len(desc.fields)] ==
            IF i = 0 THEN s ELSE allocate_field(after[i - 1], desc.fields, i)
    IN  after[Len(desc.fields)]

UnknownArray(s, new) ==
    IF new.ptr = 0 THEN [s EXCEPT !.ok = FALSE, !.h = new.h]
    ELSE [s EXCEPT !.m.unknown_fields = <<new.ptr>>, !.h = new.h]
allocate_unknown(s) ==
    IF ~s.ok \/ s.n_unknown = 0 THEN s ELSE UnknownArray(s, do_alloc(s.h))

ParsedMember(a, p) == [a EXCEPT !.ok = p.ok, !.m = p.m, !.h = p.h]
parse_next(unpacked, a, sm) ==
    IF ~a.ok THEN a ELSE ParsedMember(a, parse_member(unpacked, sm, a.m, a.h))
parse_members(unpacked, s) ==
    LET after[k \in 0..Len(s.members)] ==
            IF k = 0 THEN s ELSE parse_next(unpacked, after[k - 1], s.members[k])
    IN  after[Len(s.members)]

\* The cleanups at the end: that of an error in the scan frees the message
\* alone, that of a later one what is in it.  blk and bitmap are the blocks of
\* the message and of the bitmap of required fields, 0 when that is the one on
\* the stack.
cleanup(h, s, bitmap) == do_free(free_blocks(h, s.slabs), bitmap)
ScanFailed(s, blk, bitmap) ==
    [rv |-> NULL, h |-> cleanup(do_free(s.h, blk), s, bitmap)]
ParseDone(s, bitmap) ==
    [rv |-> IF s.ok THEN <<s.m>> ELSE NULL,
     h |-> cleanup(IF s.ok THEN s.h ELSE protobuf_c_message_free_unpacked(s.m, s.h),
                   s, bitmap)]
ScanDone(unpacked, desc, s, blk, bitmap) ==
    IF ~s.ok THEN ScanFailed(s, blk, bitmap)
    ELSE ParseDone(parse_members(unpacked, allocate_unknown(allocate_repeated(desc, s))), bitmap)
unpack_message(unpacked, desc, init, h, blk, bitmap, d) ==
    ScanDone(unpacked, desc,
             scan(desc, [ok |-> TRUE, at |-> d, h |-> h, members |-> <<>>,
                         m |-> [init EXCEPT !.blk = blk], slabs |-> <<>>,
                         in_slab_index |-> 0, n_unknown |-> 0, bitmap |-> {},
                         last_field |-> IF Len(desc.fields) = 0 THEN 0 ELSE 1]),
             blk, bitmap)

BitmapAllocated(unpacked, desc, init, blk, bitmap, d) ==
    IF bitmap.ptr = 0 THEN [rv |-> NULL, h |-> do_free(bitmap.h, blk)]
    ELSE unpack_message(unpacked, desc, init, bitmap.h, blk, bitmap.ptr, d)
UnpackType(unpacked, desc, init, m, d) ==
    IF m.ptr = 0 THEN [rv |-> NULL, h |-> m.h]
    ELSE IF (Len(desc.fields) + 7) \div 8 <= BitmapStack
    THEN unpack_message(unpacked, desc, init, m.h, m.ptr, 0, d)
    ELSE BitmapAllocated(unpacked, desc, init, m.ptr, do_alloc(m.h), d)
message_unpack(unpacked, type, h, d) ==
    UnpackType(unpacked, Descriptors[type],
               IF Functions[type] # NULL THEN protobuf_c_message_init(type)
               ELSE message_init_generic(type),
               do_alloc(h), d)
\* bound: what is nested deeper than MaxNesting is refused.
Refused == [t \in DOMAIN Descriptors |->
              [g \in Heaps |-> [b \in Seq(Byte) |-> [rv |-> NULL, h |-> g]]]]
protobuf_c_message_unpack(type, h, d) ==
    LET unpacked[n \in 0..MaxNesting] ==
            [t \in DOMAIN Descriptors |-> [g \in Heaps |-> [b \in Seq(Byte) |->
                message_unpack(IF n = 0 THEN Refused ELSE unpacked[n - 1], t, g, b)]]]
    IN  unpacked[MaxNesting][type][h][d]

-----------------------------------------------------------------------------
\* Whether a message can be packed.  A message that was freed has no
\* descriptor; here it is no message any more.  Bytes of some length that are
\* nowhere, which the code refuses too, no sequence can be.  checked is the
\* function on the submessages.
message_check(checked, message) ==
    LET check(p) == p # NULL /\ checked[p[1]]
    IN  \A f \in DOMAIN Descriptors[message.descriptor].fields :
            LET field == Descriptors[message.descriptor].fields[f]
                member == message[field.offset]
                quantity == message[field.quantifier_offset]
            IN  IF field.label = "REPEATED"
                THEN /\ quantity > 0 => member # NULL
                     /\ field.type \in {"MESSAGE", "STRING"} =>
                        \A k \in 1..quantity :
                            IF field.type = "MESSAGE" THEN check(member[1].e[k])
                            ELSE member[1].e[k] # NULL
                ELSE CASE field.type = "MESSAGE" ->
                            field.label = "REQUIRED" \/ member # NULL => check(member)
                       [] field.type = "STRING" ->
                            field.label = "REQUIRED" => member # NULL
                       [] OTHER -> TRUE
protobuf_c_message_check(message) ==
    LET checked[n \in 0..MaxNesting] ==
            [m \in Nested(message)[MaxNesting - n] |->
                message_check(IF n = 0 THEN <<>> ELSE checked[n - 1], m)]
    IN  checked[MaxNesting][message]
=============================================================================
