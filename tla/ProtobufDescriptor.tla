------------------------- MODULE ProtobufDescriptor -------------------------
(***************************************************************************)
(* What generated code tells the runtime about a message type              *)
(* (main/protobuf-c.h): its fields, and the tables used to find one by     *)
(* number or by name (the end of main/protobuf-c.c).                       *)
(*                                                                         *)
(* An offset into the C structure is the name of the slot there.  The      *)
(* members of a oneof share one slot and one quantifier, and offset 0,     *)
(* where the pointer to the descriptor lies, is the slot "descriptor".     *)
(***************************************************************************)
EXTENDS Integers, Sequences, SequencesExt

Labels == {"REQUIRED", "OPTIONAL", "REPEATED", "NONE"}
Types == {"INT32", "SINT32", "SFIXED32", "INT64", "SINT64", "SFIXED64",
          "UINT32", "FIXED32", "UINT64", "FIXED64", "FLOAT", "DOUBLE", "BOOL",
          "ENUM", "STRING", "BYTES", "MESSAGE"}
Flags == {"PACKED", "DEPRECATED", "ONEOF"}

\* Wire types.
VARINT == 0
FIXED_64BIT == 1
LENGTH_PREFIXED == 2
FIXED_32BIT == 5

\* A pointer is a sequence of at most one element.
NULL == <<>>

\* A row of a table of fields.  A field has a slot of its own and no
\* quantifier, as those of proto3; the members of a oneof share its slot and its
\* case; the prototype's code has optional fields, each scalar with a has_ flag.
Field(name, id, type, descriptor) == <<"NONE", name, id, type, descriptor>>
OneofField(oneof, name, id, type, descriptor) ==
    <<"NONE", name, id, type, descriptor, oneof>>
Sub(name, id, type) == Field(name, id, "MESSAGE", type)
OneofSub(oneof, name, id, type) == OneofField(oneof, name, id, "MESSAGE", type)
Labelled(kind, row) == <<kind>> \o Tail(row)
Optional(row) == Labelled("OPTIONAL", row)
Has(row) == Labelled("HAS", row)

\* The field of a row.
Entry(row) ==
    LET kind == row[1]
        name == row[2]
        oneof == Len(row) = 6
    IN  [name |-> name, id |-> row[3], type |-> row[4], descriptor |-> row[5],
         label |-> CASE kind = "HAS" -> "OPTIONAL"
                     [] kind = "PACKED" -> "REPEATED"
                     [] OTHER -> kind,
         offset |-> IF oneof THEN row[6] ELSE name,
         quantifier_offset |->
            CASE oneof -> row[6] \o "_case"
              [] ~oneof /\ kind = "HAS" -> "has_" \o name
              [] ~oneof /\ kind \in {"REPEATED", "PACKED"} -> "n_" \o name
              [] OTHER -> "descriptor",
         default_value |-> NULL,
         flags |-> CASE oneof -> {"ONEOF"}
                     [] kind = "PACKED" -> {"PACKED"}
                     [] OTHER -> {}]

\* A table in C: an array and the number of its rows.
IsTable(rows) == Len(rows) \in Nat /\ DOMAIN rows = 1..Len(rows)

InOneof(field) == "ONEOF" \in field.flags

\* ProtobufCIntRange: numbers from start_value on sit at orig_index on.
IntRange(start_value, orig_index) ==
    [start_value |-> start_value, orig_index |-> orig_index]

\* The last range is a sentinel that holds the number of fields.  Indices
\* count from 0, as in C.
Message(fields, fields_sorted_by_name, field_ranges) ==
    [fields |-> fields, fields_sorted_by_name |-> fields_sorted_by_name,
     field_ranges |-> field_ranges]
EnumValue(name, value) == [name |-> name, value |-> value]
Enum(values, values_by_name, value_ranges) ==
    [values |-> values, values_by_name |-> values_by_name,
     value_ranges |-> value_ranges]

\* A message that is not on the heap, with block number 0 and no unknown
\* fields: what PROTOBUF_C_MESSAGE_INIT and the rest of an initialiser set.
InitValue(type, slots) ==
    LET base == [descriptor |-> type, blk |-> 0, unknown_fields |-> NULL, unknown |-> <<>>]
    IN  [s \in DOMAIN slots \cup DOMAIN base |->
            IF s \in DOMAIN slots THEN slots[s] ELSE base[s]]

\* The functions generated for a message type (init, get_packed_size, pack,
\* pack_to_buffer, unpack, free_unpacked; only init for a nested type) do no
\* more than assert that the message has their descriptor and hand both to the
\* runtime.
Generated(type, init_value) == [descriptor |-> type, init_value |-> init_value]

\* The descriptors of tables whose fields are rows.
DescriptorsOf(tables) ==
    [t \in DOMAIN tables |->
        [tables[t] EXCEPT !.fields = [k \in DOMAIN @ |-> Entry(@[k])]]]

-----------------------------------------------------------------------------
(* Lookup by number: a binary search over the ranges, then within one.  A  *)
(* search has n entries left, from start on, and rv is what it found, -1   *)
(* for nothing yet.                                                        *)

Search(n) == [start |-> 0, n |-> n, rv |-> -1]
Ended(s) == s.n = 0 \/ s.rv # -1
Before(s, mid) == [s EXCEPT !.n = mid - s.start]
After(s, mid) == [s EXCEPT !.start = mid + 1, !.n = s.start + s.n - (mid + 1)]

\* One round of the loop, which changes nothing once the loop has ended.
\* Seeded bug: the first number of a range is not taken for one of it.
narrow_ranges_Mutant(ranges, value, s) ==
    LET mid == s.start + s.n \div 2
        first == ranges[mid + 1].start_value
        size == ranges[mid + 2].orig_index - ranges[mid + 1].orig_index
    IN  IF Ended(s) THEN s
        ELSE IF value <= first THEN Before(s, mid)
        ELSE IF value >= first + size THEN After(s, mid)
        ELSE [s EXCEPT !.rv = value - first + ranges[mid + 1].orig_index]
narrow_ranges(ranges, value, s) ==
    LET mid == s.start + s.n \div 2
        first == ranges[mid + 1].start_value
        size == ranges[mid + 2].orig_index - ranges[mid + 1].orig_index
    IN  IF Ended(s) THEN s
        ELSE IF value < first THEN Before(s, mid)
        ELSE IF value >= first + size THEN After(s, mid)
        ELSE [s EXCEPT !.rv = value - first + ranges[mid + 1].orig_index]

\* Every round leaves fewer entries: there are at most as many as entries.
int_range_lookup(ranges, value) ==
    LET n == Len(ranges) - 1
        round[k \in 0..n] == IF k = 0 THEN Search(n)
                             ELSE narrow_ranges(ranges, value, round[k - 1])
    IN  round[n].rv

\* What generated code makes the ranges: n of them, in the order of the numbers,
\* and the sentinel.
Ranges(ranges, numbers) ==
    LET n == Len(ranges) - 1
        index(i) == ranges[i].orig_index
        first(i) == ranges[i].start_value
    IN  /\ ranges \in Seq([start_value : Int, orig_index : Nat]) \ {<<>>}
        /\ index(1) = 0 /\ index(n + 1) = Len(numbers)
        /\ \A i \in 1..n :
              /\ index(i) < index(i + 1)
              /\ \A k \in (index(i) + 1)..index(i + 1) :
                    numbers[k] = first(i) + (k - 1 - index(i))
              /\ i < n => first(i) + (index(i + 1) - index(i)) <= first(i + 1)

get_field(desc, number) ==
    LET i == int_range_lookup(desc.field_ranges, number)
    IN  IF i < 0 THEN NULL ELSE <<desc.fields[i + 1]>>

get_value(enum, number) ==
    LET i == int_range_lookup(enum.value_ranges, number)
    IN  IF i < 0 THEN NULL ELSE <<enum.values[i + 1]>>

-----------------------------------------------------------------------------
(* Lookup by name: a binary search over the indices sorted by name.  Names *)
(* is the order strcmp gives to the names in use.                          *)
CONSTANT Names

\* strcmp: negative, zero or positive.
strcmp(a, b) ==
    LET At(name) == CHOOSE i \in DOMAIN Names : Names[i] = name
    IN  At(a) - At(b)

narrow_names(sorted, name, s) ==
    LET mid == s.start + s.n \div 2
        rv == strcmp(sorted[mid + 1], name)
    IN  IF Ended(s) THEN s
        ELSE IF rv = 0 THEN [s EXCEPT !.rv = mid]
        ELSE IF rv < 0 THEN After(s, mid)
        ELSE Before(s, mid)

NameSearch(sorted, name, n) ==
    LET round[k \in 0..n] == IF k = 0 THEN Search(n)
                             ELSE narrow_names(sorted, name, round[k - 1])
    IN  round[n].rv

\* What generated code makes the index: every name once, in strcmp's order.
SortedIndex(index, names) ==
    /\ index \in Seq(0..(Len(names) - 1))
    /\ \A k \in DOMAIN names : \E i \in DOMAIN index : index[i] = k - 1
    /\ \A i, j \in DOMAIN index :
            i < j => strcmp(names[index[i] + 1], names[index[j] + 1]) < 0
    /\ \A k \in DOMAIN names : names[k] \in ToSet(Names)

get_field_by_name(desc, name) ==
    LET index == desc.fields_sorted_by_name
        at == NameSearch([k \in DOMAIN index |-> desc.fields[index[k] + 1].name],
                         name, Len(desc.fields))
    IN  IF at < 0 THEN NULL ELSE <<desc.fields[index[at + 1] + 1]>>

get_value_by_name(enum, name) ==
    LET index == enum.values_by_name
        at == NameSearch([k \in DOMAIN index |-> enum.values[index[k] + 1].name],
                         name, Len(index))
    IN  IF at < 0 THEN NULL ELSE <<enum.values[index[at + 1] + 1]>>
=============================================================================
