----------------------------- MODULE MCProtobuf -----------------------------
(***************************************************************************)
(* ProtobufReceived with the schema of the firmware, its prototype's,      *)
(* and one made here, "test", that has what theirs lack and the runtime    *)
(* still handles: required and repeated fields, texts, every scalar type,  *)
(* defaults, unknown fields.                                               *)
(***************************************************************************)
EXTENDS ProtobufReceived, TLC

M == INSTANCE MessageFile
P == INSTANCE MessageFilePrototype

-----------------------------------------------------------------------------
(* The test schema. *)

Required(row) == Labelled("REQUIRED", row)
Repeated(row) == Labelled("REPEATED", row)
PackedField(row) == Labelled("PACKED", row)
Static(s) == [blk |-> -1, s |-> s]
Table(fields, ranges) == Message(fields, NULL, ranges)

inner == Table(
    <<Has(Field("a", 1, "UINT32", "")), Optional(Field("s", 2, "STRING", "")),
      PackedField(Field("r", 3, "INT32", "")), Optional(Sub("i", 4, "test.inner"))>>,
    <<IntRange(1, 0), IntRange(0, 4)>>)
outer == Table(
    <<Required(Field("id", 1, "INT32", "")), Has(Field("z", 2, "SINT64", "")),
      Optional(Field("s", 3, "STRING", "")),
      Has(Field("b", 4, "BYTES", "")), Optional(Sub("m", 5, "test.inner")),
      PackedField(Field("pu", 6, "UINT32", "")), Repeated(Field("rs", 7, "STRING", "")),
      Repeated(Sub("rm", 8, "test.inner")), PackedField(Field("pf", 9, "FIXED64", "")),
      Repeated(Field("rb", 10, "BOOL", "")),
      Optional(OneofField("choice", "cs", 17, "STRING", "")),
      Optional(OneofSub("choice", "cm", 18, "test.inner")),
      Has(Field("u", 2000, "UINT64", "")), Has(Field("e", 2001, "ENUM", ""))>>,
    <<IntRange(1, 0), IntRange(17, 10), IntRange(2000, 12), IntRange(0, 14)>>)
flat == Table(
    <<Field("f", 1, "FLOAT", ""), Field("d", 2, "DOUBLE", ""), Field("b", 3, "BOOL", ""),
      Field("s", 4, "STRING", ""), Field("y", 5, "BYTES", ""),
      Field("l", 6, "INT64", ""), Field("x", 7, "SFIXED32", ""),
      PackedField(Field("pz", 8, "SINT32", "")), PackedField(Field("pl", 9, "INT64", "")),
      PackedField(Field("pb", 10, "BOOL", "")), PackedField(Field("px", 11, "FLOAT", "")),
      PackedField(Field("ps", 12, "SINT64", ""))>>,
    <<IntRange(1, 0), IntRange(0, 12)>>)
\* An older outer, which knows two of its fields.
older == Table(<<Required(Field("id", 1, "INT32", "")), Optional(Sub("m", 5, "test.inner"))>>,
               <<IntRange(1, 0), IntRange(5, 1), IntRange(0, 2)>>)
TestDescriptors == "test.inner" :> inner @@ "test.outer" :> outer @@ "test.flat" :> flat
                   @@ "test.older" :> older
TestTypes == {"test.inner", "test.outer", "test.flat", "test.older"}

MCDescriptors ==
    LET tables == DescriptorsOf(M!DescriptorsMessageFile @@ P!DescriptorsPrototype
                                @@ TestDescriptors)
    IN  [tables EXCEPT !["test.outer"].fields[3].default_value = <<Static(<<{0, 2}>>)>>,
                       !["test.outer"].fields[14].default_value = <<{1}>>,
                       !["test.flat"].fields[4].default_value = <<Static(<<>>)>>]
MCEnums == M!EnumsMessageFile @@ P!EnumsPrototype
\* A pointer, NULL in the descriptors no code was generated for.
Pointers(functions) == [t \in DOMAIN functions |-> <<functions[t]>>]
MCFunctions == Pointers(M!FunctionsMessageFile) @@ Pointers(P!FunctionsPrototype)
               @@ [t \in TestTypes |-> NULL]

\* strcmp's order: capitals, then the underscore, then the small letters.
MCNames == <<"LEDC_HIGH_SPEED_MODE", "LEDC_INTR_DISABLE", "LEDC_INTR_FADE_END",
    "LEDC_LOW_SPEED_MODE", "LEDC_SPEED_MODE_MAX", "REQUEST", "RESPONSE", "channel",
    "config_status", "duty", "errno", "errno_alt", "gettimeofday_request",
    "gettimeofday_response", "gpio_num", "hpoint", "i2c_request", "i2c_response",
    "intr", "intr_type", "ledc_channel_config_request", "ledc_channel_config_response",
    "ledc_conf", "ledc_speed", "message_type", "pres", "rel_hum", "request", "response",
    "return_value", "settimeofday_request", "settimeofday_response", "slave_scl_gpio",
    "slave_sda_gpio", "speed_mode", "status", "stub", "success", "temp", "time_stamp",
    "timeval", "tv_sec", "tv_usec">>

-----------------------------------------------------------------------------
(* The messages packed. *)

\* A message as a tree: <<type, its slots that are not zero>>, a submessage being
\* such a tree.  Build turns a tree into the message.
RECURSIVE Build(_, _)
BuildValue(field, v) ==
    IF field.type # "MESSAGE" \/ v = NULL THEN v
    ELSE IF field.label = "REPEATED"
    THEN <<[v[1] EXCEPT !.e = [k \in DOMAIN @ |-> <<Build(field.descriptor, @[k])>>]]>>
    ELSE <<Build(field.descriptor, v)>>
Fill(init, fields, slots) ==
    FoldLeft(LAMBDA m, f :
                IF f.offset \notin DOMAIN slots THEN m
                ELSE IF InOneof(f) /\ slots[f.quantifier_offset] # f.id THEN m
                ELSE [m EXCEPT ![f.offset] = BuildValue(f, slots[f.offset])],
             slots @@ init, fields)
Build(type, slots) ==
    Fill(IF Functions[type] # NULL THEN Functions[type][1].init_value
         ELSE message_init_generic(type),
         Descriptors[type].fields, slots)

Chosen(oneof, number, p) == (oneof \o "_case") :> number @@ oneof :> p
Str(s) == <<[blk |-> 0, s |-> s]>>
Arr(name, e) == name :> <<Array(0, Len(e), e)>> @@ ("n_" \o name) :> Len(e)
Minus1 == 0..31
Big == {0, 30, 31}
Time(s, u) == [tv_sec |-> s, tv_usec |-> u]
Rpc(oneof_case, sub, stamp) ==
    <<"x_rpcmessage", Chosen("message_type", oneof_case, sub) @@ [time_stamp |-> stamp]>>
Ask(number, sub) == Rpc(1, Chosen("request_func", number, sub), Time({0, 31}, {}))
Answer(number, sub) == Rpc(2, Chosen("response_func", number, sub), Time({4}, {9, 10}))
SetTime(s, u) == <<"settimeofday_request", [timeval |-> Time(s, u)]>>

Firmware ==
    {Ask(1, [timeval |-> Time({5}, {})]),
     Ask(2, [stub |-> {}]),
     Ask(3, [ledc_conf |-> [gpio_num |-> {2}, speed_mode |-> [ledc_speed |-> {0}],
                            channel |-> [channel |-> {0, 1}],
                            intr_type |-> [intr |-> {}], duty |-> {12}]]),
     Ask(4, [slave_sda_gpio |-> {1}, slave_scl_gpio |-> Minus1]),
     Answer(1, [return_value |-> Minus1, errno_alt |-> {1, 2, 4}]),
     Answer(2, [return_value |-> {}, timeval |-> Time(Big, {7})]),
     Answer(3, [config_status |-> Minus1]),
     Answer(4, [success |-> {0}, temp |-> Big, rel_hum |-> {31}, pres |-> {23, 29}]),
     Rpc(1, NULL, NULL), Rpc(0, NULL, Time({}, {})),
     SetTime({0}, {}), SetTime({}, {1})}

PTime(s, has, u) == [has_tv_sec |-> TRUE, tv_sec |-> s, has_tv_usec |-> has, tv_usec |-> u]
Old(set, oneof_case, sub, stamp) ==
    <<"prototype.x_rpcmessage",
      Chosen("request_type", oneof_case, sub) @@ [has_message_type |-> TRUE,
         message_type |-> IF set THEN {0} ELSE {}, time_stamp |-> stamp]>>
Prototype ==
    {Old(FALSE, 4, [has_stub |-> FALSE], NULL),
     Old(TRUE, 1004, [timeval |-> PTime({}, TRUE, {}),
                      status |-> [has_errno |-> TRUE, errno |-> Minus1]],
         PTime({0}, FALSE, {}))}

In1 == [has_a |-> TRUE, a |-> {}] @@ Arr("r", <<{0}, Minus1>>)
In2 == [s |-> Str(<<{0, 6}>>), i |-> In1] @@ Arr("r", <<{3}>>)
In3 == [i |-> [has_a |-> TRUE, a |-> {5}]]
Out(slots) == <<"test.outer", slots>>
Test ==
    {<<"test.inner", In1>>, <<"test.inner", In2>>, <<"test.inner", In3>>,
     Out([m |-> In1] @@ Chosen("choice", 17, Str(<<{1}, {}, {2}>>)) @@ Arr("pu", <<{}, {14}>>)
         @@ Arr("rs", <<Str(<<>>), Str(<<{5}>>)>>)),
     Out([id |-> Minus1, m |-> In2, s |-> Str(<<{0, 2}>>), has_z |-> TRUE, z |-> 0..63,
          has_u |-> TRUE, u |-> {34, 63}] @@ Chosen("choice", 18, In1)
         @@ Arr("rm", <<In2, In1>>) @@ Arr("pu", <<{31}>>)),
     Out([has_b |-> TRUE, b |-> Str(<<{}, {7}>>), has_e |-> TRUE]
         @@ Arr("rb", [k \in 1..17 |-> {0}]) @@ Arr("pf", <<{0, 63}, {8}>>)),
     Out([has_b |-> TRUE]),
     <<"test.flat", [f |-> {31}, d |-> {63}, b |-> {0}, s |-> Str(<<{}>>), l |-> 0..63]>>,
     <<"test.flat", [f |-> {30}, d |-> {62}, y |-> Str(<<{}>>), x |-> Minus1]
         @@ Arr("pz", <<Minus1, {}>>) @@ Arr("pl", [k \in 1..13 |-> 0..63])
         @@ Arr("pb", <<{}, {0}>>) @@ Arr("px", <<{31}>>) @@ Arr("ps", <<{0}, 0..63>>)>>}

Built(trees) == {Build(t[1], t[2]) : t \in trees}
Older(type) == IF type = "test.outer" THEN {type, "test.older"} ELSE {type}
AllSamples == Built(Firmware \cup Prototype \cup Test) \cup {P!main_msg({5, 8})}
FirmwareSamples == Built({SetTime({0}, {}), SetTime({}, {1})})
=============================================================================
