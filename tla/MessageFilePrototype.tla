------------------------ MODULE MessageFilePrototype ------------------------
(***************************************************************************)
(* The messages of the first version of the protocol                       *)
(* (messagefile/messagefile.pb-c.c and .h), which had proto2's optional    *)
(* fields, each scalar with a has_ flag, and one oneof for all messages.   *)
(***************************************************************************)
EXTENDS ProtobufDescriptor

-----------------------------------------------------------------------------
(* The descriptors. *)

time_val__descriptor == Message(
    <<Has(Field("tv_sec", 1, "UINT32", "")),
      Has(Field("tv_usec", 2, "UINT32", ""))>>,
    <<0, 1>>, <<IntRange(1, 0), IntRange(0, 2)>>)

settimeofday_request__descriptor == Message(
    <<Optional(Sub("timeval", 1, "prototype.time_val"))>>,
    <<0>>, <<IntRange(1, 0), IntRange(0, 1)>>)

settimeofday_response__descriptor == Message(
    <<Has(Field("return_value", 1, "SINT32", "")),
      Has(Field("errno", 2, "SINT32", ""))>>,
    <<1, 0>>, <<IntRange(1, 0), IntRange(0, 2)>>)

gettimeofday_request__descriptor == Message(
    <<Has(Field("stub", 1, "INT32", ""))>>,
    <<0>>, <<IntRange(1, 0), IntRange(0, 1)>>)

gettimeofday_response__rettimeofday_request_status__descriptor == Message(
    <<Has(Field("return_value", 1, "SINT32", "")),
      Has(Field("errno", 2, "SINT32", ""))>>,
    <<1, 0>>, <<IntRange(1, 0), IntRange(0, 2)>>)

gettimeofday_response__descriptor == Message(
    <<Optional(Sub("timeval", 1, "prototype.time_val")),
      Optional(Sub("status", 2, "prototype.status"))>>,
    <<1, 0>>, <<IntRange(1, 0), IntRange(0, 2)>>)

x_rpcmessage__message_type__descriptor == Enum(
    <<EnumValue("REQUEST", 0),
      EnumValue("RESPONSE", 1)>>,
    <<0, 1>>, <<IntRange(0, 0), IntRange(0, 2)>>)

x_rpcmessage__descriptor == Message(
    <<Has(Field("message_type", 1, "ENUM", "prototype.x_rpcmessage__message_type")),
      Optional(Sub("time_stamp", 2, "prototype.time_val")),
      Optional(OneofSub("request_type", "settimeofday_request", 3,
                 "prototype.settimeofday_request")),
      Optional(OneofSub("request_type", "gettimeofday_request", 4,
                 "prototype.gettimeofday_request")),
      Optional(OneofSub("request_type", "settimeofday_response", 1003,
                 "prototype.settimeofday_response")),
      Optional(OneofSub("request_type", "gettimeofday_response", 1004,
                 "prototype.gettimeofday_response"))>>,
    <<3, 5, 0, 2, 4, 1>>, <<IntRange(1, 0), IntRange(1003, 4), IntRange(0, 6)>>)

-----------------------------------------------------------------------------
(* The structures and their initialisers. *)

TIME_VAL__INIT == InitValue("prototype.time_val",
    [has_tv_sec |-> FALSE, tv_sec |-> {}, has_tv_usec |-> FALSE, tv_usec |->
     {}])
SETTIMEOFDAY_REQUEST__INIT == InitValue("prototype.settimeofday_request",
    [timeval |-> NULL])
SETTIMEOFDAY_RESPONSE__INIT == InitValue("prototype.settimeofday_response",
    [has_return_value |-> FALSE, return_value |-> {}, has_errno |-> FALSE,
     errno |-> {}])
GETTIMEOFDAY_REQUEST__INIT == InitValue("prototype.gettimeofday_request",
    [has_stub |-> FALSE, stub |-> {}])
GETTIMEOFDAY_RESPONSE__RETTIMEOFDAY_REQUEST_STATUS__INIT == InitValue("prototype.status",
    [has_return_value |-> FALSE, return_value |-> {}, has_errno |-> FALSE,
     errno |-> {}])
GETTIMEOFDAY_RESPONSE__INIT == InitValue("prototype.gettimeofday_response",
    [timeval |-> NULL, status |-> NULL])
X_RPCMESSAGE__INIT == InitValue("prototype.x_rpcmessage",
    [has_message_type |-> FALSE, message_type |-> {}, time_stamp |-> NULL,
     request_type_case |-> 0, request_type |-> NULL])

-----------------------------------------------------------------------------
(* The generated functions. *)

time_val__functions == Generated("prototype.time_val", TIME_VAL__INIT)
settimeofday_request__functions ==
    Generated("prototype.settimeofday_request", SETTIMEOFDAY_REQUEST__INIT)
settimeofday_response__functions ==
    Generated("prototype.settimeofday_response", SETTIMEOFDAY_RESPONSE__INIT)
gettimeofday_request__functions ==
    Generated("prototype.gettimeofday_request", GETTIMEOFDAY_REQUEST__INIT)
gettimeofday_response__rettimeofday_request_status__functions ==
    Generated("prototype.status", GETTIMEOFDAY_RESPONSE__RETTIMEOFDAY_REQUEST_STATUS__INIT)
gettimeofday_response__functions ==
    Generated("prototype.gettimeofday_response", GETTIMEOFDAY_RESPONSE__INIT)
x_rpcmessage__functions ==
    Generated("prototype.x_rpcmessage", X_RPCMESSAGE__INIT)

-----------------------------------------------------------------------------
DescriptorsPrototype ==
    "prototype.time_val" :> time_val__descriptor @@
    "prototype.settimeofday_request" :> settimeofday_request__descriptor @@
    "prototype.settimeofday_response" :> settimeofday_response__descriptor @@
    "prototype.gettimeofday_request" :> gettimeofday_request__descriptor @@
    "prototype.status" :> gettimeofday_response__rettimeofday_request_status__descriptor @@
    "prototype.gettimeofday_response" :> gettimeofday_response__descriptor @@
    "prototype.x_rpcmessage" :> x_rpcmessage__descriptor
EnumsPrototype ==
    "prototype.x_rpcmessage__message_type" :> x_rpcmessage__message_type__descriptor
FunctionsPrototype ==
    "prototype.time_val" :> time_val__functions @@
    "prototype.settimeofday_request" :> settimeofday_request__functions @@
    "prototype.settimeofday_response" :> settimeofday_response__functions @@
    "prototype.gettimeofday_request" :> gettimeofday_request__functions @@
    "prototype.status" :> gettimeofday_response__rettimeofday_request_status__functions @@
    "prototype.gettimeofday_response" :> gettimeofday_response__functions @@
    "prototype.x_rpcmessage" :> x_rpcmessage__functions

-----------------------------------------------------------------------------
\* The message the program of the prototype packs and unpacks; what it
\* unpacks it does not free.
main_msg(now) ==
    LET time(has_usec, usec) ==
            [TIME_VAL__INIT EXCEPT !.has_tv_sec = TRUE, !.tv_sec = now,
                                   !.has_tv_usec = has_usec, !.tv_usec = usec]
        request == [SETTIMEOFDAY_REQUEST__INIT EXCEPT
                        !.timeval = <<time(TRUE, {3, 4, 5, 6, 8, 9})>>]
    IN  [X_RPCMESSAGE__INIT EXCEPT
            !.has_message_type = TRUE, !.message_type = {},
            !.time_stamp = <<time(FALSE, {})>>,
            !.request_type_case = 3, !.request_type = <<request>>]
=============================================================================
