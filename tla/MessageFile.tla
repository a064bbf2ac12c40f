---------------------------- MODULE MessageFile ----------------------------
(***************************************************************************)
(* The messages of the firmware, as protoc-gen-c wrote them                *)
(* (main/messagefile.pb-c.c and .h): the descriptor, the initialiser and   *)
(* the functions of every message type.                                    *)
(***************************************************************************)
EXTENDS ProtobufDescriptor

-----------------------------------------------------------------------------
(* The descriptors. *)

time_val__descriptor == Message(
    <<Field("tv_sec", 1, "UINT32", ""),
      Field("tv_usec", 2, "UINT32", "")>>,
    <<0, 1>>, <<IntRange(1, 0), IntRange(0, 2)>>)

ledc_channel_config_t__descriptor == Message(
    <<Field("gpio_num", 1, "INT32", ""),
      Sub("speed_mode", 2, "ledc_mode_t"),
      Sub("channel", 3, "ledc_channel_t"),
      Sub("intr_type", 4, "ledc_intr_type_t"),
      Field("duty", 5, "UINT32", ""),
      Field("hpoint", 6, "INT32", "")>>,
    <<2, 4, 0, 5, 3, 1>>, <<IntRange(1, 0), IntRange(0, 6)>>)

ledc_intr_type_t__interrupt_type__descriptor == Enum(
    <<EnumValue("LEDC_INTR_DISABLE", 0),
      EnumValue("LEDC_INTR_FADE_END", 1)>>,
    <<0, 1>>, <<IntRange(0, 0), IntRange(0, 2)>>)

ledc_intr_type_t__descriptor == Message(
    <<Field("intr", 1, "ENUM", "ledc_intr_type_t__interrupt_type")>>,
    <<0>>, <<IntRange(1, 0), IntRange(0, 1)>>)

ledc_channel_t__descriptor == Message(
    <<Field("channel", 1, "INT32", "")>>,
    <<0>>, <<IntRange(1, 0), IntRange(0, 1)>>)

ledc_mode_t__ledc_mode_e__descriptor == Enum(
    <<EnumValue("LEDC_HIGH_SPEED_MODE", 0),
      EnumValue("LEDC_LOW_SPEED_MODE", 1),
      EnumValue("LEDC_SPEED_MODE_MAX", 2)>>,
    <<0, 1, 2>>, <<IntRange(0, 0), IntRange(0, 3)>>)

ledc_mode_t__descriptor == Message(
    <<Field("ledc_speed", 1, "ENUM", "ledc_mode_t__ledc_mode_e")>>,
    <<0>>, <<IntRange(1, 0), IntRange(0, 1)>>)

i2c_operations_request__descriptor == Message(
    <<Field("slave_sda_gpio", 1, "INT32", ""),
      Field("slave_scl_gpio", 2, "INT32", "")>>,
    <<1, 0>>, <<IntRange(1, 0), IntRange(0, 2)>>)

i2c_operations_response__descriptor == Message(
    <<Field("success", 1, "INT32", ""),
      Field("temp", 2, "FLOAT", ""),
      Field("rel_hum", 3, "FLOAT", ""),
      Field("pres", 4, "FLOAT", "")>>,
    <<3, 2, 0, 1>>, <<IntRange(1, 0), IntRange(0, 4)>>)

settimeofday_request__descriptor == Message(
    <<Sub("timeval", 1, "time_val")>>,
    <<0>>, <<IntRange(1, 0), IntRange(0, 1)>>)

settimeofday_response__descriptor == Message(
    <<Field("return_value", 1, "SINT32", ""),
      Field("errno_alt", 2, "SINT32", "")>>,
    <<1, 0>>, <<IntRange(1, 0), IntRange(0, 2)>>)

gettimeofday_request__descriptor == Message(
    <<Field("stub", 1, "INT32", "")>>,
    <<0>>, <<IntRange(1, 0), IntRange(0, 1)>>)

gettimeofday_response__descriptor == Message(
    <<Field("return_value", 1, "SINT32", ""),
      Field("errno_alt", 2, "SINT32", ""),
      Sub("timeval", 3, "time_val")>>,
    <<1, 0, 2>>, <<IntRange(1, 0), IntRange(0, 3)>>)

ledc_channel_config__request__descriptor == Message(
    <<Sub("ledc_conf", 1, "ledc_channel_config_t")>>,
    <<0>>, <<IntRange(1, 0), IntRange(0, 1)>>)

ledc_channel_config__response__descriptor == Message(
    <<Field("config_status", 1, "INT32", "")>>,
    <<0>>, <<IntRange(1, 0), IntRange(0, 1)>>)

request__descriptor == Message(
    <<OneofSub("request_func", "settimeofday_request", 1, "settimeofday_request"),
      OneofSub("request_func", "gettimeofday_request", 2, "gettimeofday_request"),
      OneofSub("request_func", "ledc_channel_config_request", 3,
                 "ledc_channel_config__request"),
      OneofSub("request_func", "i2c_request", 4, "i2c_operations_request")>>,
    <<1, 3, 2, 0>>, <<IntRange(1, 0), IntRange(0, 4)>>)

response__descriptor == Message(
    <<OneofSub("response_func", "settimeofday_response", 1, "settimeofday_response"),
      OneofSub("response_func", "gettimeofday_response", 2, "gettimeofday_response"),
      OneofSub("response_func", "ledc_channel_config_response", 3,
                 "ledc_channel_config__response"),
      OneofSub("response_func", "i2c_response", 4, "i2c_operations_response")>>,
    <<1, 3, 2, 0>>, <<IntRange(1, 0), IntRange(0, 4)>>)

x_rpcmessage__descriptor == Message(
    <<OneofSub("message_type", "request", 1, "request"),
      OneofSub("message_type", "response", 2, "response"),
      Sub("time_stamp", 3, "time_val")>>,
    <<0, 1, 2>>, <<IntRange(1, 0), IntRange(0, 3)>>)

-----------------------------------------------------------------------------
(* The structures and their initialisers. *)

TIME_VAL__INIT == InitValue("time_val", [tv_sec |-> {}, tv_usec |-> {}])
LEDC_CHANNEL_CONFIG_T__INIT == InitValue("ledc_channel_config_t",
    [gpio_num |-> {}, speed_mode |-> NULL, channel |-> NULL, intr_type |->
     NULL, duty |-> {}, hpoint |-> {}])
LEDC_INTR_TYPE_T__INIT == InitValue("ledc_intr_type_t", [intr |-> {}])
LEDC_CHANNEL_T__INIT == InitValue("ledc_channel_t", [channel |-> {}])
LEDC_MODE_T__INIT == InitValue("ledc_mode_t", [ledc_speed |-> {}])
I2C_OPERATIONS_REQUEST__INIT == InitValue("i2c_operations_request",
    [slave_sda_gpio |-> {}, slave_scl_gpio |-> {}])
I2C_OPERATIONS_RESPONSE__INIT == InitValue("i2c_operations_response",
    [success |-> {}, temp |-> {}, rel_hum |-> {}, pres |-> {}])
SETTIMEOFDAY_REQUEST__INIT == InitValue("settimeofday_request",
    [timeval |-> NULL])
SETTIMEOFDAY_RESPONSE__INIT == InitValue("settimeofday_response",
    [return_value |-> {}, errno_alt |-> {}])
GETTIMEOFDAY_REQUEST__INIT == InitValue("gettimeofday_request", [stub |-> {}])
GETTIMEOFDAY_RESPONSE__INIT == InitValue("gettimeofday_response",
    [return_value |-> {}, errno_alt |-> {}, timeval |-> NULL])
LEDC_CHANNEL_CONFIG__REQUEST__INIT == InitValue("ledc_channel_config__request",
    [ledc_conf |-> NULL])
LEDC_CHANNEL_CONFIG__RESPONSE__INIT == InitValue("ledc_channel_config__response",
    [config_status |-> {}])
REQUEST__INIT == InitValue("request",
    [request_func_case |-> 0, request_func |-> NULL])
RESPONSE__INIT == InitValue("response",
    [response_func_case |-> 0, response_func |-> NULL])
X_RPCMESSAGE__INIT == InitValue("x_rpcmessage",
    [time_stamp |-> NULL, message_type_case |-> 0, message_type |-> NULL])

-----------------------------------------------------------------------------
(* The generated functions. *)

time_val__functions == Generated("time_val", TIME_VAL__INIT)
ledc_channel_config_t__functions ==
    Generated("ledc_channel_config_t", LEDC_CHANNEL_CONFIG_T__INIT)
ledc_intr_type_t__functions ==
    Generated("ledc_intr_type_t", LEDC_INTR_TYPE_T__INIT)
ledc_channel_t__functions == Generated("ledc_channel_t", LEDC_CHANNEL_T__INIT)
ledc_mode_t__functions == Generated("ledc_mode_t", LEDC_MODE_T__INIT)
i2c_operations_request__functions ==
    Generated("i2c_operations_request", I2C_OPERATIONS_REQUEST__INIT)
i2c_operations_response__functions ==
    Generated("i2c_operations_response", I2C_OPERATIONS_RESPONSE__INIT)
settimeofday_request__functions ==
    Generated("settimeofday_request", SETTIMEOFDAY_REQUEST__INIT)
settimeofday_response__functions ==
    Generated("settimeofday_response", SETTIMEOFDAY_RESPONSE__INIT)
gettimeofday_request__functions ==
    Generated("gettimeofday_request", GETTIMEOFDAY_REQUEST__INIT)
gettimeofday_response__functions ==
    Generated("gettimeofday_response", GETTIMEOFDAY_RESPONSE__INIT)
ledc_channel_config__request__functions ==
    Generated("ledc_channel_config__request", LEDC_CHANNEL_CONFIG__REQUEST__INIT)
ledc_channel_config__response__functions ==
    Generated("ledc_channel_config__response", LEDC_CHANNEL_CONFIG__RESPONSE__INIT)
request__functions == Generated("request", REQUEST__INIT)
response__functions == Generated("response", RESPONSE__INIT)
x_rpcmessage__functions == Generated("x_rpcmessage", X_RPCMESSAGE__INIT)

-----------------------------------------------------------------------------
DescriptorsMessageFile ==
    "time_val" :> time_val__descriptor @@
    "ledc_channel_config_t" :> ledc_channel_config_t__descriptor @@
    "ledc_intr_type_t" :> ledc_intr_type_t__descriptor @@
    "ledc_channel_t" :> ledc_channel_t__descriptor @@
    "ledc_mode_t" :> ledc_mode_t__descriptor @@
    "i2c_operations_request" :> i2c_operations_request__descriptor @@
    "i2c_operations_response" :> i2c_operations_response__descriptor @@
    "settimeofday_request" :> settimeofday_request__descriptor @@
    "settimeofday_response" :> settimeofday_response__descriptor @@
    "gettimeofday_request" :> gettimeofday_request__descriptor @@
    "gettimeofday_response" :> gettimeofday_response__descriptor @@
    "ledc_channel_config__request" :> ledc_channel_config__request__descriptor @@
    "ledc_channel_config__response" :> ledc_channel_config__response__descriptor @@
    "request" :> request__descriptor @@
    "response" :> response__descriptor @@
    "x_rpcmessage" :> x_rpcmessage__descriptor
EnumsMessageFile ==
    "ledc_intr_type_t__interrupt_type" :> ledc_intr_type_t__interrupt_type__descriptor @@
    "ledc_mode_t__ledc_mode_e" :> ledc_mode_t__ledc_mode_e__descriptor
FunctionsMessageFile ==
    "time_val" :> time_val__functions @@
    "ledc_channel_config_t" :> ledc_channel_config_t__functions @@
    "ledc_intr_type_t" :> ledc_intr_type_t__functions @@
    "ledc_channel_t" :> ledc_channel_t__functions @@
    "ledc_mode_t" :> ledc_mode_t__functions @@
    "i2c_operations_request" :> i2c_operations_request__functions @@
    "i2c_operations_response" :> i2c_operations_response__functions @@
    "settimeofday_request" :> settimeofday_request__functions @@
    "settimeofday_response" :> settimeofday_response__functions @@
    "gettimeofday_request" :> gettimeofday_request__functions @@
    "gettimeofday_response" :> gettimeofday_response__functions @@
    "ledc_channel_config__request" :> ledc_channel_config__request__functions @@
    "ledc_channel_config__response" :> ledc_channel_config__response__functions @@
    "request" :> request__functions @@
    "response" :> response__functions @@
    "x_rpcmessage" :> x_rpcmessage__functions
=============================================================================
