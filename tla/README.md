# RPC_funcs in TLA+

This directory specifies the firmware of this repository, an ESP32 that answers
remote procedure calls over MQTT and reads a BME280 sensor on request, and
checks it with TLC and TLAPS. Paths are relative to the repository (`src/` is
its root).

## 1. The system

| component | code | state | operations |
|---|---|---|---|
| MQTT event handler | `main/app_main.c:586-658` | connection, subscription, the message in hand, heap blocks | connected, data arrives, unpack, dispatch through `xRPC_func`, free |
| time procedures | `app_main.c:179-275` | system clock, `errno` | `settimeofday_func`, `gettimeofday_func` |
| LED procedure | `app_main.c:276-458` | LEDC timers and channels | `ledcontroller_func` |
| sensor procedure and task | `app_main.c:460-568` | the globals `para`, `driver_installed_stat`; the task's locals | `read_sensor`, `test_i2c_rw_func` |
| I2C glue | `app_main.c:70-174` | I2C port 0 | `i2c_init_master`, `i2c_master_reg_read`, `i2c_master_reg_write`, `delay_ms` |
| BME280 driver | `components/bme280/bme280.c` | `struct bme280_dev`, the chip's registers | init, soft reset, settings, mode, data; bit fields, calibration data, delay |
| wire format | `main/messagefile.proto`, `main/messagefile.pb-c.*` | descriptors, initialisers, tables | the oneofs `Request`, `Response`, `xRPCMessage` |
| protobuf-c | `main/protobuf-c.*` | allocator, growing buffer, the message under construction | size, pack, pack to a buffer, unpack with merging, free, check, lookups |
| prototype of the format | `messagefile/*` | its own descriptors | packs and unpacks one message |
| command line clients | `python_test_files/client.py`, `client_reciever.py` | prompt, MQTT client | publish a request, print responses |
| sensor client class | `interface/interface.py`, `test.py` | message queue, last reading, the library's loop thread | serialize, send, on_message, deserialize |

How they interact. Clients publish to `101/xRPC_Request`; the broker forwards to
the device while it is subscribed. The MQTT task calls `mqtt_event_handler_cb`,
which unpacks the message and calls a procedure of the table `xRPC_func` by the
number of the oneof. Three procedures answer on the spot on
`101/xRPC_Response`. `read_sensor` stores the pins in the global `para` and
creates a FreeRTOS task that reads them later, installs the I2C driver if the
flag says no one has, runs the BME280 driver and publishes. Any number of these
tasks run beside the MQTT task. No lock protects `para`, the flag, the I2C port
or the chip. Requests carry no identity, MQTT runs at QoS 0. Both ends pack and
unpack with protobuf; the firmware's copy of protobuf-c allocates a message in
dozens of blocks. On the other side an `I2C_Sensor` starts the MQTT library's
loop thread for each request, and stops it from inside when any response comes.

What is hard about it: the interleavings of the sensor tasks with the handler
and with each other; lost connections while a task works; a restart of the
ESP32 while the chip keeps its power; the heap, which every message shrinks;
step results that are ignored or overwritten; the driver's bounded polling and
its read-modify-write of packed registers; an unpack that may fail at any
allocation, with submessages given twice that share parts until one is freed; a
client's loop thread that ends while its caller starts the next request.
`PROJECT.json` lists these hazards by line.

What makes each part correct:

* handler and procedures: an answer at most once, by the procedure called,
  from a message that is still allocated; a subscription after every
  reconnection; an answer when nothing was lost;
* clock and LED: what was answered is what is in force, which for the LED the
  code provides only of a request the hardware accepts;
* sensor task: no use of the bus before an installation, every call settled; the pins of its own request and a truthful status, which
  the code does not provide;
* driver: calibration data only after it was copied, `config` written only in
  sleep, settings given back after the reset, a reading that is the task's own,
  termination whatever fails; on the bits: every field where the data sheet has
  it, whatever was there before, and no success over an unwritten register;
* protobuf-c: what arrives is what was sent, also through a receiver that does
  not know a field; sizes exact to the byte; no block lost, freed twice or used
  after it was freed, whichever allocation fails; cut input is refused or read
  as the whole fields it holds;
* client class: a read that ends when a response comes, with the values of the
  answer to the request just made.

## 2. Modules

| module | stands for |
|---|---|
| `Ledc` | the mode ladder, the channel switch and the two ifs on the interrupt type of `ledcontroller_func`, and the two ESP-IDF calls with what they refuse (a function of the controller state, no variables) |
| `XRpcState` | constants and assumptions, the variables of the firmware and its environment, `Init`, publishing |
| `XRpcDevice` | one action per handler branch, procedure and task step; specification, properties, the inductive invariant |
| `AtMostOnceRpc` | the abstract service: calls are made, answered at most once by their own procedure, or lost |
| `Bme280Sensor` | the chip as the driver relies on it: control registers, calibration copy, one forced conversion at a time (external) |
| `Bme280State` | a task's locals and how the driver's procedures return to their callers |
| `Bme280` | one action per bus transfer of the driver; specification and properties |
| `Words` | machine words as sets of bits: shifts, masks and widths are exact |
| `Bme280Registers` | the calls of `bme280.h` on the bits of the registers, each from beginning to end |
| `ProtobufWire` | sizes, writing and parsing of one integer, tag or length |
| `ProtobufDescriptor` | the constants and tables of `protobuf-c.h`, the lookups by number and name |
| `ProtobufPack` | size and bytes of a message |
| `ProtobufBuffer` | the allocator, the growing buffer, packing to it |
| `ProtobufUnpack` | scan, allocation, parse, merge, check, free |
| `ProtobufCodec` | a sender and a receiver; specification, the sender's properties and `NoPartOnFailure` |
| `ProtobufReceived` | the receiver's other properties, with what a message means as their reference |
| `MessageFile`, `MessageFilePrototype` | the descriptors, initialisers and function tables that protoc-gen-c wrote |
| `SensorClient` | the class `I2C_Sensor`, the loop thread, broker and other clients; specification and properties |
| `MCXRpcDevice`, `MCBme280`, `MCBme280Registers`, `MCProtobuf`, `MCSensorClient` | values of the constants for TLC |
| `XRpcDevice_proofs` | the inductive invariant, types, at most one answer, ownership; the device implements the abstract service; the driver, the clock and the LED controller |
| `Bme280_proofs` | the driver with one task at a time: calibration data, sleep, settings, own reading |
| `SensorClient_proofs` | the first read is served; a client by itself reads its own answers |
| `Words_proofs` | what shifts do to bits, and which numbers bits stand for |
| `Bme280Registers_proofs` | the driver by bits: calibration data, delay, settings, modes, readings, bursts |
| `ProtobufWire_proofs` | what the readers of protobuf-c make of the bytes of its writers, for every word, tag and length |
| `ProtobufCodec_proofs` | the sender: sizes, the growing buffer, lookups, for every message and schema |
| `ProtobufUnpack_proofs` | the receiver: no message with a part missing, for every schema, any bytes for which C says what unpacking does, and any failing allocation; freeing gives every block back |

Definitions marked "seeded bug" stand above the operation they distort: each
property of a passing run is seen to fail with one of them. No specification
uses them.

### XRpcDevice and the code

Names of actions are the names of the functions where an action is a function.

* `hpc`, `cur`: where the MQTT task is in the handler and the message it holds.
  `Connected` is `MQTT_EVENT_CONNECTED`; `DataArrives` is `MQTT_EVENT_DATA` up
  to the dispatch, including the `break` that skips the free; `UnpackFails` is
  the null pointer that follows a full heap, a panic and a restart.
  `settimeofday_func`, `gettimeofday_func`, `ledcontroller_func` and `func0`
  are one action each: nothing they touch is shared with a sensor task except
  the connection. `read_sensor` is three: the two stores into `para` and the
  task creation, because a sensor task may read `para` between any two.
  `free_unpacked` is the end of the handler.
* `tpc[r]`: the sensor task of request `r`. The reads of `para`, the test of the
  flag, `i2c_param_config`, `i2c_driver_install`, the setting of the flag, the
  driver calls and the publication are separate actions, as other tasks run
  between them. `tresult` keeps `rslt2` and, for the properties only, whether
  every step so far succeeded.
* `ledc`: the LED controller. The channel switch and the ifs on the interrupt
  type (app_main.c:398-435) have no else, so a number they do not know leaves a
  field of the automatic structure uninitialized: `ChannelSwitch` and `IntrSwitch`
  choose what it holds. ESP-IDF refuses a mode, channel, pin or interrupt type the
  hardware does not have (`Accepts`) and nothing is changed; the result is
  ignored and the request acknowledged all the same. `OutputPins` are the pins
  that can be driven.
* `buffers`, `unpacked`, `Stacks`, `DriverMemory`: what the heap holds. `buffers` never shrinks:
  line 624 overwrites the only pointer to the block.
* `link`, `subscribed`, `inbox`: the clean session at the broker. `LinkDrops`
  takes the subscription and the messages in flight; a response published
  without a connection is lost.
* `PowerCycle` clears memory and hardware. The clock keeps its value or not.

Requests have an identity in the model only, to state properties; nothing the
firmware does depends on it.

### Bme280 and the code

The pc of a task is the transfer it makes next; `api` is the call the
application is in, `sleeping` says that `put_device_to_sleep` is on the stack,
so that `set_osr_settings` and the others return to the right caller
(`Return`, `Asleep`, `SettingsDone`, `OsrDone`, `HumDone`, `ResetDone`). Each
transfer may fail when `Faults`; a failed write may have reached the chip. The
application ignores the results and goes on, as `test_i2c_rw_func` does.
Settings are abstracted to 0, the reset value, and 1, the value asked for:
what matters is whether a register holds what a task wrote. `standby_time` is
never set by the application, hence either. The chip is found as an interrupted
task left it (`Found`) since a restart of the ESP32 does not reset it.
`XRpcDevice` abstracts the driver to three steps that succeed or fail;
`Bme280` is the detail of those steps.

### Bme280Registers and the code

A definition has the name of its function; a call is one step, a pipeline of
transfers joined by `Then`, which is the code's `if (rslt == BME280_OK)`. Where
the code goes on in spite of an error (`set_osr_settings`, the chip id loop) so
does the definition. A run counts its transfers; transfer number `fail` fails,
and a failed write leaves the chip alone (in `Bme280` it may also have reached
it). `last` holds the call, its faults and its result: properties compare what
the call returned with the chip and the driver before and after, in the numbers
of the data sheet, not in bits. `bme280_init` must go well before other calls,
as bme280.h:74 asks. The values a conversion leaves are given; the
compensation is modelled by which raw value and which `t_fine` it uses. The
loops of the driver are short (five reads of the chip id, six of the status, ten
registers of a burst), so they are written out, as a step applied that many times
that does nothing once the loop is over (`TryAgain`, `ReadAgain`, `PairWritten`).
A reset that is one of several registers of a burst clears the others: `BurstLands`
is about bursts without one, and `registers` runs one with. It looks at every
register: each holds the last byte that was for it (`ctrl_hum` its three bits of
it), `config` the last that found the chip asleep, and one that was given no byte
holds what it held.

### The protobuf modules and the code

A message is a function from the slots of its C structure to values, a pointer a
sequence of at most one object with the number of its heap block. Offsets are
slot names, so the casts of `STRUCT_MEMBER` become lookups by name; the slot at
offset 0, the pointer to the descriptor, is kept, because `protobuf-c` reads a
quantifier there when a field has none. An operator that may allocate takes the
heap and returns it with `ok`. The heap records `faults`, what C leaves
undefined: freeing a block that is not live, reading past an end, a length below
its prefix. The last comes of protobuf-c.c:2128, where prefix and length are added
in 32 bits: a length just below 2^32 wraps and passes the test behind it
(`PrefixedLen`). What parses such a member takes its length without the prefix,
which is then less than nothing; the model records the fault and stops there
(`BelowPrefix`, `Undefined`).
Packing, unpacking, merging, freeing and checking call themselves on submessages.
Each is a function on one level of nesting made from the same function on the
level below (`unpacked[n]` from `unpacked[n - 1]` in `protobuf_c_message_unpack`),
over `0..MaxNesting`; what is nested deeper is refused (`Refused`), and
`MaxNesting` is a bound above every message packed. A loop is a recursive
function of the number of its turns, in the order of the code.
`MessageFile` and `MessageFilePrototype` hold the tables of the generated code,
sorted as the generator sorted them; `LookupsAgree` and `InitsAgree` compare
them with a plain search and with the generic initialiser.

### SensorClient and the code

`pc` is the caller in the order of interface/README.md; `send` is two actions,
since messages may come between `loop_start` and `publish`, and `on_message`
two, since the caller may take the message before `loop_stop` is called. The
MQTT library is external: its thread ends after the packet at hand unless one
waits to be written; `loop_start` does nothing while it lives and, depending on
the version, after it was stopped from inside; it connects again without the
subscription, which only `__init__` makes. The device is reduced to what the
service promises: a request is answered at most once, in any order, or never.

## 3. Runs

The runs of the device and of `Bme280` check deadlock. In the device model some
environment step or the reconnection is always possible; in the driver model the
end of all tasks is the action `Finished`; the codec's sender can always clear
its buffer or go on. `registers` and `client` stop at their bounds, and a caller
whose response is lost does wait for ever, so they do not check it.

| run | checks | shows |
|---|---|---|
| `device` | `TypeOK`, `AtMostOnce`, `HandlerOwnsMessage`, `IInv`, `ImplementsService`, `ReadYourWrite`, `LedAsAnswered`, `DriverReady` | three requests of any of six kinds (two times, both LED modes and `max`, channel 9, a pin that is an input only, an unknown interrupt type, two duties), drops at any time, one power cycle, and a heap of six blocks: messages that do not fit, tasks that cannot be created, driver memory that is not there; `IInv` is the invariant of the proofs |
| `live` | `Settled`, `AnsweredUnlessLinkLost`, `Resubscribed` | liveness with two requests of every kind on a heap of five blocks, which fills |
| `bme_serial` | `TypeOK`, `CalibSound`, `ConfigInSleep`, `OwnReading`, `SleepKeepsSettings`, `Terminates` | one task, every transfer may fail, the chip found in any state an interrupted task may leave |
| `registers` | `CalibExact`, `SettingsApplied`, `ModeKeepsSettings`, `OnlyHumidityLost`, `OwnCompensation`, `DelayWithinOne`, `BurstLands` | `bme280_init` and up to three calls in any order, any transfer failing, settings larger than their field, all four modes; the one error that is hidden is that of the humidity write |
| `codec` | `HeapOwned`, `NoPartOnFailure`, `Arrives`, `CutIsExact`, `UnknownPassesOn`, `JoinedFlagged`, `SizeExact`, `BufferSame`, `BufferOwned`, `UnpackedChecks`, `LookupsAgree`, `InitsAgree` | one message packed, or two of a type one after the other, cut at any byte, unpacked as its own or an older type and freed, any one allocation failing |
| `client` | `OwnAnswer`, `FirstReadServed`, `ReadReturns` | three reads, two responses of other clients, a lost connection |

The remaining runs each show one statement of a comment or document that the
code does not keep; TLC finds the counterexample.

| run | statement | what happens |
|---|---|---|
| `leak` | app_main.c:647, memory is freed after usage | the block of `malloc(len)` is lost on every message, the whole tree when the message is no request |
| `params` | app_main.c:560, `para` carries the task's values | a second request overwrites them before the first task reads |
| `success` | app_main.c:540, `success` is the status of the operation | only the last call's result survives |
| `led` | client.py:47-48, `config_status` 1 means "Led control achieved" | a request for a pin that is an input only is acknowledged (app_main.c:445), and its channel runs nothing |
| `merge` | protobuf-c.c:2148, submessages given twice are merged | a proto3 scalar has no flag, so a `tv_usec` followed by a `tv_sec` in a second submessage is lost |
| `bme_clash` | app_main.c:531-535 | two tasks at once: a wrong reading with every result OK |

### Bounds and why they are enough

* Requests: three where an order of three matters (two setters and a reader; a
  task, a handler and a message in flight), two for the races of two tasks and
  for liveness. The firmware keeps no other per-request state than a task.
* `HeapBlocks`: with 6 in `device`, for three requests, two sensor tasks run
  beside a third message, and each allocation of the firmware fails somewhere;
  5 is the same for the two of `live`, but that a message always fits. The other
  runs have 8, room for all that their requests take. That three tasks at once
  change nothing for safety is in the theorems, which hold of any heap.
* `MaxBoots`: one restart puts every interrupted point next to a fresh start.
* Bodies: one of every kind, or the kinds a run is about. Pins: the two pairs of
  the documentation. `Wired` is the pair that has the sensor. `LedPins`: 2, an
  output, and 34, an input only.
* Driver: the tries are those of the code (5 and 5). One task with `AnyLeft`
  (every register contents, converting or not, or a reset not over) stands for
  tasks in turn, as all that one leaves to the next is the chip. `SetLeft`, for
  two tasks, is the chip after an applied configuration, converting or asleep.
* Registers: four calls are the initialisation, two that bring the chip into a
  state no single call leaves, and the one a property is about. `Copies`: no
  copy to wait for, one that ends during the polling, one that outlasts it (six
  reads). One failing transfer per call, any one. Settings: those of the
  application with three values of the uninitialised standby time's bits, and a
  set in which two fields do not fit. `View` leaves out `last`, which no
  property reads in the state a step starts from.
* Codec: `MaxFail` 44 is above the largest number of allocations of one unpack.
  The firmware's schema has no required, repeated or text field, so `MCProtobuf`
  adds a test schema that has, with every scalar type; integers are 0, 1, -1, the
  sign bits and values of every length of a varint. Two sizes of the code are
  smaller here, so that they are exceeded by small messages: the bitmap of
  required fields on the stack (`BitmapStack` 1 byte, 16 in the code) and the
  buffer of a nested message (`SubBuffer` 8 bytes, 256 in the code). `MaxNesting`
  4 is the deepest of these messages, `MaxCount` the array whose size stays a
  number of 31 bits. Lengths and
  tags stay below 2^31, the range of TLC's integers.
* Client: three reads and two foreign responses are enough for a response to be
  left over, taken by the next read and answered out of order.
* Symmetry over requests is used in the device's runs without liveness
  properties.

### Fairness

`FairSpec` of the device: the MQTT task and each sensor task are FreeRTOS tasks
that run when ready (the MQTT task above the sensor tasks, which share a
priority by time slices), and a broker that has a SUBSCRIBE answers it. Clients,
drops and restarts are under no fairness. `FairSpec` of the driver: each task
runs, and a forced conversion ends (the data sheet bounds it). The copy of the
calibration data is under none: the driver must end even if it never finishes.
`FairSpec` of the client: the caller's thread and the loop thread are scheduled;
network, device and the writing of packets are under none.

## 4. Proofs

TLAPS proves, for every set of requests, bodies, pins, times, any heap and any
number of restarts (under the named assumptions of `XRpcState`):

* `InductiveInvariant`: `Spec => []IInv`;
* `TypeCorrect`, `AnsweredAtMostOnce`, `MessageOwned`: types, the answer at most
  once by the right procedure, and the ownership of the message in hand;
* `DriverReadyAlways`, `ReadsWhatWasSet`, `LedRunsAsAnswered`: the three
  of the run `device` about effects;
* `DeviceImplementsService`: the device implements `AtMostOnceRpc`.

The argument. `AtMostOnce` is not inductive: nothing in it says that a request
about to be answered has not been answered. `IInv` adds where a request that
may still be answered is: in the inbox, once (`InboxInv`), in the handler
(`HandlerInv`), or with a sensor task before its publication (`AnswerInv`); in
each of these places it is unanswered, and it is in no other. Each step moves a
request from one place to the next, and the three answering procedures and
`task_publish` take it out of all. The proofs have one lemma per action or
group of actions that change the same variables. For the refinement, `open` is
the union of those places, so an action either is a step of the service (a
publication: a call; an answer sent: an answer; an answer lost, a break, a
failed creation, a drop, a restart: a loss) or leaves it unchanged.

The three about effects are inductive given `IInv`, two of them with an addition:
`DriverReady` needs to know that the flag and a task about to set it also mean
that an install has returned (`DriverInv`); `ReadYourWrite` that after a
`settimeofday` the clock holds the time of some request (`ClockInv`).
`LedAsAnswered` rests on the two switches: for a request with a known channel and
interrupt type they give what it names, whatever other requests, refused ones
among them, did to other channels.

Assumptions: bodies are well formed (`BodiesAssumption`), the null values are
not members, requests are finite, output pins are LED pins, 0 is a pin number and the sensor's pins are
pins, the epoch is a time, bounds are naturals. TLC evaluates them on every run.

For the client, and any number of reads, foreign responses and drops:

* `ClientFirstReadServed`: from the first `loop_start` until a message is in the
  queue the loop thread lives (`LoopLives`);
* `ClientOwnAnswer`: while no other client has been answered there is at most one
  request or answer on its way, in one of four places, and none when the caller
  is not waiting (`OneAtATime`). Without this a later read could take an answer
  left over.

For the driver, with `Overlap = FALSE` (the run `bme_clash` shows that without it
`DriverOwnReading` is false), and any number of tasks one after the other, any
transfers failing and any state `Found` of the chip:

* `DriverTypeCorrect`, `DriverCalibSound`, `DriverConfigInSleep`,
  `DriverOwnReading` and `DriverSleepKeepsSettings`: the safety properties of the
  run `bme_serial`.

The invariant says, for each place a task may be in, which call it is in and
whether `put_device_to_sleep` makes it (`Placed`), that the copy of the
calibration data has ended where they are read (`Calibrated`), that the chip and
the `ctrl_meas` about to be written are asleep wherever settings are written
(`Sleeps`), and which of the settings given have reached the chip (`Written`).
`Applied` carries the settings of a successful settings call through the mode
call: in the chip, in `saved` while the chip is reset, then in the conversion and
in its data. The chip belongs to the one active task (`OneActive`); a task that
is not active needs nothing of it. A failed call claims nothing, so all failing
transfers are one lemma (`TransferFails`); the humidity transfers, whose errors
are lost, are another (`HumidityStep`), and are why `Agree` leaves the humidity
out. `SleepKeepsSettings` needs the further fact that only a successful write of
config ends a successful `put_device_to_sleep` (`SleepEnds`).

For the driver by bits, and any content of the chip's memory, any chip id, any
byte in every field of the settings, any writes, any readings, any one failing
transfer of each call and any number of calls: every property of the run
`registers`, from `RegistersCalibExact` to `RegistersBurstLands`.

The argument. A call is a function of the state it starts from, so it is proved
about on any state of the types (`Runs`), before any specification is
mentioned: first one transfer (`GetRegs`, `SetOne`), then what the driver
makes of several (`SoftReset`, `GetCalib`, `PutToSleep`, `SetSettings`, `SetMode`,
...), each with what it leaves when it succeeds and that it succeeds when no
transfer fails and the copy of a reset ends in time. `Registers` has the
inductive invariant `TypeOK /\ CalibExact`: calibration data are read only after
a successful reset, when the copy is over (`PollState`), and parsing them gives
the numbers of the data sheet, for every byte (`ParseTempPress`,
`ParseHumidity`). The action properties compare the states before and after a
successful call and need only the types: `OnlyHumidityLost` compares two runs
of the same call, one without the failure (`SameOutcome`), which the part of
each lemma about success without a failure makes possible. `DelayWithinOne` is
no matter of induction: the lemma is about every settings structure. A loop
has a lemma for one turn of it (`PollStep`, `TryStep`, `BurstStep`), applied as
often as the loop turns.

Assumptions: the memory, ids, settings and readings are bytes, a burst has an
address for each byte, and its addresses are the four registers that can be
written; bounds are naturals. `TypeOK` was checked with TLC on the run's
instance before the proof.

For protobuf-c's integers, of every word of the type's width and with any bytes
behind them:

* `Varint32RoundTrip`, `Varint64RoundTrip`, `BooleanRoundTrip`, `FixedRoundTrip`,
  `ZigzagRoundTrip`: `scan_varint` ends where the writer ended, the reader makes
  the same word of it, and the size function counted its bytes;
* `TagRoundTrip`: the field number, below 2^31, and the wire type are read back,
  on both branches of `tag_pack`;
* `PrefixRoundTrip`: what stands behind a length is found, whole.

These go through one definition: `Spells(d, v)`, the bytes `d` hold seven bits of
`v` each, the lowest first, and only the last lacks the highest bit. Every
writer spells its word (`Uint32Spells`, `Int32Spells` of the sign-extended word,
`Uint64Spells` over two halves, `TagSpells`, `TaggedSpells`), and whoever reads
what spells a word gets it back as far as the width goes (`DigitsBack`,
`FirstEnd`, `SpelledRead`). TLC's runs have a few words of each length; the
theorems have all of them.

For the sender of protobuf-c's messages, of every schema, every message that
ends, any nesting, array length, unknown fields and first size of a buffer, and any
failing allocation:

* `SizesAreExact`: the size announced is the number of bytes written;
* `BuffersAreOwned`, `BuffersAreTheSame`: packing to a growing buffer leaves no
  block but the buffer's, failing or not, and when it does not fail gives the
  bytes of packing in one piece;
* `LookupsFindAll`: both binary searches find what a look through all rows finds.

The argument. A message holds messages, so the functions that measure and write
it are functions on one level of nesting after the other, made from the one on
the level below (`protobuf_c_message_pack` and the others), and not RECURSIVE
operators. What needs induction is said as membership in a set of numbers and
follows from the well-foundedness of < (`Minimal`, `Induction`, `Along`); with
it a function that is given by its entry before exists (`Recursion`), which
`Total`, `FlattenSeq`, the loops and the levels all need. Then bottom up: a
number, a field by label, a message given its submessages, and the levels.
`Written(bytes, n)`, bytes and their number, gives `PackedWritten`; on the way
`LengthSizes` shows that the length of a packed array is never further than one
byte from the guess the code makes before it has written it, its assertion.
`Goes(L, r, s, bytes)` is the invariant of sending: L are the blocks that were
live beside the buffer's, r and s what was there before and after; the blocks
are those of L and the buffer's, which is not in L (`Good`), failures stay
failures, and without one the buffer has grown by `bytes`. Neither property is
inductive without it: a nested message's buffer is one more block beside those
of the buffers around it (`SubSent`). `SizeInv` and `BufferInv` add to the
properties that what is packed are samples and what the output was made from.
A search keeps `Left`: hits are in the part left, which has less than the rounds
to come; it is proved of anything that `Narrows` and used for both searches.

Assumptions: the tables are as the generator makes them (`TablesAssumption`:
ranges in order with their sentinel, an index sorted by `strcmp` that has every
name), samples are messages of their descriptors on every level and have no
level below `MaxNesting` (`SamplesAssumption`), buffers have a size. TLC
evaluates them over the firmware's, the prototype's and the test schema.

For the receiver of protobuf-c's messages, of every schema, any bytes (what a
sender of any other schema packed, or the first of it), any heap, any nesting
and any failing allocation; the first two as long as the heap records no fault
(`Defined`). With a fault, as of bytes in which a length wraps at
protobuf-c.c:2128, C says nothing of what happens and neither do they:

* `FailuresLeaveNoPart`: `protobuf_c_message_unpack` returns NULL when one of its
  allocations failed, be it of the message, the bitmap, a slab of scanned
  members, an array, a text, an unknown field or a submessage at any depth, and
  when a merge fails half way;
* `MessagesAreWhole`: what it returns is otherwise a whole message (`Whole`): a
  slot and a quantifier for every field of its descriptor, each oneof empty or in
  the case of one of its own members, every message it holds of the type the field
  names and whole itself, down to one that holds none;
* `FreeGivesAllBack`: when the blocks of the heap are the message's, each in one
  place (`HeapOwned`), `protobuf_c_message_free_unpacked` leaves the heap empty and
  frees nothing that is not live. `OnlyUnpackCouldLose` adds that no other step
  but `Unpack` can break `HeapOwned`; that `Unpack` does not is what TLC checks.

The argument. The first needs the second, since what frees and merges is directed
by what it finds in the message under construction: a oneof in the case of
another member, or a submessage of another type, would send it through a
descriptor that is not the message's, and nothing could be said of the heap
then. `Honest(g, ok, h)` says of a step from heap g to heap h that it
allocated on the same heap and that, if it returned TRUE, no allocation failed
on the way; `Kept(g, h)` that it allocated nothing, which is what freeing does
(`FreeUnpackedKept`). Steps of one turn are composed into loops with the
induction of `ProtobufCodec_proofs`. During the scan a message has counts
without arrays (`Bare`); `allocate_repeated` zeroes every count, whether it
succeeds or clears those that remain (`AllAllotted`), so that the parse, and the
freeing after an error, start from a whole message, and each member leaves one: a scalar, a text, a submessage merged with
the one that was there, the member of a oneof that frees another, an element, a
packed array, an unknown field (`MembersParsed`). A merge moves members from the
earlier to the later message and leaves both whole (`MessagesMerged`), by field
and by level. `Unpacked` joins scan, allocation, parse and cleanup on one level,
given the level below, and then goes along the levels. `ReceiveInv` is the
invariant of the specification: the heap is one, bytes are bytes, a reader's type
has a descriptor, and what was got is NULL or whole with no failure behind it.

Freeing is proved of the blocks in three places a message has them: its own
(`Own`), those of a field's array and those behind its values. `BlocksSplit` and
`WithinSubs` say that these are all. A loop that frees in each turn what is its
own, from a heap where no two turns share a block, frees the union (`FreesAll`);
it is used for the list of a message's own blocks, for the elements of an array
and for the fields. `UnpackedFreed` goes along the levels: the hypothesis is
`Loose`, which is `HeapOwned` field by field (`SoundSplit`, `SeparateSingle`), and
the message must be whole, so that a oneof is freed by the case it is in.

Assumptions, beside those of the sender: `LayoutAssumption`, that a message is a
structure of C (fields have memory of their own, but for the members of a oneof,
which share theirs and their case) and what an initialiser leaves (no element, no
member of a oneof, no submessage); `ReadersAssumption`, that the types bytes are
read as have descriptors.

All the safety properties the passing runs check of the device, of the driver, by
transfers and by bits, of the client and of the sender of messages are proved, and
of the receiver that no part is missing and that freeing gives all back. Only
model-checked:

* liveness, which is beyond the prover under fairness: `Settled`,
  `AnsweredUnlessLinkLost`, `Resubscribed`, `Terminates`, `ReadReturns`;
* `HeapOwned`, of what the step `Unpack` leaves, for which the count of every
  array made by the scan has to be matched with what the parse puts into it,
  through packed fields and merges;
* what is in the message received: `Arrives`, `CutIsExact`, `UnknownPassesOn`,
  `JoinedFlagged`. Their references in `ProtobufReceived` (`Plain`, `Joined`,
  `Flagged`) follow what the encoding promises through all submessages and are
  RECURSIVE operators, which the prover cannot reason about;
* `UnpackedChecks`, which is claimed of schemas whose oneofs hold messages only
  (`OneofsOfMessages`, RECURSIVE as well), and `InitsAgree`, which is about the
  tables protoc-gen-c wrote and compares finitely many values.

## 5. Not modelled

* Time stamps, microseconds and the passage of time: the clock is the value it
  was last set to. The waits of the driver are modelled by what they wait for.
* The compensation formulas: the build computes in doubles, which TLA+ has not.
* The SPI branches of the driver and its tests for null pointers; the firmware
  uses I2C and passes none.
* Of protobuf-c: the RPC services, which no schema here has; the C layout of
  structures and arrays; what happens after a length wrapped at
  protobuf-c.c:2128 (recorded as a fault, which no run reaches: the lengths of a
  run are those of messages TLC can hold); `bytes` with a length and a null
  pointer, which `protobuf_c_message_check` refuses (protobuf-c.c:3435-3463) and a
  sequence cannot be; the read of
  `fields[-1]` in `merge_messages`, which none of these schemas can reach. A
  received message is what a sender packed, or the first bytes of it; other byte
  sequences are left out, since the clients of the repository send none.
* `main/messagefile.c`, an older program that does not compile against the
  schema beside it, and the Python classes protoc wrote.
* Of the LED controller: the hpoint, which is handed on, the levels the duty
  stands for, and whether something else takes a pin afterwards.
* Log output; the configuration of Wi-Fi; reading the broker's address.
* The prompts of the Python clients, and `interface2.py`, an earlier class that
  only publishes. A client that reconnects subscribes to nothing
  (interface.py:14, client.py:163): `SensorClient` models it, but that it hears
  nothing any more follows from the code and is no property to check.

## 6. Plan

Done, in this order: the device with its service and proofs (`XRpc*`, `Ledc`,
`AtMostOnceRpc`); the driver by transfers (`Bme280*`); protobuf-c and the
schemas; the driver by bits (`Bme280Registers`); the client class with its
proofs (`SensorClient`); the proofs of the driver by transfers (`Bme280_proofs`)
and by bits (`Bme280Registers_proofs`); those of protobuf-c's integers
(`ProtobufWire_proofs`), of its sender (`ProtobufCodec_proofs`) and of what its
receiver returns (`ProtobufUnpack_proofs`).

What is left:

1. `RpcSystem`: several clients, the broker and `AtMostOnceRpc` composed; what a
   client may conclude from a response without an identity.
2. `DriverSteps`: the three driver steps of `XRpcDevice` as the abstract
   specification of `Bme280`.
3. `HeapOwned` as a theorem: that the scan's counts bound what the parse stores,
   and that a merge leaves every block with one of the two messages. The other
   steps are `FreeGivesAllBack` and `OnlyUnpackCouldLose`.
