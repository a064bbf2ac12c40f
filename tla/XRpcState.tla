------------------------------ MODULE XRpcState ------------------------------
(***************************************************************************)
(* The firmware of main/app_main.c: an ESP32 that answers remote procedure *)
(* calls over MQTT.                                                        *)
(*                                                                         *)
(* Two kinds of thread run it.  The MQTT task connects, subscribes to      *)
(* 101/xRPC_Request and calls mqtt_event_handler_cb for every message; the *)
(* handler unpacks it and runs a procedure of the table xRPC_func.  The    *)
(* procedure read_sensor hands its two pins over in the global para and    *)
(* creates a sensor task, which reads them later, installs the I2C driver  *)
(* if no one has, drives the BME280 and publishes the response.  Any       *)
(* number of sensor tasks run beside the MQTT task, on two cores.          *)
(*                                                                         *)
(* Environment: clients publish requests, the broker forwards them while   *)
(* the device is subscribed, the connection drops, the device loses power. *)
(* MQTT runs at QoS 0: nothing is acknowledged, retried or duplicated.     *)
(***************************************************************************)
EXTENDS Ledc, Sequences, FiniteSets

CONSTANTS
  Requests,    \* identities of the messages clients publish (never on the wire)
  Bodies,      \* the message contents clients send
  Pins,        \* GPIO numbers
  Wired,       \* the pins the sensor is soldered to
  Times,       \* clock readings a client sets
  Epoch,       \* the clock's reading after a power-on
  HeapBlocks,  \* bound: allocations the heap can hold at once
  MaxBoots,    \* bound: power cycles considered
  NoBody, NoReq

\* The oneof numbers of messagefile.proto, which index xRPC_func.
SETTIMEOFDAY == 1
GETTIMEOFDAY == 2
LEDC_CHANNEL_CONFIG == 3
I2C == 4

\* An xRPCMessage: one whose message type is not set (client.py sends it for a
\* procedure it does not know), or a request whose function is one of the above
\* or not set.
AllBodies ==
       [type : {"not_set"}]
  \cup [type : {"request"}, case : {0}]
  \cup [type : {"request"}, case : {SETTIMEOFDAY}, time : Times]
  \cup [type : {"request"}, case : {GETTIMEOFDAY}]
  \cup [type : {"request"}, case : {LEDC_CHANNEL_CONFIG}, conf : Confs]
  \cup [type : {"request"}, case : {I2C}, sda : Pins, scl : Pins]

ASSUME BodiesAssumption == Bodies \subseteq AllBodies
ASSUME NullsAssumption == NoBody \notin AllBodies /\ NoReq \notin Requests
ASSUME RequestsAssumption == IsFiniteSet(Requests)
ASSUME PinsAssumption == 0 \in Pins /\ Wired \in [sda : Pins, scl : Pins]
ASSUME EpochAssumption == Epoch \in Times
ASSUME BoundsAssumption == HeapBlocks \in Nat /\ MaxBoots \in Nat

VARIABLES
  msg,         \* what each request holds, NoBody until a client publishes it
  link,        \* is the MQTT connection up
  subscribed,  \* the broker's view of the subscription: no, pending, yes
  inbox,       \* messages the broker has sent and the MQTT task not read yet
  hpc, cur,    \* where the MQTT task is, and the message it handles
  buffers,     \* messages whose malloc(len) block is allocated
  unpacked,    \* messages whose unpacked tree is allocated
  para,        \* the global struct param (its client never changes)
  tpc,         \* where the sensor task of each request is
  tpin,        \* the pins that task has read
  tresult,     \* its readings: have all steps succeeded, and the last one
  driver_installed_stat,
  i2c,         \* I2C port 0: driver state and pins
  ledc,        \* LED PWM controller
  clock,       \* system time: the value it was last set to
  errno,       \* errno of the MQTT task
  published,   \* responses the broker has received, in order
  boots        \* restarts so far

netVars == <<msg, link, subscribed, inbox>>
heapVars == <<buffers, unpacked>>
taskVars == <<tpc, tpin, tresult>>
busVars == <<driver_installed_stat, i2c>>
vars == <<netVars, hpc, cur, heapVars, para, taskVars, busVars,
          ledc, clock, errno, published, boots>>

-----------------------------------------------------------------------------
NoPins == [sda |-> 0, scl |-> 0]
NoResult == [all |-> TRUE, rslt2 |-> TRUE]

I2cReset == [driver |-> "absent", sda |-> 0, scl |-> 0]

\* newlib leaves 119, EINPROGRESS, behind a connect that does not block.
EINPROGRESS == 119
Errnos == {0, EINPROGRESS}

E_COMM_FAIL == -4

\* In the response of a sensor read, "measured" says whether the temperature,
\* humidity and pressure it carries are the compensated values of a conversion
\* it started.
Responses ==
       [req : Requests, case : {SETTIMEOFDAY}, return_value : {0},
        errno_alt : Errnos]
  \cup [req : Requests, case : {GETTIMEOFDAY}, return_value : {0},
        errno_alt : Errnos, timeval : Times]
  \cup [req : Requests, case : {LEDC_CHANNEL_CONFIG}, config_status : {1}]
  \cup [req : Requests, case : {I2C}, success : {0, E_COMM_FAIL},
        measured : BOOLEAN]

HandlerPc == {"idle", "dispatch", "scl", "create", "free"}
InitPc == {"param_config", "install", "flag"}
DrivePc == {"init", "mode", "data"}
WorkPc == {"sda", "scl", "check"} \cup InitPc \cup DrivePc \cup {"publish"}
TaskPc == {"none"} \cup WorkPc \cup {"linger", "deleted"}

IsRequest(r) == msg[r] # NoBody /\ msg[r].type = "request"

\* A task's stack is on the heap from xTaskCreate until vTaskDelete; the I2C
\* driver, once installed, stays.
Stacks == {r \in Requests : tpc[r] \notin {"none", "deleted"}}
DriverMemory == IF i2c.driver = "installed" THEN 1 ELSE 0
Free == HeapBlocks - Cardinality(buffers) - Cardinality(unpacked)
          - Cardinality(Stacks) - DriverMemory

Init ==
  /\ msg = [r \in Requests |-> NoBody]
  /\ link = FALSE /\ subscribed = "no" /\ inbox = << >>
  /\ hpc = "idle" /\ cur = NoReq
  /\ buffers = {} /\ unpacked = {}
  /\ para = NoPins
  /\ tpc = [r \in Requests |-> "none"]
  /\ tpin = [r \in Requests |-> NoPins]
  /\ tresult = [r \in Requests |-> NoResult]
  /\ driver_installed_stat = 0 /\ i2c = I2cReset
  /\ ledc = LedcReset
  /\ clock = Epoch /\ errno = 0
  /\ published = << >>
  /\ boots = 0

-----------------------------------------------------------------------------
\* esp_mqtt_client_publish at QoS 0: without a connection the response is lost
\* and the caller, which only logs the result, goes on.
MqttPublish(resp) ==
  published' = IF link THEN Append(published, resp) ELSE published

\* A sensor task moves from one point to the next.
TaskStep(r, from, to) == tpc[r] = from /\ tpc' = [tpc EXCEPT ![r] = to]

noTaskChange == <<netVars, hpc, cur, heapVars, para, ledc, clock, errno, boots>>

\* A transfer needs a driver on the sensor's pins, and may fail even then.
BusResults ==
  IF /\ i2c.driver = "installed"
     /\ i2c.sda = Wired.sda /\ i2c.scl = Wired.scl
    THEN BOOLEAN ELSE {FALSE}
=============================================================================
