----------------------------- MODULE XRpcDevice -----------------------------
(***************************************************************************)
(* The operations of the firmware and of its environment, one action each, *)
(* over the state of XRpcState; then the properties.  A definition marked  *)
(* "seeded bug" is the one below it with a plausible mistake, with which a *)
(* property is seen to fail; no specification uses it.                     *)
(***************************************************************************)
EXTENDS XRpcState

-----------------------------------------------------------------------------
(* Environment: broker, clients, network, power.                           *)

\* A client publishes; the broker forwards it only to a live subscription.
Publish(r, b) ==
  /\ msg[r] = NoBody
  /\ msg' = [msg EXCEPT ![r] = b]
  /\ inbox' = IF subscribed = "yes" THEN Append(inbox, r) ELSE inbox
  /\ UNCHANGED <<link, subscribed, hpc, cur, heapVars, para, taskVars, busVars,
                 ledc, clock, errno, published, boots>>

BrokerSubscribes ==
  /\ subscribed = "pending"
  /\ subscribed' = "yes"
  /\ UNCHANGED <<msg, link, inbox, hpc, cur, heapVars, para, taskVars, busVars,
                 ledc, clock, errno, published, boots>>

\* The session is a clean one: the subscription and what was sent on it go.
LinkDrops ==
  /\ link
  /\ link' = FALSE /\ subscribed' = "no" /\ inbox' = << >>
  /\ UNCHANGED <<msg, hpc, cur, heapVars, para, taskVars, busVars,
                 ledc, clock, errno, published, boots>>

\* A restart clears memory and hardware; the clock may survive a panic.
Restart ==
  /\ link' = FALSE /\ subscribed' = "no" /\ inbox' = << >>
  /\ hpc' = "idle" /\ cur' = NoReq
  /\ buffers' = {} /\ unpacked' = {}
  /\ para' = NoPins
  /\ tpc' = [r \in Requests |-> IF tpc[r] = "none" THEN "none" ELSE "deleted"]
  /\ tpin' = [r \in Requests |-> NoPins]
  /\ tresult' = [r \in Requests |-> NoResult]
  /\ driver_installed_stat' = 0 /\ i2c' = I2cReset
  /\ ledc' = LedcReset
  /\ clock' \in {clock, Epoch} /\ errno' = 0
  /\ boots' = boots + 1
  /\ UNCHANGED <<msg, published>>

PowerCycle == boots < MaxBoots /\ Restart

-----------------------------------------------------------------------------
(* The MQTT task.                                                          *)

\* (Seeded bug.) The subscription is made on the first connection only.
Connected_NoSubscribe ==
  /\ hpc = "idle" /\ ~link
  /\ link' = TRUE
  /\ subscribed' = IF errno = 0 THEN "pending" ELSE "no"
  /\ errno' = EINPROGRESS
  /\ UNCHANGED <<msg, inbox, hpc, cur, heapVars, para, taskVars, busVars,
                 ledc, clock, published, boots>>

\* MQTT_EVENT_CONNECTED: the handler sends the subscription.
Connected ==
  /\ hpc = "idle" /\ ~link
  /\ link' = TRUE /\ subscribed' = "pending"
  /\ errno' = EINPROGRESS
  /\ UNCHANGED <<msg, inbox, hpc, cur, heapVars, para, taskVars, busVars,
                 ledc, clock, published, boots>>

\* MQTT_EVENT_DATA: malloc(len), whose pointer the next line overwrites, then
\* x_rpcmessage__unpack.  A request is dispatched; anything else takes the
\* break, which skips x_rpcmessage__free_unpacked.
DataArrives ==
  /\ hpc = "idle" /\ inbox # << >>
  /\ Free >= 2
  /\ LET r == Head(inbox) IN
       /\ inbox' = Tail(inbox)
       /\ buffers' = buffers \cup {r}
       /\ unpacked' = unpacked \cup {r}
       /\ IF IsRequest(r)
            THEN hpc' = "dispatch" /\ cur' = r
            ELSE UNCHANGED <<hpc, cur>>
  /\ UNCHANGED <<msg, link, subscribed, para, taskVars, busVars,
                 ledc, clock, errno, published, boots>>

\* With no room for both blocks unpack returns NULL, which is dereferenced.
UnpackFails ==
  /\ hpc = "idle" /\ inbox # << >>
  /\ Free < 2
  /\ Restart

\* (Seeded bug.) A copied line of the dispatch table is left unchanged.
xRPC_func_Repeated ==
  [c \in 0 .. 4 |->
     CASE c = 0 -> "func0"
       [] c = SETTIMEOFDAY -> "settimeofday_func"
       [] c = GETTIMEOFDAY -> "gettimeofday_func"
       [] c = LEDC_CHANNEL_CONFIG -> "gettimeofday_func"
       [] c = I2C -> "read_sensor"]

xRPC_func ==
  [c \in 0 .. 4 |->
     CASE c = 0 -> "func0"
       [] c = SETTIMEOFDAY -> "settimeofday_func"
       [] c = GETTIMEOFDAY -> "gettimeofday_func"
       [] c = LEDC_CHANNEL_CONFIG -> "ledcontroller_func"
       [] c = I2C -> "read_sensor"]

Dispatched(f) == hpc = "dispatch" /\ xRPC_func[msg[cur].case] = f

func0 ==
  /\ Dispatched("func0")
  /\ hpc' = "free"
  /\ UNCHANGED <<netVars, cur, heapVars, para, taskVars, busVars,
                 ledc, clock, errno, published, boots>>

\* (Seeded bug.) The procedure answers without setting the clock.
settimeofday_func_NotSet ==
  /\ hpc = "dispatch" /\ msg[cur].case = SETTIMEOFDAY
  /\ hpc' = "free"
  /\ MqttPublish([req |-> cur, case |-> SETTIMEOFDAY, return_value |-> 0,
                  errno_alt |-> errno])
  /\ UNCHANGED <<netVars, cur, heapVars, para, taskVars, busVars,
                 ledc, clock, errno, boots>>

settimeofday_func ==
  /\ Dispatched("settimeofday_func")
  /\ hpc' = "free"
  /\ clock' = msg[cur].time
  /\ MqttPublish([req |-> cur, case |-> SETTIMEOFDAY, return_value |-> 0,
                  errno_alt |-> errno])
  /\ UNCHANGED <<netVars, cur, heapVars, para, taskVars, busVars,
                 ledc, errno, boots>>

gettimeofday_func ==
  /\ Dispatched("gettimeofday_func")
  /\ hpc' = "free"
  /\ MqttPublish([req |-> cur, case |-> GETTIMEOFDAY, return_value |-> 0,
                  errno_alt |-> errno, timeval |-> clock])
  /\ UNCHANGED <<netVars, cur, heapVars, para, taskVars, busVars,
                 ledc, clock, errno, boots>>

ledcontroller_func ==
  /\ Dispatched("ledcontroller_func")
  /\ hpc' = "free"
  /\ \E channel \in ChannelSwitch(msg[cur].conf), intr \in IntrSwitch(msg[cur].conf) :
       ledc' = Configured(ledc, msg[cur].conf, channel, intr)
  /\ MqttPublish([req |-> cur, case |-> LEDC_CHANNEL_CONFIG,
                  config_status |-> 1])
  /\ UNCHANGED <<netVars, cur, heapVars, para, taskVars, busVars,
                 clock, errno, boots>>

\* read_sensor: two stores into para, then xTaskCreate, whose result is not
\* looked at.  A sensor task may run between any two of them.
read_sensor_sda ==
  /\ Dispatched("read_sensor")
  /\ hpc' = "scl"
  /\ para' = [para EXCEPT !.sda = msg[cur].sda]
  /\ UNCHANGED <<netVars, cur, heapVars, taskVars, busVars,
                 ledc, clock, errno, published, boots>>

read_sensor_scl ==
  /\ hpc = "scl"
  /\ hpc' = "create"
  /\ para' = [para EXCEPT !.scl = msg[cur].scl]
  /\ UNCHANGED <<netVars, cur, heapVars, taskVars, busVars,
                 ledc, clock, errno, published, boots>>

\* (Seeded bug.) read_sensor answers at once, as the other procedures do, and
\* its task answers again.
read_sensor_create_Answers ==
  /\ hpc = "create"
  /\ hpc' = "free"
  /\ tpc' = IF Free > 0 THEN [tpc EXCEPT ![cur] = "sda"] ELSE tpc
  /\ MqttPublish([req |-> cur, case |-> I2C, success |-> 0, measured |-> FALSE])
  /\ UNCHANGED <<netVars, cur, heapVars, para, tpin, tresult, busVars,
                 ledc, clock, errno, boots>>

read_sensor_create ==
  /\ hpc = "create"
  /\ hpc' = "free"
  /\ tpc' = IF Free > 0 THEN [tpc EXCEPT ![cur] = "sda"] ELSE tpc
  /\ UNCHANGED <<netVars, cur, heapVars, para, tpin, tresult, busVars,
                 ledc, clock, errno, published, boots>>

\* (Seeded bug.) The message is not freed once its procedure has returned.
free_unpacked_Forgotten ==
  /\ hpc = "free"
  /\ hpc' = "idle" /\ cur' = NoReq
  /\ UNCHANGED <<netVars, heapVars, para, taskVars, busVars,
                 ledc, clock, errno, published, boots>>

free_unpacked ==
  /\ hpc = "free"
  /\ hpc' = "idle" /\ cur' = NoReq
  /\ unpacked' = unpacked \ {cur}
  /\ UNCHANGED <<netVars, buffers, para, taskVars, busVars,
                 ledc, clock, errno, published, boots>>

MqttTask ==
  \/ Connected \/ DataArrives \/ UnpackFails
  \/ func0 \/ settimeofday_func \/ gettimeofday_func \/ ledcontroller_func
  \/ read_sensor_sda \/ read_sensor_scl \/ read_sensor_create
  \/ free_unpacked

-----------------------------------------------------------------------------
(* A sensor task: test_i2c_rw_func.                                        *)

read_sda(r) ==
  /\ TaskStep(r, "sda", "scl")
  /\ tpin' = [tpin EXCEPT ![r].sda = para.sda]
  /\ UNCHANGED <<noTaskChange, tresult, busVars, published>>

read_scl(r) ==
  /\ TaskStep(r, "scl", "check")
  /\ tpin' = [tpin EXCEPT ![r].scl = para.scl]
  /\ UNCHANGED <<noTaskChange, tresult, busVars, published>>

\* (Seeded bug.) The flag is set before the driver is installed, not after.
check_installed_FlagFirst(r) ==
  /\ TaskStep(r, "check",
              IF driver_installed_stat = 0 THEN "param_config" ELSE "init")
  /\ driver_installed_stat' = 1
  /\ UNCHANGED <<noTaskChange, tpin, tresult, i2c, published>>

check_installed(r) ==
  /\ TaskStep(r, "check",
              IF driver_installed_stat = 0 THEN "param_config" ELSE "init")
  /\ UNCHANGED <<noTaskChange, tpin, tresult, busVars, published>>

\* i2c_init_master: i2c_param_config moves the port to the pins at once, then
\* i2c_driver_install takes its memory; the probe that follows is only printed.
param_config(r) ==
  /\ TaskStep(r, "param_config", "install")
  /\ i2c' = [i2c EXCEPT !.sda = tpin[r].sda, !.scl = tpin[r].scl]
  /\ UNCHANGED <<noTaskChange, tpin, tresult, driver_installed_stat, published>>

driver_install(r) ==
  /\ TaskStep(r, "install", "flag")
  /\ i2c' = [i2c EXCEPT !.driver =
               CASE @ = "installed" -> "installed"    \* refused, keeps running
                 [] Free > 0 -> "installed"
                 [] OTHER -> "no_memory"]
  /\ UNCHANGED <<noTaskChange, tpin, tresult, driver_installed_stat, published>>

\* (Seeded bug.) driver_installed_stat counts the installations.
set_installed_Counts(r) ==
  /\ TaskStep(r, "flag", "init")
  /\ driver_installed_stat' = driver_installed_stat + 1
  /\ UNCHANGED <<noTaskChange, tpin, tresult, i2c, published>>

set_installed(r) ==
  /\ TaskStep(r, "flag", "init")
  /\ driver_installed_stat' = 1
  /\ UNCHANGED <<noTaskChange, tpin, tresult, i2c, published>>

\* bme280_init and bme280_set_sensor_settings; rslt is only printed.
sensor_init(r) ==
  /\ TaskStep(r, "init", "mode")
  /\ \E ok \in BusResults :
       tresult' = [tresult EXCEPT ![r].all = @ /\ ok]
  /\ UNCHANGED <<noTaskChange, tpin, busVars, published>>

\* bme280_set_sensor_mode: the result goes to rslt2.
sensor_mode(r) ==
  /\ TaskStep(r, "mode", "data")
  /\ \E ok \in BusResults :
       tresult' = [tresult EXCEPT ![r] = [all |-> @.all /\ ok, rslt2 |-> ok]]
  /\ UNCHANGED <<noTaskChange, tpin, busVars, published>>

\* (Seeded bug.) A task whose last transfer fails starts over, without a limit.
sensor_data_Retry(r) ==
  /\ \E ok \in BusResults :
       /\ TaskStep(r, "data", IF ok THEN "publish" ELSE "init")
       /\ tresult' = [tresult EXCEPT ![r] = [all |-> ok, rslt2 |-> ok]]
  /\ UNCHANGED <<noTaskChange, tpin, busVars, published>>

\* The delay, then bme280_get_sensor_data: its result goes to rslt2 as well.
sensor_data(r) ==
  /\ TaskStep(r, "data", "publish")
  /\ \E ok \in BusResults :
       tresult' = [tresult EXCEPT ![r] = [all |-> @.all /\ ok, rslt2 |-> ok]]
  /\ UNCHANGED <<noTaskChange, tpin, busVars, published>>

\* (Seeded bug.) The sensor task publishes and then goes back to publish again.
task_publish_Twice(r) ==
  /\ TaskStep(r, "publish", IF Len(published) < 2 THEN "publish" ELSE "linger")
  /\ MqttPublish([req |-> r, case |-> I2C,
                  success |-> IF tresult[r].rslt2 THEN 0 ELSE E_COMM_FAIL,
                  measured |-> tresult[r].all])
  /\ UNCHANGED <<noTaskChange, tpin, tresult, busVars>>

\* (Seeded bug.) The response is given up when another one is already out.
task_publish_Dropped(r) ==
  /\ TaskStep(r, "publish", "linger")
  /\ published' = IF published = << >>
                    THEN Append(published, [req |-> r, case |-> I2C,
                           success |-> 0, measured |-> tresult[r].all])
                    ELSE published
  /\ UNCHANGED <<noTaskChange, tpin, tresult, busVars>>

task_publish(r) ==
  /\ TaskStep(r, "publish", "linger")
  /\ MqttPublish([req |-> r, case |-> I2C,
                  success |-> IF tresult[r].rslt2 THEN 0 ELSE E_COMM_FAIL,
                  measured |-> tresult[r].all])
  /\ UNCHANGED <<noTaskChange, tpin, tresult, busVars>>

\* Two seconds later the task deletes itself.
task_delete(r) ==
  /\ TaskStep(r, "linger", "deleted")
  /\ tpin' = [tpin EXCEPT ![r] = NoPins]
  /\ tresult' = [tresult EXCEPT ![r] = NoResult]
  /\ UNCHANGED <<noTaskChange, busVars, published>>

SensorTask(r) ==
  \/ read_sda(r) \/ read_scl(r) \/ check_installed(r)
  \/ param_config(r) \/ driver_install(r) \/ set_installed(r)
  \/ sensor_init(r) \/ sensor_mode(r) \/ sensor_data(r)
  \/ task_publish(r) \/ task_delete(r)

-----------------------------------------------------------------------------
Next ==
  \/ \E r \in Requests, b \in Bodies : Publish(r, b)
  \/ BrokerSubscribes
  \/ LinkDrops
  \/ PowerCycle
  \/ MqttTask
  \/ \E r \in Requests : SensorTask(r)

Spec == Init /\ [][Next]_vars

\* The MQTT task and the sensor tasks are FreeRTOS tasks the scheduler runs
\* when they are ready, and the broker answers a subscription it has got.
\* Clients need not publish; links and power need not fail.
Fairness ==
  /\ WF_vars(BrokerSubscribes)
  /\ WF_vars(MqttTask)
  /\ \A r \in Requests : WF_vars(SensorTask(r))

FairSpec == Spec /\ Fairness

-----------------------------------------------------------------------------
(* Properties.                                                             *)

\* Every variable keeps to its type; in particular the responses are the ones
\* the four procedures build.
TypeOK ==
  /\ msg \in [Requests -> Bodies \cup {NoBody}]
  /\ link \in BOOLEAN /\ subscribed \in {"no", "pending", "yes"}
  /\ inbox \in Seq(Requests)
  /\ hpc \in HandlerPc /\ cur \in Requests \cup {NoReq}
  /\ buffers \subseteq Requests /\ unpacked \subseteq Requests
  /\ para \in [sda : Pins, scl : Pins]
  /\ tpc \in [Requests -> TaskPc]
  /\ tpin \in [Requests -> [sda : Pins, scl : Pins]]
  /\ tresult \in [Requests -> [all : BOOLEAN, rslt2 : BOOLEAN]]
  /\ driver_installed_stat \in {0, 1}
  /\ i2c \in [driver : {"absent", "installed", "no_memory"},
              sda : Pins, scl : Pins]
  /\ ledc \in LedcStates
  /\ clock \in Times /\ errno \in Errnos
  /\ published \in Seq(Responses)
  /\ boots \in Nat

\* A request is answered at most once, and by a response of the procedure it
\* called: the dispatch of mqtt_event_handler_cb and the five functions agree,
\* whatever tasks, lost connections and restarts come between.
AtMostOnce ==
  /\ \A i \in DOMAIN published :
       /\ IsRequest(published[i].req)
       /\ published[i].case = msg[published[i].req].case
  /\ \A i, j \in DOMAIN published :
       published[i].req = published[j].req => i = j

\* The procedures read the request through a pointer into the unpacked message:
\* it stays allocated while the handler runs, and once the handler is done no
\* message that held a request is left behind.
HandlerOwnsMessage ==
  /\ hpc # "idle" => cur \in unpacked
  /\ hpc = "idle" => \A r \in unpacked : ~IsRequest(r)

\* A client that has seen its settimeofday answered reads the time it set,
\* unless another client set the clock or the device restarted: the MQTT task
\* runs the two procedures in the order their responses appear.
ReadYourWrite ==
  boots = 0 =>
    \A i, j \in DOMAIN published :
      /\ i < j
      /\ published[i].case = SETTIMEOFDAY /\ published[j].case = GETTIMEOFDAY
      /\ published[j].timeval # msg[published[i].req].time
      => \E r \in Requests \ {published[i].req} :
           /\ IsRequest(r) /\ msg[r].case = SETTIMEOFDAY
           /\ msg[r].time = published[j].timeval

\* An answered LED request for a mode, a channel, a pin and an interrupt type
\* the hardware has is what that channel runs, on a timer that is running,
\* unless another request named the same channel or one the switch of
\* ledcontroller_func does not know.
IsLedRequest(r) == IsRequest(r) /\ msg[r].case = LEDC_CHANNEL_CONFIG

OnlyOneForItsChannel(r) ==
  \A q \in Requests \ {r} :
    IsLedRequest(q) =>
      /\ msg[q].conf.channel <= LEDC_CHANNEL_MAX
      /\ \/ msg[q].conf.mode # msg[r].conf.mode
         \/ msg[q].conf.channel # msg[r].conf.channel

LedAsAnswered ==
  boots = 0 =>
    \A i \in DOMAIN published :
      LET r == published[i].req
          conf == msg[r].conf IN
      /\ IsLedRequest(r)
      /\ Accepts(conf.mode, conf.channel, conf.gpio, conf.intr)
      /\ OnlyOneForItsChannel(r)
      => Runs(ledc, conf)

\* No task uses the bus before some call of i2c_driver_install has returned,
\* though the flag is tested and set without a lock.
DriverReady ==
  \A r \in Requests : tpc[r] \in DrivePc => i2c.driver # "absent"

\* The device implements the abstract service: a call is open while it is in
\* the inbox, in the handler before its answer, or with a sensor task that has
\* not published.
Answering(r) == cur = r /\ hpc \in {"dispatch", "scl", "create"}

Open == {r \in Requests :
           \/ \E i \in DOMAIN inbox : inbox[i] = r
           \/ Answering(r)
           \/ tpc[r] \in WorkPc}

Replies == [i \in DOMAIN published |->
              [req |-> published[i].req, case |-> published[i].case]]

Service == INSTANCE AtMostOnceRpc WITH
  call <- msg, open <- Open, replies <- Replies

ImplementsService == Service!Spec

\* Every call is settled: answered or lost, it does not stay in the device.
Settled == \A r \in Requests : (r \in Open) ~> (r \notin Open)

\* A request the device has received and knows is answered, unless the
\* connection goes or the heap is full when its sensor task is created.
Answered(r) == \E i \in DOMAIN published : published[i].req = r

AnsweredUnlessLinkLost ==
  \A r \in Requests :
    (/\ \E i \in DOMAIN inbox : inbox[i] = r
     /\ IsRequest(r) /\ msg[r].case # 0)
      ~> (Answered(r) \/ ~link \/ Free = 0)

\* A connection that stays up is subscribed for good, after any number of
\* drops: the subscription is made again on every MQTT_EVENT_CONNECTED.
Resubscribed == <>[]link => <>[](subscribed = "yes")

-----------------------------------------------------------------------------
(* The inductive invariant behind AtMostOnce and HandlerOwnsMessage: a      *)
(* request that may still be answered is in one place, and nowhere else.    *)

Unanswered(r) == \A i \in DOMAIN published : published[i].req # r

\* The handler works on a request it holds; the only other messages left
\* unpacked are those it took the break for.
HandlerInv ==
  /\ hpc = "idle" <=> cur = NoReq
  /\ hpc # "idle" => IsRequest(cur) /\ cur \in unpacked
  /\ hpc \in {"scl", "create"} => msg[cur].case = I2C
  /\ \A r \in unpacked : msg[r] # NoBody /\ (r # cur => ~IsRequest(r))

\* What is in the inbox was published, once, and nothing has begun on it.
InboxInv ==
  /\ \A i \in DOMAIN inbox :
       /\ msg[inbox[i]] # NoBody
       /\ inbox[i] # cur
       /\ tpc[inbox[i]] = "none"
       /\ Unanswered(inbox[i])
  /\ \A i, j \in DOMAIN inbox : inbox[i] = inbox[j] => i = j

\* A request in the handler has no task yet; one with a task is a sensor read;
\* neither is answered before its time.
AnswerInv ==
  /\ hpc \in {"dispatch", "scl", "create"} => tpc[cur] = "none" /\ Unanswered(cur)
  /\ \A r \in Requests :
       /\ tpc[r] # "none" => IsRequest(r) /\ msg[r].case = I2C
       /\ tpc[r] \in WorkPc => Unanswered(r)

IInv == TypeOK /\ AtMostOnce /\ HandlerInv /\ InboxInv /\ AnswerInv

-----------------------------------------------------------------------------
(* What the documentation and the comments say, and the code does not do.  *)

\* app_main.c:647 says the message is destroyed after usage and its memory
\* freed: the handler leaves nothing allocated.
NoLeak == hpc = "idle" => buffers = {} /\ unpacked = {}

\* client.py:48 tells its user "Led control achieved" when config_status is 1: a
\* request so answered, and the only one for its channel, is what it runs.
LedAchieved ==
  boots = 0 =>
    \A i \in DOMAIN published :
      LET r == published[i].req IN
      /\ IsLedRequest(r) /\ published[i].config_status = 1
      /\ OnlyOneForItsChannel(r)
      => Runs(ledc, msg[r].conf)

\* app_main.c:560 says para holds the values passed to the sensor task: a task
\* that has read its pins has those of its own request.
ParamsPassed ==
  \A r \in Requests :
    tpc[r] \in InitPc \cup DrivePc =>
      tpin[r] = [sda |-> msg[r].sda, scl |-> msg[r].scl]

\* app_main.c:540 calls success the status of the operation, and client.py
\* prints the readings as real when it is 0.
SuccessIsMeasured ==
  \A i \in DOMAIN published :
    published[i].case = I2C /\ published[i].success = 0
      => published[i].measured
=============================================================================
