-------------------------- MODULE XRpcDevice_proofs --------------------------
(***************************************************************************)
(* Proofs about XRpcDevice, for every set of requests and bodies, every    *)
(* heap size and any number of restarts: first the inductive invariant     *)
(* IInv and the refinement of AtMostOnceRpc, then what the procedures do   *)
(* beside answering: the I2C driver is there when a task uses the bus, a   *)
(* clock that was set is read back, and the LED controller runs as         *)
(* answered.  Each of these has a strengthening that is inductive relative *)
(* to IInv.                                                                *)
(***************************************************************************)
EXTENDS XRpcDevice, TLAPS

\* What Bodies holds, by the kind of the body.
LEMMA BodyKinds ==
  ASSUME NEW b \in Bodies, b.type = "request"
  PROVE  /\ b.case \in 0 .. 4
         /\ b.case = SETTIMEOFDAY => b.time \in Times
         /\ b.case = LEDC_CHANNEL_CONFIG => b.conf \in Confs
         /\ b.case = I2C => b.sda \in Pins /\ b.scl \in Pins
  BY BodiesAssumption DEF AllBodies, SETTIMEOFDAY, GETTIMEOFDAY,
     LEDC_CHANNEL_CONFIG, I2C

\* The two calls of ledcontroller_func leave the controller in a legal state,
\* whatever the request asked for and whatever the uninitialized fields held.
LEMMA ConfiguredType ==
  ASSUME NEW state \in LedcStates, NEW conf \in Confs,
         NEW channel \in ChannelSwitch(conf), NEW intr \in IntrSwitch(conf)
  PROVE  Configured(state, conf, channel, intr) \in LedcStates
  <1> DEFINE timed == ledc_timer_config(state, conf.mode, TimerSel(conf))
  <1>1. TimerSel(conf) \in {0, 1}
    BY DEF TimerSel
  <1>2. timed \in LedcStates
    BY <1>1 DEF ledc_timer_config, LedcStates
  <1>3. conf.duty \in Duties
    BY DEF Confs
  <1> HIDE DEF timed
  <1>4. ledc_channel_config(timed, conf.mode, channel, conf.gpio, intr,
                            TimerSel(conf), conf.duty) \in LedcStates
    BY <1>1, <1>2, <1>3 DEF ledc_channel_config, Accepts, LedcStates
  <1> QED
    BY <1>4 DEF Configured, timed

\* Each procedure of the table handles the function number it was written for.
LEMMA Table ==
  ASSUME HandlerInv, TypeOK, NEW f, Dispatched(f)
  PROVE  /\ cur \in Requests /\ IsRequest(cur) /\ msg[cur] \in Bodies
         /\ f = "settimeofday_func" => msg[cur].case = SETTIMEOFDAY
         /\ f = "gettimeofday_func" => msg[cur].case = GETTIMEOFDAY
         /\ f = "ledcontroller_func" => msg[cur].case = LEDC_CHANNEL_CONFIG
         /\ f = "read_sensor" => msg[cur].case = I2C
  <1>1. cur \in Requests /\ IsRequest(cur) /\ msg[cur] \in Bodies
    BY DEF HandlerInv, TypeOK, Dispatched, IsRequest
  <1>2. msg[cur].case \in 0 .. 4
    BY <1>1, BodyKinds DEF IsRequest
  <1> QED
    BY <1>1, <1>2 DEF Dispatched, xRPC_func, SETTIMEOFDAY, GETTIMEOFDAY,
       LEDC_CHANNEL_CONFIG, I2C

\* Publishing the answer of an unanswered request keeps the responses typed and
\* each request answered once, and answers no other.
LEMMA PublishOnce ==
  ASSUME TypeOK, AtMostOnce, NEW resp \in Responses, MqttPublish(resp),
         UNCHANGED msg,
         IsRequest(resp.req), resp.case = msg[resp.req].case,
         Unanswered(resp.req)
  PROVE  /\ published' \in Seq(Responses)
         /\ AtMostOnce'
         /\ \A r \in Requests : r # resp.req /\ Unanswered(r) => Unanswered(r)'
  <1>1. CASE ~link
    <2>1. published' = published
      BY <1>1 DEF MqttPublish
    <2> QED
      BY <2>1 DEF TypeOK, AtMostOnce, Unanswered, IsRequest
  <1>2. CASE link
    <2>1. published \in Seq(Responses) /\ published' = Append(published, resp)
      BY <1>2 DEF MqttPublish, TypeOK
    <2>2. /\ published' \in Seq(Responses)
          /\ DOMAIN published' = DOMAIN published \cup {Len(published) + 1}
          /\ \A i \in DOMAIN published : published'[i] = published[i]
          /\ published'[Len(published) + 1] = resp
          /\ Len(published) + 1 \notin DOMAIN published
      BY <2>1
    <2> QED
      BY <2>2 DEF AtMostOnce, Unanswered, IsRequest
  <1> QED
    BY <1>1, <1>2

-----------------------------------------------------------------------------
(* One lemma per action (or group of actions with the same frame).         *)

LEMMA EmptySeq == ASSUME NEW S PROVE << >> \in Seq(S)
  OBVIOUS

\* The values a restart gives the hardware and the tasks are typed.
LEMMA ResetTypes ==
  /\ NoPins \in [sda : Pins, scl : Pins]
  /\ NoResult \in [all : BOOLEAN, rslt2 : BOOLEAN]
  /\ I2cReset \in [driver : {"absent", "installed", "no_memory"},
                   sda : Pins, scl : Pins]
  /\ LedcReset \in LedcStates
  /\ "idle" \in HandlerPc /\ 0 \in Errnos
  /\ "none" \in TaskPc /\ "deleted" \in TaskPc
  <1>1. NoPins \in [sda : Pins, scl : Pins]
    BY PinsAssumption DEF NoPins
  <1>2. I2cReset \in [driver : {"absent", "installed", "no_memory"},
                      sda : Pins, scl : Pins]
    BY PinsAssumption DEF I2cReset
  <1>3. LedcReset \in LedcStates
    BY DEF LedcReset, LedcStates
  <1> QED
    BY <1>1, <1>2, <1>3 DEF NoResult, HandlerPc, Errnos, TaskPc

LEMMA InitIInv == Init => IInv
  <1> SUFFICES ASSUME Init PROVE IInv
    OBVIOUS
  <1>1. TypeOK
    BY ResetTypes, EmptySeq, EpochAssumption DEF Init, TypeOK
  <1>2. AtMostOnce /\ HandlerInv /\ InboxInv /\ AnswerInv
    BY NullsAssumption DEF Init, AtMostOnce, HandlerInv, InboxInv, AnswerInv, WorkPc, InitPc,
       DrivePc
  <1> QED
    BY <1>1, <1>2 DEF IInv

LEMMA RestartIInv == IInv /\ Restart => IInv'
  <1> SUFFICES ASSUME IInv, Restart PROVE IInv'
    OBVIOUS
  <1> USE DEF IInv
  <1>1. TypeOK'
    <2>1. tpc' \in [Requests -> TaskPc]
      BY ResetTypes DEF Restart
    <2>2. clock' \in Times
      BY EpochAssumption DEF Restart, TypeOK
    <2>3. /\ link' \in BOOLEAN /\ subscribed' \in {"no", "pending", "yes"}
          /\ inbox' \in Seq(Requests)
          /\ hpc' \in HandlerPc /\ cur' \in Requests \cup {NoReq}
          /\ buffers' \subseteq Requests /\ unpacked' \subseteq Requests
      BY ResetTypes, EmptySeq DEF Restart
    <2>4. /\ para' \in [sda : Pins, scl : Pins]
          /\ tpin' \in [Requests -> [sda : Pins, scl : Pins]]
          /\ tresult' \in [Requests -> [all : BOOLEAN, rslt2 : BOOLEAN]]
          /\ driver_installed_stat' \in {0, 1}
          /\ i2c' \in [driver : {"absent", "installed", "no_memory"},
                       sda : Pins, scl : Pins]
          /\ ledc' \in LedcStates
      BY ResetTypes DEF Restart
    <2>5. boots' \in Nat /\ errno' \in Errnos
      BY ResetTypes DEF Restart, TypeOK
    <2> QED
      BY <2>1, <2>2, <2>3, <2>4, <2>5 DEF Restart, TypeOK
  <1>2. AtMostOnce'
    BY DEF Restart, AtMostOnce, IsRequest
  <1>3. HandlerInv' /\ InboxInv'
    BY NullsAssumption DEF Restart, HandlerInv, InboxInv
  <1>4. AnswerInv'
    BY DEF Restart, AnswerInv, TypeOK, IsRequest, WorkPc, InitPc, DrivePc
  <1> QED
    BY <1>1, <1>2, <1>3, <1>4

LEMMA PublishIInv ==
  ASSUME IInv, NEW r \in Requests, NEW b \in Bodies, Publish(r, b)
  PROVE  IInv'
  <1> USE DEF IInv
  <1>1. TypeOK'
    BY DEF Publish, TypeOK, netVars, heapVars, taskVars, busVars
  <1>2. /\ \A q \in Requests : q # r => msg'[q] = msg[q]
        /\ msg[r] = NoBody /\ msg'[r] # NoBody
    BY BodiesAssumption, NullsAssumption DEF Publish, TypeOK
  <1>3. AtMostOnce'
    BY <1>2 DEF Publish, AtMostOnce, IsRequest, TypeOK, Responses
  <1>4. HandlerInv'
    BY <1>2 DEF Publish, HandlerInv, IsRequest, TypeOK, heapVars
  <1>5. Unanswered(r) /\ tpc[r] = "none" /\ cur # r
        /\ \A i \in DOMAIN inbox : inbox[i] # r
    <2>1. Unanswered(r)
      BY <1>2 DEF AtMostOnce, IsRequest, Unanswered
    <2>2. tpc[r] = "none"
      BY <1>2 DEF AnswerInv, IsRequest
    <2>3. cur # r
      BY <1>2, NullsAssumption DEF HandlerInv, IsRequest
    <2>4. \A i \in DOMAIN inbox : inbox[i] # r
      BY <1>2 DEF InboxInv
    <2> QED
      BY <2>1, <2>2, <2>3, <2>4
  <1>6. InboxInv'
    BY <1>2, <1>5 DEF Publish, InboxInv, TypeOK, taskVars, Unanswered
  <1>7. AnswerInv'
    BY <1>2, <1>5 DEF Publish, AnswerInv, TypeOK, taskVars, Unanswered, IsRequest,
       HandlerInv
  <1> QED
    BY <1>1, <1>3, <1>4, <1>6, <1>7

LEMMA BrokerSubscribesIInv == IInv /\ BrokerSubscribes => IInv'
  BY DEF IInv, BrokerSubscribes, TypeOK, AtMostOnce, HandlerInv, InboxInv, AnswerInv,
     heapVars, taskVars, busVars, IsRequest, Unanswered

LEMMA LinkDropsIInv == IInv /\ LinkDrops => IInv'
  <1> SUFFICES ASSUME IInv, LinkDrops PROVE IInv'
    OBVIOUS
  <1> USE DEF IInv
  <1>1. inbox' = << >>
    BY DEF LinkDrops
  <1>2. InboxInv'
    BY <1>1 DEF InboxInv
  <1>3. TypeOK'
    BY EmptySeq DEF LinkDrops, TypeOK, heapVars, taskVars, busVars
  <1>4. AtMostOnce' /\ HandlerInv' /\ AnswerInv'
    BY DEF LinkDrops, AtMostOnce, HandlerInv, AnswerInv,
       heapVars, taskVars, busVars, IsRequest, Unanswered
  <1> QED
    BY <1>2, <1>3, <1>4

LEMMA ConnectedIInv == IInv /\ Connected => IInv'
  BY DEF IInv, Connected, TypeOK, AtMostOnce, HandlerInv, InboxInv, AnswerInv,
     heapVars, taskVars, busVars, IsRequest, Unanswered, Errnos

LEMMA DataArrivesIInv == IInv /\ DataArrives => IInv'
  <1> SUFFICES ASSUME IInv, DataArrives PROVE IInv'
    OBVIOUS
  <1> USE DEF IInv
  <1> DEFINE r == Head(inbox)
  <1>1. /\ r \in Requests /\ r = inbox[1]
        /\ inbox' \in Seq(Requests)
        /\ \A i \in DOMAIN inbox' : i + 1 \in DOMAIN inbox /\ inbox'[i] = inbox[i + 1]
        /\ 1 \in DOMAIN inbox /\ DOMAIN inbox' \subseteq Nat \ {0}
    BY DEF DataArrives, TypeOK
  <1>2. /\ msg[r] # NoBody /\ tpc[r] = "none" /\ Unanswered(r)
        /\ \A i \in DOMAIN inbox' : inbox'[i] # r
    BY <1>1 DEF InboxInv
  <1>3. /\ unpacked' = unpacked \cup {r} /\ buffers' = buffers \cup {r}
        /\ hpc = "idle" /\ cur = NoReq
        /\ IsRequest(r) => hpc' = "dispatch" /\ cur' = r
        /\ ~IsRequest(r) => hpc' = hpc /\ cur' = cur
        /\ UNCHANGED <<msg, link, subscribed, para, tpc, tpin, tresult,
                       driver_installed_stat, i2c, ledc, clock, errno,
                       published, boots>>
    BY DEF DataArrives, HandlerInv, taskVars, busVars
  <1> HIDE DEF r
  <1>4. TypeOK'
    BY <1>1, <1>3 DEF TypeOK, HandlerPc
  <1>5. AtMostOnce'
    BY <1>3 DEF AtMostOnce, IsRequest
  <1>6. HandlerInv'
    BY <1>1, <1>2, <1>3, NullsAssumption DEF HandlerInv, IsRequest, TypeOK
  <1>7. InboxInv'
    BY <1>1, <1>2, <1>3, NullsAssumption DEF InboxInv, Unanswered, TypeOK
  <1>8. AnswerInv'
    BY <1>1, <1>2, <1>3 DEF AnswerInv, Unanswered, IsRequest
  <1> QED
    BY <1>4, <1>5, <1>6, <1>7, <1>8

\* A procedure that answers at once: it publishes for the request in hand.
LEMMA AnswerIInv ==
  ASSUME IInv, NEW resp \in Responses, MqttPublish(resp),
         resp.req = cur, resp.case = msg[cur].case,
         hpc = "dispatch", hpc' = "free",
         ledc' \in LedcStates, clock' \in Times,
         UNCHANGED <<netVars, cur, heapVars, para, taskVars, busVars,
                     errno, boots>>
  PROVE  IInv'
  <1> USE DEF IInv, netVars, heapVars, taskVars, busVars
  <1>1. IsRequest(cur) /\ Unanswered(cur) /\ tpc[cur] = "none" /\ cur \in Requests
    BY DEF HandlerInv, AnswerInv, TypeOK
  <1>2. /\ published' \in Seq(Responses)
        /\ AtMostOnce'
        /\ \A r \in Requests : r # cur /\ Unanswered(r) => Unanswered(r)'
    BY <1>1, PublishOnce
  <1>3. TypeOK'
    BY <1>2 DEF TypeOK, HandlerPc
  <1>4. HandlerInv'
    BY DEF HandlerInv, IsRequest
  <1>5. InboxInv'
    BY <1>2 DEF InboxInv, TypeOK
  <1>6. AnswerInv'
    BY <1>1, <1>2 DEF AnswerInv, IsRequest, WorkPc, InitPc, DrivePc
  <1> QED
    BY <1>2, <1>3, <1>4, <1>5, <1>6

LEMMA settimeofdayIInv == IInv /\ settimeofday_func => IInv'
  <1> SUFFICES ASSUME IInv, settimeofday_func PROVE IInv'
    OBVIOUS
  <1> DEFINE resp == [req |-> cur, case |-> SETTIMEOFDAY, return_value |-> 0,
                      errno_alt |-> errno]
  <1>1. /\ cur \in Requests /\ IsRequest(cur) /\ msg[cur] \in Bodies
        /\ msg[cur].case = SETTIMEOFDAY
    BY Table DEF settimeofday_func, IInv
  <1>2. msg[cur].time \in Times
    BY <1>1, BodyKinds DEF IsRequest
  <1>3. resp \in Responses /\ resp.req = cur /\ resp.case = msg[cur].case
    BY <1>1 DEF Responses, IInv, TypeOK
  <1>4. MqttPublish(resp) /\ hpc = "dispatch"
    BY DEF settimeofday_func, Dispatched
  <1>5. clock' \in Times /\ ledc' \in LedcStates
    BY <1>2 DEF settimeofday_func, IInv, TypeOK
  <1> HIDE DEF resp
  <1> QED
    BY <1>3, <1>4, <1>5, AnswerIInv DEF settimeofday_func

LEMMA gettimeofdayIInv == IInv /\ gettimeofday_func => IInv'
  <1> SUFFICES ASSUME IInv, gettimeofday_func PROVE IInv'
    OBVIOUS
  <1> DEFINE resp == [req |-> cur, case |-> GETTIMEOFDAY, return_value |-> 0,
                      errno_alt |-> errno, timeval |-> clock]
  <1>1. cur \in Requests /\ msg[cur].case = GETTIMEOFDAY
    BY Table DEF gettimeofday_func, IInv
  <1>2. resp \in Responses /\ resp.req = cur /\ resp.case = msg[cur].case
    BY <1>1 DEF Responses, IInv, TypeOK
  <1>3. MqttPublish(resp) /\ hpc = "dispatch"
    BY DEF gettimeofday_func, Dispatched
  <1>4. clock' \in Times /\ ledc' \in LedcStates
    BY DEF gettimeofday_func, IInv, TypeOK
  <1> HIDE DEF resp
  <1> QED
    BY <1>2, <1>3, <1>4, AnswerIInv DEF gettimeofday_func

LEMMA ledcontrollerIInv == IInv /\ ledcontroller_func => IInv'
  <1> SUFFICES ASSUME IInv, ledcontroller_func PROVE IInv'
    OBVIOUS
  <1> DEFINE resp == [req |-> cur, case |-> LEDC_CHANNEL_CONFIG,
                      config_status |-> 1]
  <1>1. /\ cur \in Requests /\ IsRequest(cur) /\ msg[cur] \in Bodies
        /\ msg[cur].case = LEDC_CHANNEL_CONFIG
    BY Table DEF ledcontroller_func, IInv
  <1>2. msg[cur].conf \in Confs
    BY <1>1, BodyKinds DEF IsRequest
  <1>3. resp \in Responses /\ resp.req = cur /\ resp.case = msg[cur].case
    BY <1>1 DEF Responses
  <1>4. MqttPublish(resp) /\ hpc = "dispatch"
    BY DEF ledcontroller_func, Dispatched
  <1>5. clock' \in Times
    BY DEF ledcontroller_func, IInv, TypeOK
  <1>6. ledc' \in LedcStates
    <2>1. ledc \in LedcStates
      BY DEF IInv, TypeOK
    <2>2. PICK channel \in ChannelSwitch(msg[cur].conf),
               intr \in IntrSwitch(msg[cur].conf) :
            ledc' = Configured(ledc, msg[cur].conf, channel, intr)
      BY DEF ledcontroller_func
    <2> QED
      BY <1>2, <2>1, <2>2, ConfiguredType
  <1> HIDE DEF resp
  <1> QED
    BY <1>3, <1>4, <1>5, <1>6, AnswerIInv DEF ledcontroller_func

\* A step of the handler that neither answers nor creates a task.
LEMMA HandlerStepIInv ==
  ASSUME IInv, cur \in Requests, IsRequest(cur), msg[cur] \in Bodies,
         \/ func0
         \/ read_sensor_sda /\ msg[cur].case = I2C
         \/ read_sensor_scl /\ msg[cur].case = I2C
  PROVE  IInv'
  <1> USE DEF IInv, netVars, heapVars, taskVars, busVars
  <1>1. /\ hpc \in {"dispatch", "scl"} /\ hpc' \in {"free", "scl", "create"}
        /\ hpc' \in {"scl", "create"} => msg[cur].case = I2C
        /\ UNCHANGED <<netVars, cur, heapVars, taskVars, busVars,
                       ledc, clock, errno, published, boots>>
    BY DEF func0, read_sensor_sda, read_sensor_scl, Dispatched
  <1>2. para' \in [sda : Pins, scl : Pins]
    <2>1. CASE func0
      BY <2>1 DEF func0, TypeOK
    <2>2. CASE msg[cur].case = I2C /\ (read_sensor_sda \/ read_sensor_scl)
      <3>1. msg[cur].sda \in Pins /\ msg[cur].scl \in Pins
        BY <2>2, BodyKinds DEF IsRequest
      <3> QED
        BY <2>2, <3>1 DEF read_sensor_sda, read_sensor_scl, TypeOK
    <2> QED
      BY <2>1, <2>2
  <1>3. TypeOK'
    BY <1>1, <1>2 DEF TypeOK, HandlerPc
  <1>4. AtMostOnce'
    BY <1>1 DEF AtMostOnce, IsRequest
  <1>5. HandlerInv'
    BY <1>1 DEF HandlerInv, IsRequest
  <1>6. InboxInv'
    BY <1>1 DEF InboxInv, Unanswered
  <1>7. AnswerInv'
    BY <1>1 DEF AnswerInv, IsRequest, Unanswered
  <1> QED
    BY <1>3, <1>4, <1>5, <1>6, <1>7

LEMMA func0IInv == IInv /\ func0 => IInv'
  BY Table, HandlerStepIInv DEF IInv, func0

LEMMA read_sensor_sdaIInv == IInv /\ read_sensor_sda => IInv'
  BY Table, HandlerStepIInv DEF IInv, read_sensor_sda

LEMMA read_sensor_sclIInv == IInv /\ read_sensor_scl => IInv'
  <1> SUFFICES ASSUME IInv, read_sensor_scl PROVE IInv'
    OBVIOUS
  <1>1. /\ cur \in Requests /\ IsRequest(cur) /\ msg[cur] \in Bodies
        /\ msg[cur].case = I2C
    BY DEF IInv, HandlerInv, TypeOK, read_sensor_scl, IsRequest
  <1> QED
    BY <1>1, HandlerStepIInv

LEMMA read_sensor_createIInv == IInv /\ read_sensor_create => IInv'
  <1> SUFFICES ASSUME IInv, read_sensor_create PROVE IInv'
    OBVIOUS
  <1> USE DEF IInv, netVars, heapVars, taskVars, busVars
  <1>1. /\ cur \in Requests /\ IsRequest(cur) /\ msg[cur].case = I2C
        /\ tpc[cur] = "none" /\ Unanswered(cur)
    BY DEF read_sensor_create, HandlerInv, AnswerInv, TypeOK
  <1>2. /\ hpc' = "free" /\ hpc = "create"
        /\ tpc' = tpc \/ tpc' = [tpc EXCEPT ![cur] = "sda"]
        /\ UNCHANGED <<netVars, cur, heapVars, para, tpin, tresult, busVars,
                       ledc, clock, errno, published, boots>>
    BY DEF read_sensor_create
  <1>3. TypeOK'
    BY <1>1, <1>2 DEF TypeOK, HandlerPc, TaskPc, WorkPc
  <1>4. AtMostOnce'
    BY <1>2 DEF AtMostOnce, IsRequest
  <1>5. HandlerInv'
    BY <1>2 DEF HandlerInv, IsRequest
  <1>6. InboxInv'
    BY <1>1, <1>2 DEF InboxInv, Unanswered, TypeOK
  <1>7. AnswerInv'
    BY <1>1, <1>2 DEF AnswerInv, IsRequest, Unanswered, TypeOK
  <1> QED
    BY <1>3, <1>4, <1>5, <1>6, <1>7

LEMMA free_unpackedIInv == IInv /\ free_unpacked => IInv'
  <1> SUFFICES ASSUME IInv, free_unpacked PROVE IInv'
    OBVIOUS
  <1> USE DEF IInv, netVars, heapVars, taskVars, busVars, free_unpacked
  <1>1. TypeOK'
    BY DEF TypeOK, HandlerPc
  <1>2. AtMostOnce'
    BY DEF AtMostOnce, IsRequest
  <1>3. HandlerInv'
    BY NullsAssumption DEF HandlerInv, IsRequest, TypeOK
  <1>4. InboxInv'
    BY NullsAssumption DEF InboxInv, Unanswered, TypeOK
  <1>5. AnswerInv'
    BY DEF AnswerInv, IsRequest, Unanswered
  <1> QED
    BY <1>1, <1>2, <1>3, <1>4, <1>5

\* A step of a sensor task that does not publish, and never goes back to work
\* once it has.
LEMMA TaskStepIInv ==
  ASSUME IInv, NEW r \in Requests, NEW from, NEW to \in TaskPc \ {"none"},
         TaskStep(r, from, to), from # "none",
         to \in WorkPc => from \in WorkPc,
         tpin' \in [Requests -> [sda : Pins, scl : Pins]],
         tresult' \in [Requests -> [all : BOOLEAN, rslt2 : BOOLEAN]],
         driver_installed_stat' \in {0, 1},
         i2c' \in [driver : {"absent", "installed", "no_memory"},
                   sda : Pins, scl : Pins],
         UNCHANGED <<noTaskChange, published>>
  PROVE  IInv'
  <1> USE DEF IInv, netVars, heapVars, noTaskChange, TaskStep
  <1>1. TypeOK'
    BY DEF TypeOK
  <1>2. AtMostOnce'
    BY DEF AtMostOnce, IsRequest
  <1>3. HandlerInv'
    BY DEF HandlerInv, IsRequest
  <1>4. InboxInv'
    BY DEF InboxInv, Unanswered, TypeOK
  <1>5. AnswerInv'
    BY DEF AnswerInv, IsRequest, Unanswered, TypeOK
  <1> QED
    BY <1>1, <1>2, <1>3, <1>4, <1>5

LEMMA task_publishIInv ==
  ASSUME IInv, NEW r \in Requests, task_publish(r)
  PROVE  IInv'
  <1> USE DEF IInv, netVars, heapVars, busVars, noTaskChange, TaskStep
  <1> DEFINE resp == [req |-> r, case |-> I2C,
                      success |-> IF tresult[r].rslt2 THEN 0 ELSE E_COMM_FAIL,
                      measured |-> tresult[r].all]
  <1>1. /\ tpc[r] = "publish" /\ tpc' = [tpc EXCEPT ![r] = "linger"]
        /\ MqttPublish(resp)
        /\ UNCHANGED <<noTaskChange, tpin, tresult, busVars>>
    BY DEF task_publish
  <1>2. IsRequest(r) /\ msg[r].case = I2C /\ Unanswered(r)
    BY <1>1 DEF AnswerInv, WorkPc
  <1>3. resp \in Responses /\ resp.req = r /\ resp.case = msg[r].case
    <2>1. tresult[r].all \in BOOLEAN
      BY DEF TypeOK
    <2> QED
      BY <1>2, <2>1 DEF Responses
  <1> HIDE DEF resp
  <1>4. /\ published' \in Seq(Responses)
        /\ AtMostOnce'
        /\ \A q \in Requests : q # r /\ Unanswered(q) => Unanswered(q)'
    BY <1>1, <1>2, <1>3, PublishOnce
  <1>5. TypeOK'
    BY <1>1, <1>4 DEF TypeOK, TaskPc
  <1>6. HandlerInv'
    BY <1>1 DEF HandlerInv, IsRequest
  <1>7. InboxInv'
    BY <1>1, <1>4 DEF InboxInv, TypeOK
  <1>8. AnswerInv'
    BY <1>1, <1>4 DEF AnswerInv, IsRequest, TypeOK, WorkPc, InitPc, DrivePc,
       HandlerInv
  <1> QED
    BY <1>4, <1>5, <1>6, <1>7, <1>8

LEMMA SensorTaskIInv ==
  ASSUME IInv, NEW r \in Requests, SensorTask(r)
  PROVE  IInv'
  <1> USE DEF TaskPc, WorkPc, InitPc, DrivePc
  <1> TypeOK
    BY DEF IInv
  <1>1. CASE read_sda(r)
    <2>1. tpin' \in [Requests -> [sda : Pins, scl : Pins]]
      BY <1>1 DEF read_sda, TypeOK
    <2> QED
      BY <1>1, <2>1, TaskStepIInv DEF read_sda, TypeOK, busVars
  <1>2. CASE read_scl(r)
    <2>1. tpin' \in [Requests -> [sda : Pins, scl : Pins]]
      BY <1>2 DEF read_scl, TypeOK
    <2> QED
      BY <1>2, <2>1, TaskStepIInv DEF read_scl, TypeOK, busVars
  <1>3. CASE check_installed(r)
    <2> DEFINE to == IF driver_installed_stat = 0 THEN "param_config" ELSE "init"
    <2>1. TaskStep(r, "check", to) /\ to \in TaskPc \ {"none"}
      BY <1>3 DEF check_installed
    <2>2. UNCHANGED <<noTaskChange, tpin, tresult, busVars, published>>
      BY <1>3 DEF check_installed
    <2> HIDE DEF to
    <2> QED
      BY <2>1, <2>2, TaskStepIInv DEF TypeOK, busVars
  <1>4. CASE param_config(r)
    <2>1. i2c' \in [driver : {"absent", "installed", "no_memory"},
                    sda : Pins, scl : Pins]
      BY <1>4 DEF param_config, TypeOK
    <2> QED
      BY <1>4, <2>1, TaskStepIInv DEF param_config, TypeOK
  <1>5. CASE driver_install(r)
    <2>1. i2c' \in [driver : {"absent", "installed", "no_memory"},
                    sda : Pins, scl : Pins]
      BY <1>5 DEF driver_install, TypeOK
    <2> QED
      BY <1>5, <2>1, TaskStepIInv DEF driver_install, TypeOK
  <1>6. CASE set_installed(r)
    BY <1>6, TaskStepIInv DEF set_installed, TypeOK
  <1>7. CASE sensor_init(r) \/ sensor_mode(r) \/ sensor_data(r)
    <2>1. tresult' \in [Requests -> [all : BOOLEAN, rslt2 : BOOLEAN]]
      <3>1. PICK ok \in BOOLEAN :
              \/ tresult' = [tresult EXCEPT ![r].all = @ /\ ok]
              \/ tresult' = [tresult EXCEPT
                               ![r] = [all |-> @.all /\ ok, rslt2 |-> ok]]
        BY <1>7 DEF sensor_init, sensor_mode, sensor_data, BusResults
      <3>2. /\ tresult \in [Requests -> [all : BOOLEAN, rslt2 : BOOLEAN]]
            /\ tresult[r] \in [all : BOOLEAN, rslt2 : BOOLEAN]
            /\ (tresult[r].all /\ ok) \in BOOLEAN
        BY DEF TypeOK
      <3>3. CASE tresult' = [tresult EXCEPT ![r].all = @ /\ ok]
        BY <3>2, <3>3
      <3>4. CASE tresult' = [tresult EXCEPT
                               ![r] = [all |-> @.all /\ ok, rslt2 |-> ok]]
        BY <3>2, <3>4
      <3> QED
        BY <3>1, <3>3, <3>4
    <2>2. UNCHANGED <<noTaskChange, tpin, busVars, published>>
      BY <1>7 DEF sensor_init, sensor_mode, sensor_data
    <2>3. \/ TaskStep(r, "init", "mode")
          \/ TaskStep(r, "mode", "data")
          \/ TaskStep(r, "data", "publish")
      BY <1>7 DEF sensor_init, sensor_mode, sensor_data
    <2> QED
      BY <2>1, <2>2, <2>3, TaskStepIInv DEF TypeOK, busVars
  <1>8. CASE task_publish(r)
    BY <1>8, task_publishIInv
  <1>9. CASE task_delete(r)
    <2>1. /\ tpin' \in [Requests -> [sda : Pins, scl : Pins]]
          /\ tresult' \in [Requests -> [all : BOOLEAN, rslt2 : BOOLEAN]]
      BY <1>9, ResetTypes DEF task_delete, TypeOK
    <2> QED
      BY <1>9, <2>1, TaskStepIInv DEF task_delete, TypeOK, busVars
  <1> QED
    BY <1>1, <1>2, <1>3, <1>4, <1>5, <1>6, <1>7, <1>8, <1>9 DEF SensorTask

-----------------------------------------------------------------------------
LEMMA NextIInv == IInv /\ [Next]_vars => IInv'
  <1> SUFFICES ASSUME IInv, [Next]_vars PROVE IInv'
    OBVIOUS
  <1>1. CASE \E r \in Requests, b \in Bodies : Publish(r, b)
    BY <1>1, PublishIInv
  <1>2. CASE BrokerSubscribes
    BY <1>2, BrokerSubscribesIInv
  <1>3. CASE LinkDrops
    BY <1>3, LinkDropsIInv
  <1>4. CASE PowerCycle
    BY <1>4, RestartIInv DEF PowerCycle
  <1>5. CASE MqttTask
    BY <1>5, ConnectedIInv, DataArrivesIInv, RestartIInv, func0IInv,
       settimeofdayIInv, gettimeofdayIInv, ledcontrollerIInv,
       read_sensor_sdaIInv, read_sensor_sclIInv, read_sensor_createIInv,
       free_unpackedIInv DEF MqttTask, UnpackFails
  <1>6. CASE \E r \in Requests : SensorTask(r)
    BY <1>6, SensorTaskIInv
  <1>7. CASE UNCHANGED vars
    BY <1>7 DEF IInv, vars, netVars, heapVars, taskVars, busVars, TypeOK,
       AtMostOnce, HandlerInv, InboxInv, AnswerInv, IsRequest, Unanswered
  <1> QED
    BY <1>1, <1>2, <1>3, <1>4, <1>5, <1>6, <1>7 DEF Next

\* The inductive invariant holds in every state of the device.
THEOREM InductiveInvariant == Spec => []IInv
  BY InitIInv, NextIInv, PTL DEF Spec

\* Every variable keeps to its type, for every request set, body set and heap.
THEOREM TypeCorrect == Spec => []TypeOK
  <1>1. IInv => TypeOK
    BY DEF IInv
  <1> QED
    BY <1>1, InductiveInvariant, PTL

\* A request is answered at most once, by the procedure it called, through any
\* number of tasks, lost connections, panics and restarts.
THEOREM AnsweredAtMostOnce == Spec => []AtMostOnce
  <1>1. IInv => AtMostOnce
    BY DEF IInv
  <1> QED
    BY <1>1, InductiveInvariant, PTL

\* The message a procedure reads stays allocated until the handler is done, and
\* no request is left behind.
THEOREM MessageOwned == Spec => []HandlerOwnsMessage
  <1>1. IInv => HandlerOwnsMessage
    BY NullsAssumption DEF IInv, HandlerInv, HandlerOwnsMessage, TypeOK
  <1> QED
    BY <1>1, InductiveInvariant, PTL

-----------------------------------------------------------------------------
(* The device implements AtMostOnceRpc under the mapping of XRpcDevice: the *)
(* calls are msg, the open ones those in Open, the replies the published    *)
(* responses without their contents.                                        *)

\* A step that publishes nothing and opens nothing loses what it closes.
LEMMA LoseStep ==
  ASSUME UNCHANGED <<msg, published>>, Open' \subseteq Open
  PROVE  [Service!Next]_(Service!vars)
  <1> DEFINE S == Open \ Open'
  <1>1. S \in SUBSET Open /\ Open' = Open \ S
    OBVIOUS
  <1>2. Replies' = Replies
    BY DEF Replies
  <1>3. Service!Lose(S)
    BY <1>1, <1>2 DEF Service!Lose
  <1> HIDE DEF S
  <1> QED
    BY <1>1, <1>3 DEF Service!Next

\* A step that publishes the response of r, or loses it, closes r.
LEMMA AnswerStep ==
  ASSUME IInv, NEW resp \in Responses, MqttPublish(resp), UNCHANGED msg,
         resp.req \in Open, IsRequest(resp.req),
         resp.case = msg[resp.req].case,
         Open' = Open \ {resp.req}
  PROVE  [Service!Next]_(Service!vars)
  <1>1. CASE ~link
    BY <1>1, LoseStep DEF MqttPublish
  <1>2. CASE link
    <2> DEFINE e == [req |-> resp.req, case |-> resp.case]
    <2>1. published \in Seq(Responses) /\ published' = Append(published, resp)
      BY <1>2 DEF MqttPublish, IInv, TypeOK
    <2>2. /\ DOMAIN published = 1 .. Len(published)
          /\ DOMAIN published' = 1 .. Len(published) + 1
          /\ \A i \in 1 .. Len(published) : published'[i] = published[i]
          /\ published'[Len(published) + 1] = resp
          /\ Len(published) \in Nat
      BY <2>1
    <2>3. Replies \in Seq([req : Requests, case : 0 .. 4])
      <3>1. \A i \in 1 .. Len(published) : published[i] \in Responses
        BY <2>1
      <3>2. \A p \in Responses :
              [req |-> p.req, case |-> p.case] \in [req : Requests, case : 0 .. 4]
        BY DEF Responses, SETTIMEOFDAY, GETTIMEOFDAY, LEDC_CHANNEL_CONFIG, I2C
      <3> QED
        BY <2>2, <3>1, <3>2 DEF Replies
    <2>4. Len(Replies) = Len(published)
      BY <2>2, <2>3 DEF Replies
    <2>5. Replies' = [i \in 1 .. Len(published) + 1 |->
                        IF i \in 1 .. Len(published) THEN Replies[i] ELSE e]
      BY <2>2 DEF Replies
    <2>6. Replies' = Append(Replies, e)
      BY <2>2, <2>3, <2>4, <2>5
    <2>7. resp.case # 0 /\ resp.req \in Requests
      BY DEF Responses, SETTIMEOFDAY, GETTIMEOFDAY, LEDC_CHANNEL_CONFIG, I2C
    <2>8. Service!Answer(resp.req)
      BY <2>6, <2>7 DEF Service!Answer, IsRequest
    <2> QED
      BY <2>7, <2>8 DEF Service!Next
  <1> QED
    BY <1>1, <1>2

LEMMA InitService == Init => Service!Init
  BY DEF Init, Service!Init, Open, Answering, Replies, WorkPc, InitPc, DrivePc

\* Publish is the abstract call: open if the broker forwards it.
LEMMA PublishService ==
  ASSUME IInv, NEW r \in Requests, NEW b \in Bodies, Publish(r, b)
  PROVE  Service!Call(r, b)
  <1> USE DEF IInv, heapVars, taskVars
  <1>1. Replies' = Replies
    BY DEF Publish, Replies
  <1>2. \A q : Answering(q)' <=> Answering(q)
    BY DEF Publish, Answering
  <1>3. CASE inbox' = inbox
    <2>1. Open' = Open
      BY <1>3 DEF Publish, Open, Answering
    <2> QED
      BY <1>1, <2>1 DEF Publish, Service!Call
  <1>4. CASE inbox' = Append(inbox, r)
    <2>1. inbox \in Seq(Requests)
      BY DEF TypeOK
    <2>2. \A q : (\E i \in DOMAIN inbox' : inbox'[i] = q)
                   <=> (q = r \/ \E i \in DOMAIN inbox : inbox[i] = q)
      BY <1>4, <2>1
    <2>3. Open' = Open \cup {r}
      BY <2>2 DEF Publish, Open, Answering
    <2> QED
      BY <1>1, <2>3 DEF Publish, Service!Call
  <1> QED
    BY <1>3, <1>4 DEF Publish

\* What the MQTT task takes out of the inbox is in the handler, or lost.
LEMMA DataArrivesOpen == IInv /\ DataArrives => Open' \subseteq Open
  <1> SUFFICES ASSUME IInv, DataArrives PROVE Open' \subseteq Open
    OBVIOUS
  <1>1. /\ Head(inbox) = inbox[1] /\ 1 \in DOMAIN inbox
        /\ \A i \in DOMAIN inbox' : i + 1 \in DOMAIN inbox /\ inbox'[i] = inbox[i + 1]
    BY DEF DataArrives, IInv, TypeOK
  <1>2. hpc = "idle" /\ tpc' = tpc /\ (cur' = Head(inbox) \/ hpc' = "idle")
    BY DEF DataArrives, taskVars
  <1> QED
    BY <1>1, <1>2 DEF Open, Answering

\* A procedure that answers at once closes the request in hand, no other.
LEMMA HandlerAnswerOpen ==
  ASSUME IInv, hpc = "dispatch", hpc' = "free",
         UNCHANGED <<netVars, cur, taskVars>>
  PROVE  cur \in Open /\ Open' = Open \ {cur}
  <1>1. /\ cur \in Requests /\ tpc[cur] = "none"
        /\ \A i \in DOMAIN inbox : inbox[i] # cur
    BY DEF IInv, HandlerInv, AnswerInv, InboxInv, TypeOK
  <1> QED
    BY <1>1 DEF Open, Answering, WorkPc, InitPc, DrivePc, netVars, taskVars

LEMMA settimeofdayService ==
  ASSUME IInv, settimeofday_func
  PROVE  [Service!Next]_(Service!vars)
  <1> DEFINE resp == [req |-> cur, case |-> SETTIMEOFDAY, return_value |-> 0,
                      errno_alt |-> errno]
  <1>1. cur \in Requests /\ IsRequest(cur) /\ msg[cur].case = SETTIMEOFDAY
    BY Table DEF settimeofday_func, IInv
  <1>2. resp \in Responses /\ resp.req = cur /\ resp.case = msg[cur].case
    BY <1>1 DEF Responses, IInv, TypeOK
  <1>3. MqttPublish(resp) /\ UNCHANGED msg
    BY DEF settimeofday_func, netVars
  <1>4. cur \in Open /\ Open' = Open \ {cur}
    BY HandlerAnswerOpen DEF settimeofday_func, Dispatched
  <1> HIDE DEF resp
  <1> QED
    BY <1>1, <1>2, <1>3, <1>4, AnswerStep

LEMMA gettimeofdayService ==
  ASSUME IInv, gettimeofday_func
  PROVE  [Service!Next]_(Service!vars)
  <1> DEFINE resp == [req |-> cur, case |-> GETTIMEOFDAY, return_value |-> 0,
                      errno_alt |-> errno, timeval |-> clock]
  <1>1. cur \in Requests /\ IsRequest(cur) /\ msg[cur].case = GETTIMEOFDAY
    BY Table DEF gettimeofday_func, IInv
  <1>2. resp \in Responses /\ resp.req = cur /\ resp.case = msg[cur].case
    BY <1>1 DEF Responses, IInv, TypeOK
  <1>3. MqttPublish(resp) /\ UNCHANGED msg
    BY DEF gettimeofday_func, netVars
  <1>4. cur \in Open /\ Open' = Open \ {cur}
    BY HandlerAnswerOpen DEF gettimeofday_func, Dispatched
  <1> HIDE DEF resp
  <1> QED
    BY <1>1, <1>2, <1>3, <1>4, AnswerStep

LEMMA ledcontrollerService ==
  ASSUME IInv, ledcontroller_func
  PROVE  [Service!Next]_(Service!vars)
  <1> DEFINE resp == [req |-> cur, case |-> LEDC_CHANNEL_CONFIG,
                      config_status |-> 1]
  <1>1. cur \in Requests /\ IsRequest(cur) /\ msg[cur].case = LEDC_CHANNEL_CONFIG
    BY Table DEF ledcontroller_func, IInv
  <1>2. resp \in Responses /\ resp.req = cur /\ resp.case = msg[cur].case
    BY <1>1 DEF Responses
  <1>3. MqttPublish(resp) /\ UNCHANGED msg
    BY DEF ledcontroller_func, netVars
  <1>4. cur \in Open /\ Open' = Open \ {cur}
    BY HandlerAnswerOpen DEF ledcontroller_func, Dispatched
  <1> HIDE DEF resp
  <1> QED
    BY <1>1, <1>2, <1>3, <1>4, AnswerStep

LEMMA task_publishService ==
  ASSUME IInv, NEW r \in Requests, task_publish(r)
  PROVE  [Service!Next]_(Service!vars)
  <1> USE DEF noTaskChange, netVars, TaskStep
  <1> DEFINE resp == [req |-> r, case |-> I2C,
                      success |-> IF tresult[r].rslt2 THEN 0 ELSE E_COMM_FAIL,
                      measured |-> tresult[r].all]
  <1>1. /\ tpc[r] = "publish" /\ tpc' = [tpc EXCEPT ![r] = "linger"]
        /\ MqttPublish(resp) /\ UNCHANGED <<msg, inbox, hpc, cur>>
    BY DEF task_publish
  <1>2. /\ IsRequest(r) /\ msg[r].case = I2C
        /\ \A i \in DOMAIN inbox : inbox[i] # r
        /\ ~Answering(r)
    BY <1>1 DEF IInv, AnswerInv, InboxInv, Answering
  <1>3. resp \in Responses /\ resp.req = r /\ resp.case = msg[r].case
    <2>1. tresult[r].all \in BOOLEAN
      BY DEF IInv, TypeOK
    <2> QED
      BY <1>2, <2>1 DEF Responses
  <1>4. r \in Open
    BY <1>1 DEF Open, WorkPc
  <1>5. Open' = Open \ {r}
    BY <1>1, <1>2 DEF Open, Answering, IInv, TypeOK, WorkPc, InitPc, DrivePc
  <1> HIDE DEF resp
  <1> QED
    BY <1>1, <1>2, <1>3, <1>4, <1>5, AnswerStep

\* The steps of a task that does not publish move it along, or end it.
LEMMA TaskOpen ==
  ASSUME IInv, NEW r \in Requests, SensorTask(r), ~task_publish(r)
  PROVE  UNCHANGED <<msg, published>> /\ Open' \subseteq Open
  <1> USE DEF noTaskChange, netVars, TaskStep
  <1>1. PICK from, to :
          /\ tpc[r] = from /\ tpc' = [tpc EXCEPT ![r] = to]
          /\ to \in WorkPc => from \in WorkPc
          /\ UNCHANGED <<msg, inbox, hpc, cur, published>>
    BY DEF SensorTask, read_sda, read_scl, check_installed, param_config,
       driver_install, set_installed, sensor_init, sensor_mode, sensor_data,
       task_delete, WorkPc, InitPc, DrivePc
  <1> QED
    BY <1>1 DEF Open, Answering, IInv, TypeOK

LEMMA RestartOpen == Restart => UNCHANGED <<msg, published>> /\ Open' \subseteq Open
  BY DEF Restart, Open, Answering, WorkPc, InitPc, DrivePc

\* The other steps of the MQTT task and of the environment open nothing.
LEMMA HandlerOpen ==
  ASSUME IInv,
         \/ BrokerSubscribes \/ LinkDrops \/ Connected \/ func0
         \/ read_sensor_sda \/ read_sensor_scl \/ read_sensor_create
         \/ free_unpacked
  PROVE  UNCHANGED <<msg, published>> /\ Open' \subseteq Open
  <1> USE DEF netVars, taskVars
  <1>1. CASE BrokerSubscribes \/ Connected
    BY <1>1 DEF BrokerSubscribes, Connected, Open, Answering
  <1>2. CASE LinkDrops
    BY <1>2 DEF LinkDrops, Open, Answering
  <1>3. CASE func0 \/ read_sensor_sda \/ read_sensor_scl \/ free_unpacked
    BY <1>3 DEF func0, read_sensor_sda, read_sensor_scl, free_unpacked,
       Dispatched, Open, Answering
  <1>4. CASE read_sensor_create
    <2>1. cur \in Open
      BY <1>4 DEF read_sensor_create, IInv, HandlerInv, TypeOK, Open, Answering
    <2> QED
      BY <1>4, <2>1 DEF read_sensor_create, Open, Answering, IInv, TypeOK
  <1> QED
    BY <1>1, <1>2, <1>3, <1>4

LEMMA NextService ==
  ASSUME IInv, [Next]_vars
  PROVE  [Service!Next]_(Service!vars)
  <1>1. CASE \E r \in Requests, b \in Bodies : Publish(r, b)
    BY <1>1, PublishService DEF Service!Next
  <1>2. CASE BrokerSubscribes \/ LinkDrops
    BY <1>2, HandlerOpen, LoseStep
  <1>3. CASE PowerCycle
    BY <1>3, RestartOpen, LoseStep DEF PowerCycle
  <1>4. CASE MqttTask
    <2>1. CASE UnpackFails
      BY <2>1, RestartOpen, LoseStep DEF UnpackFails
    <2>2. CASE DataArrives
      BY <2>2, DataArrivesOpen, LoseStep DEF DataArrives
    <2>3. CASE settimeofday_func \/ gettimeofday_func \/ ledcontroller_func
      BY <2>3, settimeofdayService, gettimeofdayService, ledcontrollerService
    <2>4. CASE \/ Connected \/ func0 \/ read_sensor_sda \/ read_sensor_scl
               \/ read_sensor_create \/ free_unpacked
      BY <2>4, HandlerOpen, LoseStep
    <2> QED
      BY <1>4, <2>1, <2>2, <2>3, <2>4 DEF MqttTask
  <1>5. CASE \E r \in Requests : SensorTask(r)
    BY <1>5, task_publishService, TaskOpen, LoseStep
  <1>6. CASE UNCHANGED vars
    <2>1. UNCHANGED <<msg, published>> /\ Open' = Open
      BY <1>6 DEF vars, netVars, taskVars, Open, Answering
    <2> QED
      BY <2>1, LoseStep
  <1> QED
    BY <1>1, <1>2, <1>3, <1>4, <1>5, <1>6 DEF Next

\* The device implements the at-most-once service: for every behaviour of the
\* firmware, the calls, the open requests and the replies behave as
\* AtMostOnceRpc allows.
THEOREM DeviceImplementsService == Spec => ImplementsService
  <1>1. Init => Service!Init
    BY InitService
  <1>2. IInv /\ [Next]_vars => [Service!Next]_(Service!vars)
    BY NextService
  <1> QED
    BY <1>1, <1>2, InductiveInvariant, PTL DEF Spec, ImplementsService, Service!Spec

-----------------------------------------------------------------------------
(* The I2C driver.                                                         *)

\* A task that has returned from i2c_driver_install, and a flag that is set,
\* mean that an install has returned since the restart.
DriverInv ==
  /\ driver_installed_stat = 1 => i2c.driver # "absent"
  /\ \A r \in Requests :
       tpc[r] \in DrivePc \cup {"flag"} => i2c.driver # "absent"

LEMMA DriverInit == Init => DriverInv
  BY DEF Init, DriverInv, DrivePc

\* A step that leaves the port alone and takes no task into DrivePc.
LEMMA DriverFrame ==
  ASSUME TypeOK, DriverInv, UNCHANGED busVars,
         \A r \in Requests : tpc'[r] \in DrivePc \cup {"flag"} => tpc'[r] = tpc[r]
  PROVE  DriverInv'
  BY DEF DriverInv, busVars

LEMMA DriverTask ==
  ASSUME TypeOK, DriverInv, NEW r \in Requests, SensorTask(r)
  PROVE  DriverInv'
  <1> USE DEF DrivePc, TaskStep
  <1>0. /\ tpc \in [Requests -> TaskPc]
        /\ driver_installed_stat \in {0, 1}
        /\ i2c \in [driver : {"absent", "installed", "no_memory"},
                    sda : Pins, scl : Pins]
    BY DEF TypeOK
  <1>1. CASE read_sda(r) \/ read_scl(r) \/ task_publish(r) \/ task_delete(r)
    BY <1>0, <1>1, DriverFrame DEF read_sda, read_scl, task_publish, task_delete
  <1>2. CASE check_installed(r)
    BY <1>0, <1>2 DEF check_installed, DriverInv, busVars
  <1>3. CASE param_config(r)
    <2>1. i2c'.driver = i2c.driver
      BY <1>0, <1>3 DEF param_config
    <2> QED
      BY <1>0, <1>3, <2>1 DEF param_config, DriverInv
  <1>4. CASE driver_install(r)
    <2>1. i2c'.driver \in {"installed", "no_memory"}
      BY <1>0, <1>4 DEF driver_install
    <2> QED
      BY <2>1 DEF DriverInv
  <1>5. CASE set_installed(r)
    <2>1. i2c.driver # "absent"
      BY <1>5 DEF set_installed, DriverInv
    <2> QED
      BY <1>5, <2>1 DEF set_installed, DriverInv
  <1>6. CASE sensor_init(r) \/ sensor_mode(r) \/ sensor_data(r)
    <2>1. tpc[r] \in DrivePc /\ UNCHANGED busVars
      BY <1>6 DEF sensor_init, sensor_mode, sensor_data
    <2> QED
      BY <2>1 DEF DriverInv, busVars
  <1> QED
    BY <1>1, <1>2, <1>3, <1>4, <1>5, <1>6 DEF SensorTask

LEMMA DriverRestart == Restart => DriverInv'
  BY DEF Restart, DriverInv, DrivePc

LEMMA DriverMqtt ==
  ASSUME IInv, DriverInv, MqttTask
  PROVE  DriverInv'
  <1> TypeOK
    BY DEF IInv
  <1>1. CASE UnpackFails
    BY <1>1, DriverRestart DEF UnpackFails
  <1>2. CASE read_sensor_create
    <2>1. cur \in Requests
      BY <1>2 DEF IInv, TypeOK, HandlerInv, read_sensor_create
    <2>2. \A r \in Requests :
            tpc'[r] \in DrivePc \cup {"flag"} => tpc'[r] = tpc[r]
      BY <1>2, <2>1 DEF read_sensor_create, TypeOK, DrivePc
    <2> QED
      BY <1>2, <2>2, DriverFrame DEF read_sensor_create
  <1>3. CASE MqttTask /\ ~UnpackFails /\ ~read_sensor_create
    <2>1. UNCHANGED <<tpc, busVars>>
      BY <1>3 DEF MqttTask, Connected, DataArrives, func0, settimeofday_func,
         gettimeofday_func, ledcontroller_func, read_sensor_sda,
         read_sensor_scl, free_unpacked, taskVars
    <2> QED
      BY <2>1, DriverFrame
  <1> QED
    BY <1>1, <1>2, <1>3

LEMMA DriverNext == IInv /\ DriverInv /\ [Next]_vars => DriverInv'
  <1> SUFFICES ASSUME IInv, DriverInv, [Next]_vars PROVE DriverInv'
    OBVIOUS
  <1>0. TypeOK
    BY DEF IInv
  <1>1. CASE \/ \E r \in Requests, b \in Bodies : Publish(r, b)
             \/ BrokerSubscribes \/ LinkDrops \/ UNCHANGED vars
    <2>1. UNCHANGED <<tpc, busVars>>
      BY <1>1 DEF Publish, BrokerSubscribes, LinkDrops, vars, taskVars
    <2> QED
      BY <1>0, <2>1, DriverFrame
  <1>2. CASE PowerCycle
    BY <1>2, DriverRestart DEF PowerCycle
  <1>3. CASE MqttTask
    BY <1>3, DriverMqtt
  <1>4. CASE \E r \in Requests : SensorTask(r)
    BY <1>0, <1>4, DriverTask
  <1> QED
    BY <1>1, <1>2, <1>3, <1>4 DEF Next

\* No task uses the bus before an install has returned, for any number of tasks
\* that test and set the flag in any order, and across restarts.
THEOREM DriverReadyAlways == Spec => []DriverReady
  <1>1. DriverInv => DriverReady
    BY DEF DriverInv, DriverReady
  <1> QED
    BY <1>1, DriverInit, DriverNext, InductiveInvariant, PTL DEF Spec

-----------------------------------------------------------------------------
(* The clock.                                                              *)

\* Once a settimeofday is answered, what the clock holds is the time of some
\* request that set it.
ClockInv ==
  boots = 0 =>
    \A i \in DOMAIN published :
      published[i].case = SETTIMEOFDAY =>
        \E r \in Requests :
          IsRequest(r) /\ msg[r].case = SETTIMEOFDAY /\ msg[r].time = clock

\* A step that publishes nothing and leaves the clock alone, or restarts.
LEMMA ClockFrame ==
  ASSUME IInv, ReadYourWrite, ClockInv, published' = published,
         boots' # 0 \/ (boots' = boots /\ clock' = clock),
         \A r \in Requests : IsRequest(r) => IsRequest(r)' /\ msg'[r] = msg[r]
  PROVE  ReadYourWrite' /\ ClockInv'
  <1>1. \A i \in DOMAIN published :
          /\ published[i].req \in Requests
          /\ IsRequest(published[i].req)
          /\ published[i] \in Responses
    BY DEF IInv, TypeOK, AtMostOnce, Responses
  <1>2. ReadYourWrite'
    BY <1>1 DEF ReadYourWrite
  <1>3. ClockInv'
    BY DEF ClockInv
  <1> QED
    BY <1>2, <1>3

\* A step that publishes a response; when it says the time, it is the clock's,
\* and when it answers settimeofday, the clock was set by a request.
LEMMA ClockPublish ==
  ASSUME IInv, ReadYourWrite, ClockInv, NEW resp, MqttPublish(resp),
         UNCHANGED <<msg, boots>>,
         resp.case = GETTIMEOFDAY => resp.timeval = clock,
         \/ clock' = clock /\ resp.case # SETTIMEOFDAY
         \/ \E r \in Requests : /\ IsRequest(r) /\ msg[r].case = SETTIMEOFDAY
                                /\ msg[r].time = clock'
  PROVE  ReadYourWrite' /\ ClockInv'
  <1>1. /\ published \in Seq(Responses)
        /\ \/ published' = published
           \/ published' = Append(published, resp)
    BY DEF IInv, TypeOK, MqttPublish
  <1>2. \A i \in DOMAIN published' :
          \/ i \in DOMAIN published /\ published'[i] = published[i]
          \/ /\ published'[i] = resp /\ i = Len(published) + 1
    BY <1>1
  <1>3. DOMAIN published = 1 .. Len(published) /\ Len(published) \in Nat
    BY <1>1
  <1>4. ClockInv'
    BY <1>2 DEF ClockInv, IsRequest
  <1>5. ASSUME boots' = 0,
               NEW i \in DOMAIN published', NEW j \in DOMAIN published', i < j,
               published'[i].case = SETTIMEOFDAY,
               published'[j].case = GETTIMEOFDAY,
               published'[j].timeval # msg[published'[i].req].time
        PROVE  \E r \in Requests \ {published'[i].req} :
                 /\ IsRequest(r) /\ msg[r].case = SETTIMEOFDAY
                 /\ msg[r].time = published'[j].timeval
    <2>1. i \in DOMAIN published /\ published'[i] = published[i]
      <3>1. j <= Len(published) + 1 /\ i # Len(published) + 1
        BY <1>2, <1>3, <1>5
      <3> QED
        BY <1>2, <3>1
    <2>2. CASE j \in DOMAIN published /\ published'[j] = published[j]
      BY <1>5, <2>1, <2>2 DEF ReadYourWrite
    <2>3. CASE published'[j] = resp
      <3>1. PICK r \in Requests : /\ IsRequest(r) /\ msg[r].case = SETTIMEOFDAY
                                 /\ msg[r].time = clock
        BY <1>5, <2>1 DEF ClockInv
      <3>2. published'[j].timeval = clock
        BY <1>5, <2>3
      <3>3. r # published'[i].req
        BY <1>5, <3>1, <3>2
      <3> QED
        BY <3>1, <3>2, <3>3
    <2> QED
      BY <1>2, <2>2, <2>3
  <1>6. ReadYourWrite'
    BY <1>5 DEF ReadYourWrite, IsRequest
  <1> QED
    BY <1>4, <1>6

LEMMA ClockInit == Init => ReadYourWrite /\ ClockInv
  BY DEF Init, ReadYourWrite, ClockInv

LEMMA ClockRestart ==
  IInv /\ ReadYourWrite /\ ClockInv /\ Restart => ReadYourWrite' /\ ClockInv'
  <1> SUFFICES ASSUME IInv, ReadYourWrite, ClockInv, Restart
               PROVE  ReadYourWrite' /\ ClockInv'
    OBVIOUS
  <1>1. boots \in Nat /\ boots' = boots + 1
    BY DEF IInv, TypeOK, Restart
  <1>2. boots' # 0
    BY <1>1
  <1> QED
    BY <1>2 DEF ReadYourWrite, ClockInv

LEMMA ClockMqtt ==
  ASSUME IInv, ReadYourWrite, ClockInv, MqttTask
  PROVE  ReadYourWrite' /\ ClockInv'
  <1> TypeOK /\ HandlerInv
    BY DEF IInv
  <1>1. CASE UnpackFails
    BY <1>1, ClockRestart DEF UnpackFails
  <1>2. CASE settimeofday_func
    <2> DEFINE resp == [req |-> cur, case |-> SETTIMEOFDAY, return_value |-> 0,
                        errno_alt |-> errno]
    <2>1. cur \in Requests /\ IsRequest(cur) /\ msg[cur].case = SETTIMEOFDAY
      BY <1>2, Table DEF settimeofday_func
    <2>2. MqttPublish(resp) /\ clock' = msg[cur].time /\ UNCHANGED <<msg, boots>>
      BY <1>2 DEF settimeofday_func, netVars
    <2>3. resp.case = GETTIMEOFDAY => resp.timeval = clock
      BY DEF SETTIMEOFDAY, GETTIMEOFDAY
    <2> HIDE DEF resp
    <2> QED
      BY <2>1, <2>2, <2>3, ClockPublish
  <1>3. CASE gettimeofday_func
    <2> DEFINE resp == [req |-> cur, case |-> GETTIMEOFDAY, return_value |-> 0,
                        errno_alt |-> errno, timeval |-> clock]
    <2>1. MqttPublish(resp) /\ UNCHANGED <<msg, boots, clock>>
      BY <1>3 DEF gettimeofday_func, netVars
    <2>2. resp.case # SETTIMEOFDAY /\ resp.timeval = clock
      BY DEF SETTIMEOFDAY, GETTIMEOFDAY
    <2> HIDE DEF resp
    <2> QED
      BY <2>1, <2>2, ClockPublish
  <1>4. CASE ledcontroller_func
    <2> DEFINE resp == [req |-> cur, case |-> LEDC_CHANNEL_CONFIG,
                        config_status |-> 1]
    <2>1. MqttPublish(resp) /\ UNCHANGED <<msg, boots, clock>>
      BY <1>4 DEF ledcontroller_func, netVars
    <2>2. resp.case # SETTIMEOFDAY /\ resp.case # GETTIMEOFDAY
      BY DEF SETTIMEOFDAY, GETTIMEOFDAY, LEDC_CHANNEL_CONFIG
    <2> HIDE DEF resp
    <2> QED
      BY <2>1, <2>2, ClockPublish
  <1>5. CASE \/ Connected \/ DataArrives \/ func0 \/ read_sensor_sda
             \/ read_sensor_scl \/ read_sensor_create \/ free_unpacked
    <2>1. UNCHANGED <<msg, published, clock, boots>>
      BY <1>5 DEF Connected, DataArrives, func0, read_sensor_sda,
         read_sensor_scl, read_sensor_create, free_unpacked, netVars
    <2>2. \A r \in Requests : IsRequest(r) => IsRequest(r)' /\ msg'[r] = msg[r]
      BY <2>1 DEF IsRequest
    <2> QED
      BY <2>1, <2>2, ClockFrame
  <1> QED
    BY <1>1, <1>2, <1>3, <1>4, <1>5 DEF MqttTask

LEMMA ClockTask ==
  ASSUME IInv, ReadYourWrite, ClockInv, NEW r \in Requests, SensorTask(r)
  PROVE  ReadYourWrite' /\ ClockInv'
  <1>1. UNCHANGED <<msg, clock, boots>>
    BY DEF SensorTask, read_sda, read_scl, check_installed, param_config,
       driver_install, set_installed, sensor_init, sensor_mode, sensor_data,
       task_publish, task_delete, noTaskChange, netVars
  <1>2. CASE task_publish(r)
    <2> DEFINE resp == [req |-> r, case |-> I2C,
                        success |-> IF tresult[r].rslt2 THEN 0 ELSE E_COMM_FAIL,
                        measured |-> tresult[r].all]
    <2>1. MqttPublish(resp)
      BY <1>2 DEF task_publish
    <2>2. resp.case # SETTIMEOFDAY /\ resp.case # GETTIMEOFDAY
      BY DEF SETTIMEOFDAY, GETTIMEOFDAY, I2C
    <2> HIDE DEF resp
    <2> QED
      BY <1>1, <2>1, <2>2, ClockPublish
  <1>3. CASE published' = published
    <2>1. \A q \in Requests : IsRequest(q) => IsRequest(q)' /\ msg'[q] = msg[q]
      BY <1>1 DEF IsRequest
    <2> QED
      BY <1>1, <1>3, <2>1, ClockFrame
  <1> QED
    BY <1>2, <1>3 DEF SensorTask, read_sda, read_scl, check_installed,
       param_config, driver_install, set_installed, sensor_init, sensor_mode,
       sensor_data, task_delete

LEMMA ClockNext ==
  IInv /\ ReadYourWrite /\ ClockInv /\ [Next]_vars => ReadYourWrite' /\ ClockInv'
  <1> SUFFICES ASSUME IInv, ReadYourWrite, ClockInv, [Next]_vars
               PROVE  ReadYourWrite' /\ ClockInv'
    OBVIOUS
  <1>1. CASE \/ \E r \in Requests, b \in Bodies : Publish(r, b)
             \/ BrokerSubscribes \/ LinkDrops \/ UNCHANGED vars
    <2>1. UNCHANGED <<published, clock, boots>>
      BY <1>1 DEF Publish, BrokerSubscribes, LinkDrops, vars
    <2>2. \A r \in Requests : IsRequest(r) => IsRequest(r)' /\ msg'[r] = msg[r]
      BY <1>1 DEF Publish, BrokerSubscribes, LinkDrops, vars, netVars, IsRequest,
         IInv, TypeOK
    <2> QED
      BY <2>1, <2>2, ClockFrame
  <1>2. CASE PowerCycle
    BY <1>2, ClockRestart DEF PowerCycle
  <1>3. CASE MqttTask
    BY <1>3, ClockMqtt
  <1>4. CASE \E r \in Requests : SensorTask(r)
    BY <1>4, ClockTask
  <1> QED
    BY <1>1, <1>2, <1>3, <1>4 DEF Next

\* A client whose settimeofday was answered reads its time, or that of another
\* client that set the clock: for any number of clients and times.
THEOREM ReadsWhatWasSet == Spec => []ReadYourWrite
  BY ClockInit, ClockNext, InductiveInvariant, PTL DEF Spec

-----------------------------------------------------------------------------
(* The LED controller.                                                     *)

\* A request for what the hardware has runs once it is configured.
LEMMA ConfiguredRuns ==
  ASSUME NEW state \in LedcStates, NEW conf \in Confs,
         Accepts(conf.mode, conf.channel, conf.gpio, conf.intr),
         NEW channel \in ChannelSwitch(conf), NEW intr \in IntrSwitch(conf)
  PROVE  Runs(Configured(state, conf, channel, intr), conf)
  <1> DEFINE sel == TimerSel(conf)
             timed == ledc_timer_config(state, conf.mode, sel)
             c == [mode |-> conf.mode, channel |-> channel, gpio |-> conf.gpio,
                   timer |-> sel, duty |-> conf.duty]
             after == ledc_channel_config(timed, conf.mode, channel, conf.gpio,
                                          intr, sel, conf.duty)
  <1>1. channel = conf.channel
    BY DEF ChannelSwitch, Accepts, HwChannels, LEDC_CHANNEL_MAX
  <1>2. intr = conf.intr
    BY DEF IntrSwitch, Accepts
  <1>3. Accepts(conf.mode, channel, conf.gpio, intr)
    BY <1>1, <1>2
  <1>4. timed.timers = state.timers \cup {<<conf.mode, sel>>}
        /\ timed.channels = state.channels
        /\ timed \in LedcStates
    BY DEF ledc_timer_config, LedcStates, TimerSel, Accepts
  <1> HIDE DEF sel, timed
  <1>5. c \in after.channels /\ after.timers = timed.timers
    BY <1>3, <1>4 DEF ledc_channel_config, LedcStates
  <1>6. Configured(state, conf, channel, intr) = after
    BY DEF Configured, timed, sel
  <1> HIDE DEF after
  <1> QED
    BY <1>1, <1>4, <1>5, <1>6 DEF Runs

\* A request for another channel leaves what runs alone, accepted or refused.
LEMMA ConfiguredKeeps ==
  ASSUME NEW state \in LedcStates, NEW conf \in Confs, NEW other \in Confs,
         NEW channel \in ChannelSwitch(other), NEW intr \in IntrSwitch(other),
         other.channel <= LEDC_CHANNEL_MAX,
         other.mode # conf.mode \/ other.channel # conf.channel,
         Runs(state, conf)
  PROVE  Runs(Configured(state, other, channel, intr), conf)
  <1> DEFINE sel == TimerSel(other)
             timed == ledc_timer_config(state, other.mode, sel)
             after == ledc_channel_config(timed, other.mode, channel, other.gpio,
                                          intr, sel, other.duty)
  <1>1. channel = other.channel
    BY DEF ChannelSwitch, Confs, LEDC_CHANNEL_MAX
  <1>2. state.timers \subseteq timed.timers
        /\ timed.channels = state.channels
        /\ timed \in LedcStates
    BY DEF ledc_timer_config, LedcStates, TimerSel
  <1> HIDE DEF sel, timed
  <1>3. /\ after.timers = timed.timers
        /\ \A c \in state.channels :
             c.mode # other.mode \/ c.channel # channel => c \in after.channels
    BY <1>2 DEF ledc_channel_config, LedcStates
  <1>4. Configured(state, other, channel, intr) = after
    BY DEF Configured, timed, sel
  <1> HIDE DEF after
  <1> QED
    BY <1>1, <1>2, <1>3, <1>4 DEF Runs

\* A step that answers no LED request and leaves the controller alone.
LEMMA LedFrame ==
  ASSUME IInv, LedAsAnswered,
         \/ boots' # 0
         \/ /\ boots' = boots /\ ledc' = ledc
            /\ \A i \in DOMAIN published' :
                 \/ i \in DOMAIN published /\ published'[i] = published[i]
                 \/ published'[i].case # LEDC_CHANNEL_CONFIG,
         AtMostOnce',
         \A r \in Requests : IsRequest(r) => IsRequest(r)' /\ msg'[r] = msg[r]
  PROVE  LedAsAnswered'
  <1> DEFINE LedNow(q) == /\ msg'[q] # NoBody /\ msg'[q].type = "request"
                          /\ msg'[q].case = LEDC_CHANNEL_CONFIG
  <1> SUFFICES ASSUME boots' = 0, NEW i \in DOMAIN published',
                      LedNow(published'[i].req),
                      Accepts(msg'[published'[i].req].conf.mode,
                              msg'[published'[i].req].conf.channel,
                              msg'[published'[i].req].conf.gpio,
                              msg'[published'[i].req].conf.intr),
                      \A q \in Requests \ {published'[i].req} :
                        LedNow(q) =>
                          /\ msg'[q].conf.channel <= LEDC_CHANNEL_MAX
                          /\ \/ msg'[q].conf.mode # msg'[published'[i].req].conf.mode
                             \/ msg'[q].conf.channel
                                  # msg'[published'[i].req].conf.channel
               PROVE  Runs(ledc', msg'[published'[i].req].conf)
    BY DEF LedAsAnswered, OnlyOneForItsChannel, IsLedRequest, IsRequest
  <1> DEFINE r == published'[i].req
  <1>1. published'[i].case = LEDC_CHANNEL_CONFIG
    BY DEF AtMostOnce
  <1>2. i \in DOMAIN published /\ published'[i] = published[i]
        /\ boots = 0 /\ ledc' = ledc
    BY <1>1
  <1>3. IsRequest(r) /\ r \in Requests /\ msg'[r] = msg[r]
    BY <1>2 DEF IInv, TypeOK, AtMostOnce, Responses
  <1>4. \A q \in Requests : IsLedRequest(q) => LedNow(q) /\ msg'[q] = msg[q]
    BY DEF IsLedRequest, IsRequest
  <1>5. IsLedRequest(r)
    BY <1>3 DEF IsLedRequest
  <1> HIDE DEF LedNow
  <1> QED
    BY <1>2, <1>3, <1>4, <1>5 DEF LedAsAnswered, OnlyOneForItsChannel

LEMMA LedProcedure ==
  ASSUME IInv, LedAsAnswered, ledcontroller_func
  PROVE  LedAsAnswered'
  <1> USE DEF IsLedRequest
  <1> DEFINE resp == [req |-> cur, case |-> LEDC_CHANNEL_CONFIG,
                      config_status |-> 1]
  <1>1. /\ cur \in Requests /\ IsRequest(cur) /\ msg[cur] \in Bodies
        /\ msg[cur].case = LEDC_CHANNEL_CONFIG
    BY Table DEF ledcontroller_func, IInv
  <1>2. \A q \in Requests : IsLedRequest(q) => msg[q].conf \in Confs
    BY BodyKinds DEF IsRequest, IInv, TypeOK
  <1>3. ledc \in LedcStates /\ published \in Seq(Responses)
    BY DEF IInv, TypeOK
  <1>4. PICK channel \in ChannelSwitch(msg[cur].conf),
             intr \in IntrSwitch(msg[cur].conf) :
          ledc' = Configured(ledc, msg[cur].conf, channel, intr)
    BY DEF ledcontroller_func
  <1>5. /\ UNCHANGED <<msg, boots>>
        /\ published' = published \/ published' = Append(published, resp)
        /\ Unanswered(cur)
    BY DEF ledcontroller_func, netVars, MqttPublish, Dispatched, IInv, AnswerInv
  <1>6. \A i \in DOMAIN published' :
          \/ i \in DOMAIN published /\ published'[i] = published[i]
          \/ published'[i] = resp
    BY <1>3, <1>5
  <1> SUFFICES ASSUME boots = 0, NEW i \in DOMAIN published',
                      IsLedRequest(published'[i].req),
                      Accepts(msg[published'[i].req].conf.mode,
                              msg[published'[i].req].conf.channel,
                              msg[published'[i].req].conf.gpio,
                              msg[published'[i].req].conf.intr),
                      OnlyOneForItsChannel(published'[i].req)
               PROVE  Runs(ledc', msg[published'[i].req].conf)
    BY <1>5 DEF LedAsAnswered, OnlyOneForItsChannel, IsRequest
  <1>7. CASE published'[i] = resp
    BY <1>1, <1>2, <1>3, <1>4, <1>7, ConfiguredRuns
  <1>8. CASE i \in DOMAIN published /\ published'[i] = published[i]
    <2>1. published[i].req \in Requests /\ cur # published[i].req
      BY <1>3, <1>5, <1>8 DEF Unanswered, Responses
    <2>2. Runs(ledc, msg[published[i].req].conf)
      BY <1>8 DEF LedAsAnswered
    <2>3. /\ msg[cur].conf.channel <= LEDC_CHANNEL_MAX
          /\ \/ msg[cur].conf.mode # msg[published[i].req].conf.mode
             \/ msg[cur].conf.channel # msg[published[i].req].conf.channel
      BY <1>1, <1>8, <2>1 DEF OnlyOneForItsChannel
    <2> QED
      BY <1>1, <1>2, <1>3, <1>4, <1>8, <2>1, <2>2, <2>3, ConfiguredKeeps
  <1> QED
    BY <1>6, <1>7, <1>8

LEMMA LedInit == Init => LedAsAnswered
  BY DEF Init, LedAsAnswered

LEMMA LedNext == IInv /\ LedAsAnswered /\ [Next]_vars => LedAsAnswered'
  <1> SUFFICES ASSUME IInv, LedAsAnswered, [Next]_vars PROVE LedAsAnswered'
    OBVIOUS
  <1>1. AtMostOnce' /\ published \in Seq(Responses)
    BY NextIInv DEF IInv, TypeOK
  <1>2. \A r \in Requests : IsRequest(r) => IsRequest(r)' /\ msg'[r] = msg[r]
    BY DEF Next, Publish, BrokerSubscribes, LinkDrops, PowerCycle, Restart,
       MqttTask, Connected, DataArrives, UnpackFails, func0, settimeofday_func,
       gettimeofday_func, ledcontroller_func, read_sensor_sda, read_sensor_scl,
       read_sensor_create, free_unpacked, SensorTask, read_sda, read_scl,
       check_installed, param_config, driver_install, set_installed,
       sensor_init, sensor_mode, sensor_data, task_publish, task_delete,
       noTaskChange, vars, netVars, IsRequest, IInv, TypeOK
  <1>3. CASE PowerCycle \/ UnpackFails
    <2>1. boots' = boots + 1 /\ boots \in Nat
      BY <1>3 DEF PowerCycle, UnpackFails, Restart, IInv, TypeOK
    <2> QED
      BY <1>1, <1>2, <2>1, LedFrame
  <1>4. CASE ledcontroller_func
    BY <1>4, LedProcedure
  <1>5. CASE \/ settimeofday_func \/ gettimeofday_func
             \/ \E r \in Requests : task_publish(r)
    <2>1. UNCHANGED <<ledc, boots>>
      BY <1>5 DEF settimeofday_func, gettimeofday_func, task_publish, noTaskChange
    <2>2. \E resp : MqttPublish(resp) /\ resp.case # LEDC_CHANNEL_CONFIG
      <3> USE DEF SETTIMEOFDAY, GETTIMEOFDAY, LEDC_CHANNEL_CONFIG, I2C
      <3>1. CASE settimeofday_func
        <4> WITNESS [req |-> cur, case |-> SETTIMEOFDAY, return_value |-> 0,
                     errno_alt |-> errno]
        <4> QED
          BY <3>1 DEF settimeofday_func
      <3>2. CASE gettimeofday_func
        <4> WITNESS [req |-> cur, case |-> GETTIMEOFDAY, return_value |-> 0,
                     errno_alt |-> errno, timeval |-> clock]
        <4> QED
          BY <3>2 DEF gettimeofday_func
      <3>3. ASSUME NEW r \in Requests, task_publish(r)
            PROVE  \E resp : MqttPublish(resp) /\ resp.case # LEDC_CHANNEL_CONFIG
        <4> WITNESS [req |-> r, case |-> I2C,
                     success |-> IF tresult[r].rslt2 THEN 0 ELSE E_COMM_FAIL,
                     measured |-> tresult[r].all]
        <4> QED
          BY <3>3 DEF task_publish
      <3> QED
        BY <1>5, <3>1, <3>2, <3>3
    <2>3. \A i \in DOMAIN published' :
            \/ i \in DOMAIN published /\ published'[i] = published[i]
            \/ published'[i].case # LEDC_CHANNEL_CONFIG
      BY <1>1, <2>2 DEF MqttPublish
    <2> QED
      BY <1>1, <1>2, <2>1, <2>3, LedFrame
  <1>6. CASE UNCHANGED <<published, ledc, boots>>
    BY <1>1, <1>2, <1>6, LedFrame
  <1> QED
    BY <1>3, <1>4, <1>5, <1>6 DEF Next, Publish, BrokerSubscribes, LinkDrops,
       MqttTask, Connected, DataArrives, func0, read_sensor_sda,
       read_sensor_scl, read_sensor_create, free_unpacked, SensorTask,
       read_sda, read_scl, check_installed, param_config, driver_install,
       set_installed, sensor_init, sensor_mode, sensor_data, task_delete,
       noTaskChange, vars

\* An answered LED request the hardware can do is what its channel runs, for any
\* number of requests with any modes, channels, pins, interrupt types and duties,
\* those ESP-IDF refuses among them.
THEOREM LedRunsAsAnswered == Spec => []LedAsAnswered
  BY LedInit, LedNext, InductiveInvariant, PTL DEF Spec
=============================================================================
