---------------------------- MODULE Bme280_proofs ----------------------------
(***************************************************************************)
(* That the driver, used by one task at a time, reads whole calibration    *)
(* data, writes config in sleep mode only, keeps the settings over the     *)
(* reset of put_device_to_sleep and returns the reading it asked for: for  *)
(* any number of tasks one after the other, any failing transfers and      *)
(* whatever an earlier task has left in the chip.                          *)
(***************************************************************************)
EXTENDS Bme280, TLAPS

Calling == {"settings", "mode"}
SettingsPc == {"osr", "hum_write", "hum_read", "hum_rewrite", "pt_read", "pt_write",
               "cfg_read", "cfg_write"}

\* The call in which each transfer is made, and whether put_device_to_sleep
\* makes it; a call that is not over has returned nothing.
Placed(d) ==
  /\ d.pc \in {"idle", "chip_id", "calib_tp", "calib_h"} => d.api = "init" /\ ~d.sleeping
  /\ d.pc \in {"reset", "status"} =>
       (d.api = "init" /\ ~d.sleeping) \/ (d.api \in Calling /\ d.sleeping)
  /\ d.pc = "get_mode" => d.api \in Calling /\ ~d.sleeping
  /\ d.pc = "save" => d.api \in Calling /\ d.sleeping
  /\ d.pc \in SettingsPc => d.api = "settings" \/ (d.api = "mode" /\ d.sleeping)
  /\ d.pc \in {"pw_read", "pw_write"} => d.api = "mode" /\ ~d.sleeping
  /\ d.pc \in {"wait", "data", "done"} => d.api = "data" /\ ~d.sleeping

\* The status read in bme280_init leaves a chip whose copy is finished, and no
\* one else resets it before the two reads.
Calibrated(d, s) ==
  /\ d.api = "init" => d.rslt["init"] # "OK"
  /\ d.rslt["init"] = "OK" => d.calib = "good"
  /\ d.pc \in {"calib_tp", "calib_h"} => ~s.nvm
  /\ d.pc = "calib_h" => d.calib = "half"

\* From the mode check, or the reset, the chip sleeps until write_power_mode.
Sleeps(d, s) ==
  /\ d.pc \in SettingsPc \cup {"status", "pw_read", "pw_write"} => s.mode = "sleep"
  /\ d.pc \in {"hum_rewrite", "pt_write"} => d.buf.mode = "sleep"

\* What set_osr_settings and set_filter_standby_settings were given is in the
\* registers they have left behind.
Written(d, s) ==
  /\ d.pc = "pt_write" => d.buf.temp = Given(d).temp /\ d.buf.press = Given(d).press
  /\ d.pc \in {"cfg_read", "cfg_write"} =>
       s.set.temp = Given(d).temp /\ s.set.press = Given(d).press
  /\ d.pc = "cfg_write" =>
       d.buf.filter = Given(d).filter /\ d.buf.standby = Given(d).standby

\* The reading the task has asked for is in the data registers.
Ready(d, s, k) == s.mode = "sleep" /\ s.data.by = k /\ Agree(s.data.under, d.want)

\* After a settings call that returned BME280_OK its settings stay in the chip,
\* or in `saved' while put_device_to_sleep resets it, up to the conversion.
Applied(d, s, k) ==
  /\ d.api = "mode" /\ d.rslt["settings"] = "OK" =>
       IF d.sleeping /\ d.pc # "save" THEN Agree(d.saved, d.want) ELSE Agree(s.set, d.want)
  /\ d.pc = "pw_write" =>
       d.buf.temp = s.set.temp /\ d.buf.press = s.set.press /\ d.buf.mode = "forced"
  /\ d.pc \in {"wait", "data"} /\ d.rslt["settings"] = "OK" /\ d.rslt["mode"] = "OK" =>
       \/ Ready(d, s, k)
       \/ d.pc = "wait" /\ s.mode = "forced" /\ s.owner = k /\ Agree(s.set, d.want)
  /\ d.pc = "done" /\ (\A a \in Apis : d.rslt[a] = "OK") =>
       d.reading.by = k /\ Agree(d.reading.under, d.want)

TaskInv(d, s, k) ==
  /\ Placed(d)
  /\ Calibrated(d, s)
  /\ Sleeps(d, s)
  /\ Written(d, s)
  /\ Applied(d, s, k)

OneActive == \A j, k \in Tasks : Active(j) /\ Active(k) => j = k

IInv ==
  /\ TypeOK
  /\ OneActive
  /\ \A k \in Tasks : TaskInv(drv[k], sensor, k)

-----------------------------------------------------------------------------
(* A task at a time.                                                       *)

\* A task that is not active needs nothing of the chip.
LEMMA InactiveIndifferent ==
  ASSUME NEW d, NEW s, NEW k, d.pc \in {"idle", "done"}, TaskInv(d, s, k), NEW q
  PROVE  TaskInv(d, q, k)
  BY DEF TaskInv, Placed, Calibrated, Sleeps, Written, Applied, SettingsPc

\* Where the only active task goes on as e, the others need not be looked at.
LEMMA StepIInv ==
  ASSUME IInv, NEW k \in Tasks, Active(k), NEW e \in Drivers, Step(k, e),
         sensor' \in Sensors, TaskInv(e, sensor', k)
  PROVE  IInv'
<1>1. drv \in [Tasks -> Drivers] /\ drv' = [drv EXCEPT ![k] = e]
  BY DEF IInv, TypeOK, Step
<1>2. /\ drv' \in [Tasks -> Drivers]
      /\ drv'[k] = e /\ \A j \in Tasks \ {k} : drv'[j] = drv[j]
  BY <1>1
<1>3. \A j \in Tasks \ {k} : drv[j].pc \in {"idle", "done"}
  BY DEF IInv, OneActive, Active
<1>4. OneActive'
  BY <1>2, <1>3 DEF OneActive, Active
<1>5. ASSUME NEW j \in Tasks PROVE TaskInv(drv'[j], sensor', j)
  <2>1. CASE j = k
    BY <2>1, <1>2
  <2>2. CASE j # k
    BY <2>2, <1>2, <1>3, InactiveIndifferent DEF IInv
  <2> QED BY <2>1, <2>2
<1> QED BY <1>2, <1>4, <1>5 DEF IInv, TypeOK

-----------------------------------------------------------------------------
(* How the driver's procedures return.                                     *)

\* Calibration data that bme280_init has vouched for are whole.
Vouched(d) == d.rslt["init"] = "OK" => d.calib = "good"

\* Any code is a legal result, and the next call begins with clean locals.
LEMMA ReturnTyped ==
  ASSUME NEW d \in Drivers, NEW r \in Codes
  PROVE  Return(d, r) \in Drivers
<1>1. [d.rslt EXCEPT ![d.api] = r] \in [Apis -> Codes]
  BY DEF Drivers
<1>2. AllReset \in Settings /\ NoBuffer \in Buffers
  BY DEF AllReset, NoBuffer, Settings, Buffers, Vals, Modes
<1>3. {"settings", "mode", "data"} \subseteq Apis /\ 0 \in 0 .. TRY_COUNT
      /\ {"get_mode", "wait", "done"} \subseteq Pc
  BY DEF Apis, Pc, Transfers, TRY_COUNT
<1>4. d.api \in {"init", "settings", "mode", "data"}
  BY DEF Drivers, Apis
<1> QED BY <1>1, <1>2, <1>3, <1>4 DEF Return, Drivers

\* A call that fails claims nothing of the chip.
LEMMA ReturnFails ==
  ASSUME NEW d \in Drivers, NEW r \in Codes \ {"OK"}, Vouched(d), NEW s, NEW k
  PROVE  Return(d, r) \in Drivers /\ TaskInv(Return(d, r), s, k)
<1>1. Return(d, r) \in Drivers
  BY ReturnTyped
<1>2. Placed(Return(d, r))
  BY DEF Return, Placed, Drivers, Apis, Calling, SettingsPc
<1>3. Calibrated(Return(d, r), s)
  BY DEF Return, Calibrated, Vouched, Drivers, Apis
<1>4. Sleeps(Return(d, r), s) /\ Written(Return(d, r), s)
  BY DEF Return, Sleeps, Written, Drivers, Apis, SettingsPc
<1>5. Applied(Return(d, r), s, k)
  BY DEF Return, Applied, Drivers, Apis
<1> QED BY <1>1, <1>2, <1>3, <1>4, <1>5 DEF TaskInv

\* A failure inside a call is the failure of that call.
LEMMA FailureReturns ==
  ASSUME NEW d \in Drivers, NEW r \in Codes \ {"OK"}
  PROVE  /\ Asleep(d, r) = Return(d, r)
         /\ SettingsDone(d, r) = Return(d, r)
         /\ OsrDone(d, r) = Return(d, r)
         /\ ResetDone(d, r) = Return(d, r)
  BY DEF Asleep, SettingsDone, OsrDone, ResetDone

\* Every failed transfer but those of set_osr_humidity_settings.
LEMMA TransferFails ==
  ASSUME IInv, NEW k \in Tasks, Active(k), NEW r \in Codes \ {"OK"},
         Step(k, Return(drv[k], r)), sensor' \in Sensors
  PROVE  IInv'
<1>1. drv[k] \in Drivers /\ Vouched(drv[k])
  BY DEF IInv, TypeOK, TaskInv, Calibrated, Vouched
<1> QED BY <1>1, ReturnFails, StepIInv

\* A task after Init, in any step.
LEMMA Here ==
  ASSUME IInv, NEW k \in Tasks
  PROVE  /\ drv[k] \in Drivers /\ sensor \in Sensors
         /\ TaskInv(drv[k], sensor, k)
  BY DEF IInv, TypeOK

-----------------------------------------------------------------------------
(* bme280_init.                                                            *)

\* A task begins with zeroed locals, whatever standby_time it finds on its stack.
LEMMA NewDriverTyped ==
  ASSUME NEW standby \in Vals
  PROVE  NewDriver(standby) \in Drivers
<1>1. [a \in Apis |-> "none"] \in [Apis -> Codes]
  BY DEF Codes
<1>2. AllReset \in Settings /\ NoBuffer \in Buffers /\ NoReading \in Readings
  BY DEF AllReset, NoBuffer, NoReading, Readings, Settings, Buffers, Vals, Modes
<1>3. [temp |-> 1, press |-> 1, hum |-> 1, filter |-> 1, standby |-> standby] \in Settings
  BY DEF Settings, Vals
<1> QED BY <1>1, <1>2, <1>3 DEF NewDriver, Drivers, Pc, Transfers, Apis, TRY_COUNT

\* A task starts only when no other is active, so the chip is its own.
LEMMA StartStep ==
  ASSUME IInv, Overlap = FALSE, NEW k \in Tasks, Start(k)
  PROVE  IInv'
<1>1. PICK standby \in Vals : drv' = [drv EXCEPT ![k] = NewDriver(standby)]
  BY DEF Start
<1> DEFINE e == NewDriver(standby)
<1>2. e \in Drivers
  BY NewDriverTyped
<1>3. TaskInv(e, sensor, k)
  BY DEF NewDriver, TaskInv, Placed, Calibrated, Sleeps, Written, Applied, SettingsPc,
         Apis
<1>4. drv \in [Tasks -> Drivers] /\ sensor' = sensor /\ \A j \in Tasks : ~Active(j)
  BY DEF IInv, TypeOK, Start
<1>5. drv'[k] = e /\ \A j \in Tasks \ {k} : drv'[j] = drv[j]
  BY <1>1, <1>4
<1>6. TypeOK' /\ OneActive'
  BY <1>1, <1>2, <1>4, <1>5 DEF IInv, TypeOK, OneActive, Active
<1>7. \A j \in Tasks : TaskInv(drv'[j], sensor', j)
  BY <1>3, <1>4, <1>5 DEF IInv
<1> QED BY <1>6, <1>7 DEF IInv

\* The chip id is read until it comes or the tries are used up.
LEMMA ReadChipIdStep ==
  ASSUME IInv, NEW k \in Tasks, ReadChipId(k)
  PROVE  IInv'
<1> DEFINE d == drv[k]
<1> USE Here
<1>1. /\ d.pc = "chip_id" /\ Active(k) /\ sensor' = sensor
      /\ \/ Step(k, [d EXCEPT !.pc = "reset"])
         \/ d.tries > 1 /\ Step(k, [d EXCEPT !.tries = @ - 1])
         \/ Step(k, Return(d, "DEV_NOT_FOUND"))
  BY DEF ReadChipId, Read, At, Active
<1>2. CASE Step(k, [d EXCEPT !.pc = "reset"])
  <2>1. [d EXCEPT !.pc = "reset"] \in Drivers
    BY DEF Drivers, Pc, Transfers
  <2>2. TaskInv([d EXCEPT !.pc = "reset"], sensor, k)
    BY <1>1 DEF TaskInv, Placed, Calibrated, Sleeps, Written, Applied, SettingsPc,
                Drivers
  <2> QED BY <1>1, <1>2, <2>1, <2>2, StepIInv
<1>3. CASE d.tries > 1 /\ Step(k, [d EXCEPT !.tries = @ - 1])
  <2>1. [d EXCEPT !.tries = @ - 1] \in Drivers
    BY <1>3 DEF Drivers, TRY_COUNT
  <2>2. TaskInv([d EXCEPT !.tries = @ - 1], sensor, k)
    BY <1>1 DEF TaskInv, Placed, Calibrated, Sleeps, Written, Applied, SettingsPc,
                Drivers
  <2> QED BY <1>1, <1>3, <2>1, <2>2, StepIInv
<1>4. CASE Step(k, Return(d, "DEV_NOT_FOUND"))
  BY <1>1, <1>4, TransferFails DEF Codes
<1> QED BY <1>1, <1>2, <1>3, <1>4

\* The two reads of the calibration data find the copy finished.
LEMMA ReadCalibStep ==
  ASSUME IInv, NEW k \in Tasks, ReadCalibTempPress(k) \/ ReadCalibHum(k)
  PROVE  IInv'
<1> DEFINE d == drv[k]
           half == [d EXCEPT !.pc = "calib_h", !.calib = "half"]
           good == [d EXCEPT !.calib = "good"]
<1> USE Here
<1>1. Active(k) /\ sensor' = sensor
  BY DEF ReadCalibTempPress, ReadCalibHum, Read, At, Active
<1>2. \/ d.pc = "calib_tp" /\ Step(k, half)
      \/ d.pc = "calib_h" /\ Step(k, Return(good, "OK"))
      \/ Step(k, Return(d, "COMM_FAIL"))
  BY DEF ReadCalibTempPress, ReadCalibHum, Read, At, TaskInv, Calibrated
<1>3. CASE d.pc = "calib_tp" /\ Step(k, half)
  <2>1. half \in Drivers
    BY DEF Drivers, Pc, Transfers
  <2>2. TaskInv(half, sensor, k)
    BY <1>3 DEF TaskInv, Placed, Calibrated, Sleeps, Written, Applied, SettingsPc,
                Drivers
  <2> QED BY <1>1, <1>3, <2>1, <2>2, StepIInv
<1>4. CASE d.pc = "calib_h" /\ Step(k, Return(good, "OK"))
  <2>1. good \in Drivers
    BY DEF Drivers
  <2>2. Return(good, "OK") \in Drivers
    BY <2>1, ReturnTyped DEF Codes
  <2>3. TaskInv(Return(good, "OK"), sensor, k)
    BY <1>4 DEF Return, TaskInv, Placed, Calibrated, Sleeps, Written, Applied,
                SettingsPc,
                Drivers, Apis, Calling
  <2> QED BY <1>1, <1>4, <2>2, <2>3, StepIInv
<1>5. CASE Step(k, Return(d, "COMM_FAIL"))
  BY <1>1, <1>5, TransferFails DEF Codes
<1> QED BY <1>2, <1>3, <1>4, <1>5

-----------------------------------------------------------------------------
(* bme280_soft_reset and put_device_to_sleep.                              *)

\* The registers keep their types whatever is written.
LEMMA WritesTyped ==
  ASSUME sensor \in Sensors, NEW k \in Tasks
  PROVE  /\ SoftReset(sensor) \subseteq Sensors
         /\ \A v \in Vals : WriteCtrlHum(sensor, v) \subseteq Sensors
         /\ \A v \in Buffers : /\ WriteCtrlMeas(sensor, k, v) \subseteq Sensors
                              /\ WriteConfig(sensor, v) \subseteq Sensors
<1>1. PoweredOn \in Sensors
  BY DEF PoweredOn, NoReading, AllReset, Sensors, Readings, Settings, Vals, Modes
<1>2. SoftReset(sensor) \subseteq Sensors
  BY <1>1 DEF SoftReset, Sensors
<1>3. ASSUME NEW v \in Vals PROVE WriteCtrlHum(sensor, v) \subseteq Sensors
  BY DEF WriteCtrlHum, Sensors, Settings
<1>4. ASSUME NEW v \in Buffers PROVE WriteCtrlMeas(sensor, k, v) \subseteq Sensors
  <2> DEFINE set == [sensor.set EXCEPT !.temp = v.temp, !.press = v.press]
             mine == IF v.mode = "forced" THEN k ELSE sensor.owner
             e == [sensor EXCEPT !.set = set, !.hum = sensor.set.hum, !.mode = v.mode,
                                 !.owner = mine]
  <2>1. set \in Settings /\ sensor.set.hum \in Vals /\ v.mode \in Modes
    BY DEF Sensors, Settings, Buffers
  <2>2. mine \in Tasks \cup {NoTask}
    BY DEF Sensors
  <2>3. e \in Sensors
    BY <2>1, <2>2 DEF Sensors
  <2>4. WriteCtrlMeas(sensor, k, v) = {e}
    BY DEF WriteCtrlMeas, Sensors, Settings
  <2> QED BY <2>3, <2>4
<1>5. ASSUME NEW v \in Buffers PROVE WriteConfig(sensor, v) \subseteq Sensors
  <2> DEFINE set == [sensor.set EXCEPT !.filter = v.filter, !.standby = v.standby]
             e == [sensor EXCEPT !.set = set]
  <2>1. set \in Settings
    BY DEF Sensors, Settings, Buffers
  <2>2. e \in Sensors
    BY <2>1 DEF Sensors
  <2>3. WriteConfig(sensor, v) \subseteq {sensor, e}
    BY DEF WriteConfig, Sensors, Settings
  <2> QED BY <2>2, <2>3
<1> QED BY <1>2, <1>3, <1>4, <1>5

\* The reset leaves the chip asleep.
LEMMA WriteResetStep ==
  ASSUME IInv, NEW k \in Tasks, WriteReset(k)
  PROVE  IInv'
<1> DEFINE d == drv[k]
           e == [d EXCEPT !.pc = "status", !.tries = TRY_RUN, !.im_update = FALSE]
<1> USE Here
<1>1. d.pc = "reset" /\ Active(k) /\ sensor' \in Sensors
  BY WritesTyped DEF WriteReset, Write, At, Active
<1>2. \/ Step(k, e) /\ sensor' \in SoftReset(sensor)
      \/ Step(k, Return(d, "COMM_FAIL"))
  BY FailureReturns DEF WriteReset, Write, Codes
<1>3. CASE Step(k, e) /\ sensor' \in SoftReset(sensor)
  <2>1. e \in Drivers
    <3>1. TRY_RUN \in 0 .. TRY_COUNT /\ "status" \in Pc
      BY DEF TRY_RUN, TRY_COUNT, Pc, Transfers
    <3> QED BY <3>1 DEF Drivers
  <2>2. sensor'.mode = "sleep"
    BY <1>3 DEF SoftReset, PoweredOn
  <2>3. TaskInv(e, sensor', k)
    BY <1>1, <2>2 DEF TaskInv, Placed, Calibrated, Sleeps, Written, Applied, SettingsPc,
                      Drivers, Calling
  <2> QED BY <1>1, <1>3, <2>1, <2>3, StepIInv
<1>4. CASE Step(k, Return(d, "COMM_FAIL"))
  BY <1>1, <1>4, TransferFails DEF Codes
<1> QED BY <1>2, <1>3, <1>4

\* The status loop goes on to the calibration data, or to the settings, only
\* when it has seen the copy finished.
LEMMA ReadStatusStep ==
  ASSUME IInv, NEW k \in Tasks, ReadStatus(k)
  PROVE  IInv'
<1> DEFINE d == drv[k]
           seen == [d EXCEPT !.im_update = sensor.nvm]
           again == [seen EXCEPT !.tries = @ - 1]
           read == [seen EXCEPT !.pc = "calib_tp"]
           reload == [seen EXCEPT !.pc = "osr"]
<1> USE Here
<1>1. d.pc = "status" /\ Active(k) /\ sensor' = sensor
  BY DEF ReadStatus, Read, At, Active
<1>2. seen \in Drivers /\ seen.im_update = sensor.nvm /\ seen.api = d.api
      /\ seen.tries = d.tries
  BY DEF Drivers, Sensors
<1>3. \A r \in Codes \ {"OK"} :
         ResetDone(seen, r) = Return(d, r) /\ ResetDone(d, r) = Return(d, r)
  <2>1. ASSUME NEW r \in Codes \ {"OK"} PROVE Return(seen, r) = Return(d, r)
    BY DEF Return, Drivers
  <2> QED BY <1>2, <2>1, FailureReturns
<1>4. \/ seen.tries > 0 /\ Step(k, again)
      \/ ~sensor.nvm /\ d.api = "init" /\ Step(k, read)
      \/ ~sensor.nvm /\ d.api # "init" /\ Step(k, reload)
      \/ \E r \in Codes \ {"OK"} : Step(k, Return(d, r))
  <2>1. ResetDone(seen, "OK") = IF d.api = "init" THEN read ELSE reload
    BY <1>2 DEF ResetDone
  <2>2. CASE ~sensor.nvm
    BY <1>2, <1>3, <2>1, <2>2 DEF ReadStatus, Read, Codes
  <2>3. CASE sensor.nvm
    BY <1>2, <1>3, <2>3 DEF ReadStatus, Read, Codes
  <2> QED BY <2>2, <2>3
<1>5. CASE seen.tries > 0 /\ Step(k, again)
  <2>1. again \in Drivers
    <3>1. seen.tries - 1 \in 0 .. TRY_COUNT
      BY <1>2, <1>5 DEF Drivers, TRY_COUNT
    <3> HIDE DEF seen
    <3> QED BY <1>2, <3>1 DEF Drivers
  <2>2. TaskInv(again, sensor, k)
    BY <1>1 DEF TaskInv, Placed, Calibrated, Sleeps, Written, Applied, SettingsPc,
                Drivers
  <2> QED BY <1>1, <1>5, <2>1, <2>2, StepIInv
<1>6. CASE ~sensor.nvm /\ d.api = "init" /\ Step(k, read)
  <2>1. read \in Drivers
    BY <1>2 DEF Drivers, Pc, Transfers
  <2>2. TaskInv(read, sensor, k)
    BY <1>1, <1>6 DEF TaskInv, Placed, Calibrated, Sleeps, Written, Applied, SettingsPc,
                      Drivers, Calling
  <2> QED BY <1>1, <1>6, <2>1, <2>2, StepIInv
<1>7. CASE d.api # "init" /\ Step(k, reload)
  <2>1. reload \in Drivers
    BY <1>2 DEF Drivers, Pc, Transfers
  <2>2. TaskInv(reload, sensor, k)
    BY <1>1, <1>7 DEF TaskInv, Placed, Calibrated, Sleeps, Written, Applied, SettingsPc,
                      Drivers, Calling
  <2> QED BY <1>1, <1>7, <2>1, <2>2, StepIInv
<1>8. CASE \E r \in Codes \ {"OK"} : Step(k, Return(d, r))
  BY <1>1, <1>8, TransferFails
<1> QED BY <1>4, <1>5, <1>6, <1>7, <1>8

\* A chip that is awake is put to sleep before anything is written.
LEMMA GetSensorModeStep ==
  ASSUME IInv, NEW k \in Tasks, GetSensorMode(k)
  PROVE  IInv'
<1> DEFINE d == drv[k]
           busy == [d EXCEPT !.pc = "save", !.sleeping = TRUE]
           free == [d EXCEPT !.sleeping = FALSE,
                             !.pc = IF d.api = "settings" THEN "osr" ELSE "pw_read"]
<1> USE Here
<1>1. d.pc = "get_mode" /\ Active(k) /\ sensor' = sensor
  BY DEF GetSensorMode, Read, At, Active
<1>2. \/ sensor.mode # "sleep" /\ Step(k, busy)
      \/ sensor.mode = "sleep" /\ Step(k, free)
      \/ Step(k, Return(d, "COMM_FAIL"))
  BY DEF GetSensorMode, Read, Asleep
<1>3. CASE Step(k, busy)
  <2>1. busy \in Drivers
    BY DEF Drivers, Pc, Transfers
  <2>2. TaskInv(busy, sensor, k)
    BY <1>1 DEF TaskInv, Placed, Calibrated, Sleeps, Written, Applied, SettingsPc,
                Drivers
  <2> QED BY <1>1, <1>3, <2>1, <2>2, StepIInv
<1>4. CASE sensor.mode = "sleep" /\ Step(k, free)
  <2>1. free \in Drivers
    BY DEF Drivers, Pc, Transfers
  <2>2. TaskInv(free, sensor, k)
    BY <1>1, <1>4 DEF TaskInv, Placed, Calibrated, Sleeps, Written, Applied, SettingsPc,
                      Drivers, Calling
  <2> QED BY <1>1, <1>4, <2>1, <2>2, StepIInv
<1>5. CASE Step(k, Return(d, "COMM_FAIL"))
  BY <1>1, <1>5, TransferFails DEF Codes
<1> QED BY <1>2, <1>3, <1>4, <1>5

\* What is saved is what the chip has, and so what a settings call has applied.
LEMMA ReadSettingsStep ==
  ASSUME IInv, NEW k \in Tasks, ReadSettings(k)
  PROVE  IInv'
<1> DEFINE d == drv[k]
           e == [d EXCEPT !.pc = "reset", !.saved = sensor.set]
<1> USE Here
<1>1. d.pc = "save" /\ Active(k) /\ sensor' = sensor
  BY DEF ReadSettings, Read, At, Active
<1>2. CASE Step(k, e)
  <2>1. e \in Drivers
    BY DEF Drivers, Pc, Transfers, Sensors
  <2>2. TaskInv(e, sensor, k)
    BY <1>1 DEF TaskInv, Placed, Calibrated, Sleeps, Written, Applied, SettingsPc,
                Drivers,
                Agree
  <2> QED BY <1>1, <1>2, <2>1, <2>2, StepIInv
<1>3. CASE Step(k, Return(d, "COMM_FAIL"))
  BY <1>1, <1>3, TransferFails DEF Codes
<1> QED BY <1>2, <1>3 DEF ReadSettings, Read

-----------------------------------------------------------------------------
(* set_osr_settings and set_filter_standby_settings.                       *)

\* Reads of ctrl_meas and of config give legal values to write back.
LEMMA BuffersTyped ==
  ASSUME sensor \in Sensors, NEW d \in Drivers
  PROVE  /\ Given(d) \in Settings
         /\ WithMeas(d) \in Drivers /\ WithMeas(d).buf \in Buffers
         /\ WithMeas(d).buf.temp = sensor.set.temp
         /\ WithMeas(d).buf.press = sensor.set.press
         /\ WithMeas(d).buf.mode = sensor.mode
         /\ WithConfig(d) \in Drivers /\ WithConfig(d).buf \in Buffers
<1>1. /\ d.buf \in Buffers /\ sensor.set \in Settings /\ sensor.mode \in Modes
      /\ d.saved \in Settings /\ d.want \in Settings
  BY DEF Drivers, Sensors
<1>2. /\ [d.buf EXCEPT !.temp = sensor.set.temp, !.press = sensor.set.press,
                       !.mode = sensor.mode] \in Buffers
      /\ [d.buf EXCEPT !.filter = sensor.set.filter,
                       !.standby = sensor.set.standby] \in Buffers
  BY <1>1 DEF Buffers, Settings
<1>3. LET m == [d.buf EXCEPT !.temp = sensor.set.temp, !.press = sensor.set.press,
                             !.mode = sensor.mode]
      IN  m.temp = sensor.set.temp /\ m.press = sensor.set.press /\ m.mode = sensor.mode
  BY <1>1 DEF Buffers
<1>4. Given(d) \in Settings
  BY <1>1 DEF Given
<1> QED BY <1>2, <1>3, <1>4 DEF WithMeas, WithConfig, Drivers

\* The humidity is written without a look at what becomes of it; all these
\* steps need of the chip is that it sleeps.
LEMMA HumidityStep ==
  ASSUME IInv, NEW k \in Tasks,
         SetOsr(k) \/ WriteHum(k) \/ ReadMeasForHum(k) \/ RewriteMeasForHum(k)
  PROVE  IInv'
<1> DEFINE d == drv[k]
           at(pc) == [d EXCEPT !.pc = pc]
           read == [WithMeas(d) EXCEPT !.pc = "hum_rewrite"]
<1> USE Here
<1>1. /\ d.pc \in {"osr", "hum_write", "hum_read", "hum_rewrite"} /\ Active(k)
      /\ sensor.mode = "sleep"
  BY DEF SetOsr, WriteHum, ReadMeasForHum, RewriteMeasForHum, Read, Write, At, Active,
         TaskInv, Sleeps, SettingsPc
<1>2. ASSUME NEW pc \in {"hum_write", "hum_read", "pt_read"}, Step(k, at(pc)),
             sensor' \in Sensors, sensor'.mode = "sleep"
      PROVE  IInv'
  <2>1. at(pc) \in Drivers
    BY DEF Drivers, Pc, Transfers
  <2>2. TaskInv(at(pc), sensor', k)
    BY <1>1, <1>2 DEF TaskInv, Placed, Calibrated, Sleeps, Written, Applied,
                      SettingsPc, Drivers, Agree
  <2> QED BY <1>1, <1>2, <2>1, <2>2, StepIInv
<1>3. CASE SetOsr(k)
  <2>1. Step(k, at("hum_write")) /\ sensor' = sensor
    BY <1>3 DEF SetOsr, Step
  <2> QED BY <1>1, <1>2, <2>1
<1>4. CASE WriteHum(k)
  <2>1. Given(d).hum \in Vals
    BY BuffersTyped DEF Settings
  <2>2. sensor' = sensor \/ sensor' = [sensor EXCEPT !.set.hum = Given(d).hum]
    BY <1>4 DEF WriteHum, Write, WriteCtrlHum
  <2>3. /\ sensor' \in Sensors /\ sensor'.mode = "sleep"
    BY <1>1, <2>1, <2>2 DEF Sensors, Settings
  <2>4. Step(k, at("hum_read")) \/ Step(k, at("pt_read"))
    BY <1>4 DEF WriteHum, Write, HumDone
  <2> QED BY <1>2, <2>3, <2>4
<1>5. CASE ReadMeasForHum(k)
  <2>1. sensor' = sensor /\ (Step(k, read) \/ Step(k, at("pt_read")))
    BY <1>5 DEF ReadMeasForHum, Read, HumDone
  <2>2. CASE Step(k, read)
    <3>1. WithMeas(d) \in Drivers /\ WithMeas(d).buf.mode = sensor.mode
      BY BuffersTyped
    <3>2. read \in Drivers
      BY <3>1 DEF Drivers, Pc, Transfers
    <3>3. TaskInv(read, sensor, k)
      BY <1>1, <3>1 DEF WithMeas, TaskInv, Placed, Calibrated, Sleeps, Written,
                        Applied, SettingsPc, Drivers
    <3> QED BY <1>1, <2>1, <2>2, <3>2, <3>3, StepIInv
  <2> QED BY <1>1, <1>2, <2>1, <2>2
<1>6. CASE RewriteMeasForHum(k)
  <2>1. /\ d.pc = "hum_rewrite" /\ Step(k, at("pt_read"))
        /\ sensor' \in WriteCtrlMeas(sensor, k, d.buf) \cup {sensor}
    BY <1>6 DEF RewriteMeasForHum, Write, HumDone, At
  <2>2. d.buf.mode = "sleep" /\ d.buf \in Buffers
    BY <2>1 DEF TaskInv, Sleeps, Drivers
  <2>3. sensor' \in Sensors /\ sensor'.mode = "sleep"
    BY <1>1, <2>1, <2>2, WritesTyped DEF WriteCtrlMeas, Sensors
  <2> QED BY <1>2, <2>1, <2>3
<1> QED BY <1>3, <1>4, <1>5, <1>6

\* Temperature and pressure oversampling go into the ctrl_meas that was read.
LEMMA ReadMeasForOsrStep ==
  ASSUME IInv, NEW k \in Tasks, ReadMeasForOsr(k)
  PROVE  IInv'
<1> DEFINE d == drv[k]
           m == WithMeas(d)
           e == [m EXCEPT !.pc = "pt_write", !.buf.temp = Given(d).temp,
                          !.buf.press = Given(d).press]
<1> USE Here
<1>1. d.pc = "pt_read" /\ Active(k) /\ sensor' = sensor
      /\ (Step(k, e) \/ Step(k, Return(d, "COMM_FAIL")))
  BY FailureReturns DEF ReadMeasForOsr, Read, At, Active, Codes
<1>2. CASE Step(k, e)
  <2>1. /\ m \in Drivers /\ m.buf \in Buffers /\ m.buf.mode = sensor.mode
        /\ Given(d).temp \in Vals /\ Given(d).press \in Vals
    BY BuffersTyped DEF Settings
  <2>2. m = [d EXCEPT !.buf = m.buf]
    BY <2>1 DEF WithMeas, Drivers
  <2> DEFINE b == [m.buf EXCEPT !.temp = Given(d).temp, !.press = Given(d).press]
  <2>3. b \in Buffers /\ b.mode = sensor.mode
        /\ b.temp = Given(d).temp /\ b.press = Given(d).press
    BY <2>1 DEF Buffers
  <2>4. e = [d EXCEPT !.pc = "pt_write", !.buf = b]
    <3> HIDE DEF m
    <3> QED BY <2>1, <2>2 DEF Drivers
  <2> HIDE DEF b, e
  <2>5. e \in Drivers
    BY <2>3, <2>4 DEF Drivers, Pc, Transfers
  <2>6. Given(e) = Given(d)
    BY <2>4 DEF Given, Drivers
  <2>7. TaskInv(e, sensor, k)
    BY <1>1, <2>3, <2>4, <2>6 DEF TaskInv, Placed, Calibrated, Sleeps, Written,
                                  Applied, SettingsPc, Drivers
  <2> QED BY <1>1, <1>2, <2>5, <2>7, StepIInv
<1>3. CASE Step(k, Return(d, "COMM_FAIL"))
  BY <1>1, <1>3, TransferFails DEF Codes
<1> QED BY <1>1, <1>2, <1>3

\* What a write of ctrl_meas leaves behind.
LEMMA MeasWritten ==
  ASSUME sensor \in Sensors, NEW k, NEW v \in Buffers,
         sensor' \in WriteCtrlMeas(sensor, k, v)
  PROVE  /\ sensor'.mode = v.mode
         /\ sensor'.set.temp = v.temp /\ sensor'.set.press = v.press
         /\ sensor'.set.filter = sensor.set.filter
         /\ sensor'.set.standby = sensor.set.standby
         /\ v.mode = "forced" => sensor'.owner = k
<1> DEFINE set == [sensor.set EXCEPT !.temp = v.temp, !.press = v.press]
<1>1. sensor.set \in Settings
  BY DEF Sensors
<1>2. /\ set.temp = v.temp /\ set.press = v.press
      /\ set.filter = sensor.set.filter /\ set.standby = sensor.set.standby
  BY <1>1 DEF Settings
<1>3. sensor' = [sensor EXCEPT !.set = set, !.hum = sensor.set.hum, !.mode = v.mode,
                               !.owner = IF v.mode = "forced" THEN k ELSE sensor.owner]
  BY DEF WriteCtrlMeas, Sensors
<1> QED BY <1>2, <1>3 DEF Sensors

\* They are in the chip before config is read.
LEMMA WriteMeasForOsrStep ==
  ASSUME IInv, NEW k \in Tasks, WriteMeasForOsr(k)
  PROVE  IInv'
<1> DEFINE d == drv[k]
           e == [d EXCEPT !.pc = "cfg_read"]
<1> USE Here
<1>1. d.pc = "pt_write" /\ Active(k) /\ d.buf \in Buffers /\ d.buf.mode = "sleep"
      /\ d.buf.temp = Given(d).temp /\ d.buf.press = Given(d).press
  BY DEF WriteMeasForOsr, Write, At, Active, Drivers, TaskInv, Sleeps, Written
<1>2. \/ sensor' \in WriteCtrlMeas(sensor, k, d.buf) /\ Step(k, e)
      \/ /\ sensor' \in WriteCtrlMeas(sensor, k, d.buf) \cup {sensor}
         /\ Step(k, Return(d, "COMM_FAIL"))
  BY FailureReturns DEF WriteMeasForOsr, Write, Codes, OsrDone
<1>3. sensor' \in Sensors
  BY <1>1, <1>2, WritesTyped
<1>4. CASE sensor' \in WriteCtrlMeas(sensor, k, d.buf) /\ Step(k, e)
  <2>1. /\ sensor'.mode = "sleep" /\ sensor'.set.temp = Given(d).temp
        /\ sensor'.set.press = Given(d).press
    BY <1>1, <1>4, MeasWritten
  <2>2. e \in Drivers
    BY DEF Drivers, Pc, Transfers
  <2>3. TaskInv(e, sensor', k)
    BY <1>1, <2>1 DEF Given, TaskInv, Placed, Calibrated, Sleeps, Written, Applied,
                      SettingsPc, Drivers
  <2> QED BY <1>1, <1>3, <1>4, <2>2, <2>3, StepIInv
<1>5. CASE Step(k, Return(d, "COMM_FAIL"))
  BY <1>1, <1>3, <1>5, TransferFails DEF Codes
<1> QED BY <1>2, <1>4, <1>5

\* Filter and standby time go into the config that was read.
LEMMA ReadConfigStep ==
  ASSUME IInv, NEW k \in Tasks, ReadConfig(k)
  PROVE  IInv'
<1> DEFINE d == drv[k]
           m == WithConfig(d)
           e == [m EXCEPT !.pc = "cfg_write", !.buf.filter = Given(d).filter,
                          !.buf.standby = Given(d).standby]
<1> USE Here
<1>1. d.pc = "cfg_read" /\ Active(k) /\ sensor' = sensor
      /\ (Step(k, e) \/ Step(k, Return(d, "COMM_FAIL")))
  BY FailureReturns DEF ReadConfig, Read, At, Active, Codes
<1>2. CASE Step(k, e)
  <2>1. /\ m \in Drivers /\ m.buf \in Buffers
        /\ Given(d).filter \in Vals /\ Given(d).standby \in Vals
    BY BuffersTyped DEF Settings
  <2>2. m = [d EXCEPT !.buf = m.buf]
    BY <2>1 DEF WithConfig, Drivers
  <2> DEFINE b == [m.buf EXCEPT !.filter = Given(d).filter, !.standby = Given(d).standby]
  <2>3. b \in Buffers /\ b.filter = Given(d).filter /\ b.standby = Given(d).standby
    BY <2>1 DEF Buffers
  <2>4. e = [d EXCEPT !.pc = "cfg_write", !.buf = b]
    <3> HIDE DEF m
    <3> QED BY <2>1, <2>2 DEF Drivers
  <2> HIDE DEF b, e
  <2>5. e \in Drivers
    BY <2>3, <2>4 DEF Drivers, Pc, Transfers
  <2>6. Given(e) = Given(d)
    BY <2>4 DEF Given, Drivers
  <2>7. TaskInv(e, sensor, k)
    BY <1>1, <2>3, <2>4, <2>6 DEF TaskInv, Placed, Calibrated, Sleeps, Written,
                                  Applied, SettingsPc, Drivers
  <2> QED BY <1>1, <1>2, <2>5, <2>7, StepIInv
<1>3. CASE Step(k, Return(d, "COMM_FAIL"))
  BY <1>1, <1>3, TransferFails DEF Codes
<1> QED BY <1>1, <1>2, <1>3

\* What a write of config that succeeds leaves behind: the settings given.
LEMMA ConfigWritten ==
  ASSUME IInv, NEW k \in Tasks, At(k, "cfg_write"),
         sensor' \in WriteConfig(sensor, drv[k].buf)
  PROVE  sensor'.mode = "sleep" /\ Agree(sensor'.set, Given(drv[k]))
<1> DEFINE d == drv[k]
<1>1. /\ sensor.mode = "sleep" /\ sensor \in Sensors
      /\ d.buf.filter = Given(d).filter /\ d.buf.standby = Given(d).standby
      /\ sensor.set.temp = Given(d).temp /\ sensor.set.press = Given(d).press
  BY Here DEF At, TaskInv, Sleeps, Written, SettingsPc
<1>2. sensor' = [sensor EXCEPT !.set.filter = d.buf.filter, !.set.standby = d.buf.standby]
  BY <1>1 DEF WriteConfig
<1> QED BY <1>1, <1>2 DEF Agree, Sensors, Settings

\* With config all settings given are in the chip: those wanted when a settings
\* call returns, those saved when put_device_to_sleep does.
LEMMA WriteConfigRegStep ==
  ASSUME IInv, NEW k \in Tasks, WriteConfigReg(k)
  PROVE  IInv'
<1> DEFINE d == drv[k]
           e == [d EXCEPT !.sleeping = FALSE,
                          !.pc = IF d.api = "settings" THEN "osr" ELSE "pw_read"]
<1> USE Here
<1>1. /\ d.pc = "cfg_write" /\ At(k, "cfg_write") /\ Active(k) /\ d.buf \in Buffers
      /\ d.api = "settings" \/ (d.api = "mode" /\ d.sleeping)
  BY DEF WriteConfigReg, Write, At, Active, Drivers, TaskInv, Placed, SettingsPc
<1>2. \/ sensor' \in WriteConfig(sensor, d.buf) /\ d.sleeping /\ Step(k, e)
      \/ sensor' \in WriteConfig(sensor, d.buf) /\ ~d.sleeping /\ Step(k, Return(d, "OK"))
      \/ /\ sensor' \in WriteConfig(sensor, d.buf) \cup {sensor}
         /\ Step(k, Return(d, "COMM_FAIL"))
  BY FailureReturns DEF WriteConfigReg, Write, Codes, SettingsDone, Asleep
<1>3. sensor' \in Sensors
  BY <1>1, <1>2, WritesTyped
<1>4. CASE sensor' \in WriteConfig(sensor, d.buf) /\ d.sleeping /\ Step(k, e)
  <2>1. sensor'.mode = "sleep" /\ Agree(sensor'.set, d.saved)
    BY <1>1, <1>4, ConfigWritten DEF Given
  <2>2. e \in Drivers
    BY DEF Drivers, Pc, Transfers
  <2>3. TaskInv(e, sensor', k)
    BY <1>1, <1>4, <2>1 DEF Agree, TaskInv, Placed, Calibrated, Sleeps, Written,
                            Applied, SettingsPc, Drivers, Calling
  <2> QED BY <1>1, <1>3, <1>4, <2>2, <2>3, StepIInv
<1>5. CASE sensor' \in WriteConfig(sensor, d.buf) /\ ~d.sleeping /\ Step(k, Return(d, "OK"))
  <2>1. sensor'.mode = "sleep" /\ Agree(sensor'.set, d.want) /\ d.api = "settings"
    BY <1>1, <1>5, ConfigWritten DEF Given
  <2>2. Return(d, "OK") \in Drivers
    BY ReturnTyped DEF Codes
  <2>3. TaskInv(Return(d, "OK"), sensor', k)
    BY <1>1, <2>1 DEF Return, TaskInv, Placed, Calibrated, Sleeps, Written, Applied,
                      SettingsPc, Drivers, Apis, Calling
  <2> QED BY <1>1, <1>3, <1>5, <2>2, <2>3, StepIInv
<1>6. CASE Step(k, Return(d, "COMM_FAIL"))
  BY <1>1, <1>3, <1>6, TransferFails DEF Codes
<1> QED BY <1>2, <1>4, <1>5, <1>6

-----------------------------------------------------------------------------
(* write_power_mode, the delay and bme280_get_sensor_data.                 *)

\* write_power_mode changes the mode of the ctrl_meas that was read, only.
LEMMA ReadPowerModeStep ==
  ASSUME IInv, NEW k \in Tasks, ReadPowerMode(k)
  PROVE  IInv'
<1> DEFINE d == drv[k]
           m == WithMeas(d)
           e == [m EXCEPT !.pc = "pw_write", !.buf.mode = "forced"]
<1> USE Here
<1>1. d.pc = "pw_read" /\ Active(k) /\ sensor' = sensor
      /\ (Step(k, e) \/ Step(k, Return(d, "COMM_FAIL")))
  BY DEF ReadPowerMode, Read, At, Active
<1>2. CASE Step(k, e)
  <2>1. /\ m \in Drivers /\ m.buf \in Buffers
        /\ m.buf.temp = sensor.set.temp /\ m.buf.press = sensor.set.press
    BY BuffersTyped
  <2>2. m = [d EXCEPT !.buf = m.buf]
    BY <2>1 DEF WithMeas, Drivers
  <2> DEFINE b == [m.buf EXCEPT !.mode = "forced"]
  <2>3. b \in Buffers /\ b.mode = "forced"
        /\ b.temp = sensor.set.temp /\ b.press = sensor.set.press
    BY <2>1 DEF Buffers, Modes
  <2>4. e = [d EXCEPT !.pc = "pw_write", !.buf = b]
    <3> HIDE DEF m
    <3> QED BY <2>1, <2>2 DEF Drivers
  <2> HIDE DEF b, e
  <2>5. e \in Drivers
    BY <2>3, <2>4 DEF Drivers, Pc, Transfers
  <2>6. TaskInv(e, sensor, k)
    BY <1>1, <2>3, <2>4 DEF TaskInv, Placed, Calibrated, Sleeps, Written, Applied,
                            SettingsPc, Drivers
  <2> QED BY <1>1, <1>2, <2>5, <2>6, StepIInv
<1>3. CASE Step(k, Return(d, "COMM_FAIL"))
  BY <1>1, <1>3, TransferFails DEF Codes
<1> QED BY <1>1, <1>2, <1>3

\* The conversion is the task's own, under the settings in the chip.
LEMMA WritePowerModeStep ==
  ASSUME IInv, NEW k \in Tasks, WritePowerMode(k)
  PROVE  IInv'
<1> DEFINE d == drv[k]
<1> USE Here
<1>1. /\ d.pc = "pw_write" /\ Active(k) /\ d.buf \in Buffers /\ d.api = "mode"
      /\ d.buf.temp = sensor.set.temp /\ d.buf.press = sensor.set.press
      /\ d.buf.mode = "forced" /\ ~d.sleeping
      /\ d.rslt["settings"] = "OK" => Agree(sensor.set, d.want)
  BY DEF WritePowerMode, Write, At, Active, Drivers, TaskInv, Placed, Applied
<1>2. \/ sensor' \in WriteCtrlMeas(sensor, k, d.buf) /\ Step(k, Return(d, "OK"))
      \/ /\ sensor' \in WriteCtrlMeas(sensor, k, d.buf) \cup {sensor}
         /\ Step(k, Return(d, "COMM_FAIL"))
  BY DEF WritePowerMode, Write
<1>3. sensor' \in Sensors
  BY <1>1, <1>2, WritesTyped
<1>4. CASE sensor' \in WriteCtrlMeas(sensor, k, d.buf) /\ Step(k, Return(d, "OK"))
  <2>1. /\ sensor'.mode = "forced" /\ sensor'.owner = k
        /\ d.rslt["settings"] = "OK" => Agree(sensor'.set, d.want)
    BY <1>1, <1>4, MeasWritten DEF Agree
  <2>2. Return(d, "OK") \in Drivers
    BY ReturnTyped DEF Codes
  <2>3. TaskInv(Return(d, "OK"), sensor', k)
    BY <1>1, <2>1 DEF Return, TaskInv, Placed, Calibrated, Sleeps, Written, Applied,
                      SettingsPc, Drivers, Apis, Calling
  <2> QED BY <1>1, <1>3, <1>4, <2>2, <2>3, StepIInv
<1>5. CASE Step(k, Return(d, "COMM_FAIL"))
  BY <1>1, <1>3, <1>5, TransferFails DEF Codes
<1> QED BY <1>2, <1>4, <1>5

\* The delay ends when that conversion has.
LEMMA WaitStep ==
  ASSUME IInv, NEW k \in Tasks, Wait(k)
  PROVE  IInv'
<1> DEFINE d == drv[k]
           e == [d EXCEPT !.pc = "data"]
<1> USE Here
<1>1. /\ d.pc = "wait" /\ Active(k) /\ sensor' = sensor /\ Step(k, e)
      /\ ~(sensor.mode = "forced" /\ sensor.owner = k)
  BY DEF Wait, At, Active, Step
<1>2. e \in Drivers
  BY DEF Drivers, Pc, Transfers
<1>3. TaskInv(e, sensor, k)
  BY <1>1 DEF Ready, TaskInv, Placed, Calibrated, Sleeps, Written, Applied, SettingsPc,
              Drivers
<1> QED BY <1>1, <1>2, <1>3, StepIInv

\* The data registers hold that conversion.
LEMMA GetSensorDataStep ==
  ASSUME IInv, NEW k \in Tasks, GetSensorData(k)
  PROVE  IInv'
<1> DEFINE d == drv[k]
           e == [d EXCEPT !.reading = sensor.data]
<1> USE Here
<1>1. /\ d.pc = "data" /\ d.api = "data" /\ Active(k) /\ sensor' = sensor
      /\ Step(k, Return(e, "OK")) \/ Step(k, Return(d, "COMM_FAIL"))
  BY DEF GetSensorData, Read, At, Active, TaskInv, Placed
<1>2. CASE Step(k, Return(e, "OK"))
  <2>1. e \in Drivers
    BY DEF Drivers, Sensors
  <2>2. Return(e, "OK") \in Drivers
    BY <2>1, ReturnTyped DEF Codes
  <2>3. TaskInv(Return(e, "OK"), sensor, k)
    BY <1>1 DEF Return, Ready, TaskInv, Placed, Calibrated, Sleeps, Written, Applied,
                SettingsPc, Drivers, Apis, Calling
  <2> QED BY <1>1, <1>2, <2>2, <2>3, StepIInv
<1>3. CASE Step(k, Return(d, "COMM_FAIL"))
  BY <1>1, <1>3, TransferFails DEF Codes
<1> QED BY <1>1, <1>2, <1>3

-----------------------------------------------------------------------------
(* The chip.                                                               *)

\* A copy or a conversion that ends disturbs no task.
LEMMA ChipStep ==
  ASSUME IInv, NvmCopied \/ ConversionEnds
  PROVE  IInv'
<1>1. drv' = drv /\ sensor \in Sensors
  BY DEF IInv, TypeOK, NvmCopied, ConversionEnds
<1>2. OneActive'
  BY <1>1 DEF IInv, OneActive, Active
<1>3. CASE NvmCopied
  <2>1. sensor' = [sensor EXCEPT !.nvm = FALSE]
    BY <1>3 DEF NvmCopied
  <2>2. sensor' \in Sensors
    BY <1>1, <2>1 DEF Sensors
  <2>3. ASSUME NEW k \in Tasks PROVE TaskInv(drv[k], sensor', k)
    BY <1>1, <2>1, Here DEF Ready, TaskInv, Placed, Calibrated, Sleeps, Written,
                            Applied, SettingsPc, Sensors
  <2> QED BY <1>1, <1>2, <2>2, <2>3 DEF IInv, TypeOK
<1>4. CASE ConversionEnds
  <2> DEFINE under == [sensor.set EXCEPT !.hum = sensor.hum]
             data == [by |-> sensor.owner, under |-> under]
  <2>1. sensor.mode = "forced" /\ sensor' = [sensor EXCEPT !.mode = "sleep", !.data = data]
    BY <1>4 DEF ConversionEnds, Converted
  <2>2. under \in Settings /\ \A w : Agree(sensor.set, w) => Agree(under, w)
    BY <1>1 DEF Sensors, Settings, Agree
  <2>3. data \in Readings
    BY <1>1, <2>2 DEF Sensors, Readings
  <2>4. /\ sensor' \in Sensors /\ sensor'.mode = "sleep" /\ sensor'.set = sensor.set
        /\ sensor'.data = data /\ sensor'.nvm = sensor.nvm
    <3> HIDE DEF data
    <3> QED BY <1>1, <2>1, <2>3 DEF Sensors, Modes
  <2>5. ASSUME NEW k \in Tasks PROVE TaskInv(drv[k], sensor', k)
    BY <1>1, <2>1, <2>2, <2>4, Here DEF Ready, TaskInv, Placed, Calibrated, Sleeps,
                                        Written, Applied, SettingsPc
  <2> QED BY <1>1, <1>2, <2>4, <2>5 DEF IInv, TypeOK
<1> QED BY <1>3, <1>4

-----------------------------------------------------------------------------
(* The end of put_device_to_sleep.                                         *)

\* An API call that returns goes on to the mode check, the delay or the end.
LEMMA ReturnPc ==
  ASSUME NEW d \in Drivers, NEW r
  PROVE  Return(d, r).pc \in {"get_mode", "wait", "done"}
  BY DEF Return, Drivers, Apis

\* put_device_to_sleep succeeds with a write of config that has succeeded.
LEMMA SleepEnds ==
  ASSUME IInv, NEW k \in Tasks, Start(k) \/ Driver(k), drv[k].sleeping,
         ~drv'[k].sleeping, drv'[k].pc \in {"pw_read", "osr"}
  PROVE  At(k, "cfg_write") /\ sensor' \in WriteConfig(sensor, drv[k].buf)
<1> DEFINE d == drv[k]
<1>1. d \in Drivers /\ d.pc \notin {"idle", "chip_id", "calib_tp", "calib_h", "get_mode",
                                "pw_read", "pw_write", "wait", "data", "done"}
  BY Here DEF TaskInv, Placed
<1>2. drv \in [Tasks -> Drivers] /\ \A e : Step(k, e) => drv'[k] = e
  BY DEF IInv, TypeOK, Step
<1>3. \A r \in Codes \ {"OK"} : ~Step(k, Return(d, r))
  BY <1>1, <1>2, ReturnPc
<1>4. ~Start(k) /\ ~ReadChipId(k) /\ ~ReadCalibTempPress(k) /\ ~ReadCalibHum(k)
      /\ ~GetSensorMode(k) /\ ~ReadPowerMode(k) /\ ~WritePowerMode(k) /\ ~Wait(k)
      /\ ~GetSensorData(k)
  BY <1>1 DEF Start, ReadChipId, ReadCalibTempPress, ReadCalibHum, GetSensorMode,
              ReadPowerMode, WritePowerMode, Wait, GetSensorData, Read, Write, At
<1>5. ~WriteReset(k) /\ ~ReadSettings(k)
  <2> DEFINE reset == [d EXCEPT !.pc = "status", !.tries = TRY_RUN, !.im_update = FALSE]
             saved == [d EXCEPT !.pc = "reset", !.saved = sensor.set]
  <2>1. /\ WriteReset(k) => Step(k, reset) \/ Step(k, Return(d, "COMM_FAIL"))
        /\ ReadSettings(k) => Step(k, saved) \/ Step(k, Return(d, "COMM_FAIL"))
    BY <1>1, FailureReturns DEF WriteReset, ReadSettings, Read, Write, Codes
  <2>2. reset.sleeping /\ saved.sleeping
    BY <1>1 DEF Drivers
  <2> QED BY <1>2, <1>3, <2>1, <2>2 DEF Codes
<1>6. ~ReadStatus(k)
  <2> DEFINE seen == [d EXCEPT !.im_update = sensor.nvm]
  <2>1. seen \in Drivers /\ seen.sleeping
    BY <1>1, Here DEF Drivers, Sensors
  <2>2. \A r \in Codes \ {"OK"} : /\ ~Step(k, ResetDone(seen, r))
                                 /\ ~Step(k, ResetDone(d, r))
    BY <1>1, <1>2, <2>1, FailureReturns, ReturnPc
  <2>3. ResetDone(seen, "OK").sleeping
    <3>1. d.api # "init"
      BY <1>1, Here DEF TaskInv, Placed, ReadStatus, Read, At, SettingsPc, Calling, Pc,
                        Transfers, Drivers
    <3> QED BY <2>1, <3>1 DEF ResetDone, Drivers
  <2>4. [seen EXCEPT !.tries = @ - 1].sleeping
    BY <2>1 DEF Drivers
  <2> QED BY <1>2, <2>2, <2>3, <2>4 DEF ReadStatus, Read, Codes
<1>7. ~SetOsr(k) /\ ~WriteHum(k) /\ ~ReadMeasForHum(k) /\ ~RewriteMeasForHum(k)
  BY <1>1, <1>2 DEF SetOsr, WriteHum, ReadMeasForHum, RewriteMeasForHum, Read, Write,
                    HumDone, WithMeas, Step, Drivers
<1>8. ~ReadMeasForOsr(k) /\ ~WriteMeasForOsr(k) /\ ~ReadConfig(k)
  <2> DEFINE m == WithMeas(d)
             c == WithConfig(d)
             meas == [m EXCEPT !.pc = "pt_write", !.buf.temp = Given(d).temp,
                               !.buf.press = Given(d).press]
             written == [d EXCEPT !.pc = "cfg_read"]
             config == [c EXCEPT !.pc = "cfg_write", !.buf.filter = Given(d).filter,
                                 !.buf.standby = Given(d).standby]
  <2>1. /\ ReadMeasForOsr(k) => Step(k, meas) \/ Step(k, Return(d, "COMM_FAIL"))
        /\ WriteMeasForOsr(k) => Step(k, written) \/ Step(k, Return(d, "COMM_FAIL"))
        /\ ReadConfig(k) => Step(k, config) \/ Step(k, Return(d, "COMM_FAIL"))
    BY <1>1, FailureReturns DEF ReadMeasForOsr, WriteMeasForOsr, ReadConfig, Read,
                                Write,
                                OsrDone, Codes
  <2>2. m \in Drivers /\ m.sleeping /\ c \in Drivers /\ c.sleeping
    BY <1>1, BuffersTyped, Here DEF WithMeas, WithConfig, Drivers
  <2>3. meas.sleeping /\ written.sleeping /\ config.sleeping
    <3> HIDE DEF m, c
    <3> QED BY <1>1, <2>2 DEF Drivers
  <2> QED BY <1>2, <1>3, <2>1, <2>3 DEF Codes
<1>9. CASE WriteConfigReg(k)
  BY <1>1, <1>3, <1>9, FailureReturns DEF WriteConfigReg, Write, Codes
<1> QED BY <1>4, <1>5, <1>6, <1>7, <1>8, <1>9 DEF Driver

\* By then the chip has what was saved before its reset.
LEMMA SleepStep ==
  ASSUME IInv, [Next]_vars, NEW k \in Tasks, drv[k].sleeping, ~drv'[k].sleeping,
         drv'[k].pc \in {"pw_read", "osr"}
  PROVE  Agree(sensor'.set, drv[k].saved)
<1>1. Start(k) \/ Driver(k)
  <2>1. drv' # drv
    OBVIOUS
  <2>2. PICK j \in Tasks : Start(j) \/ Driver(j)
    BY <2>1 DEF Next, vars, Finished, NvmCopied, ConversionEnds
  <2>3. \E e : drv' = [drv EXCEPT ![j] = e]
    BY <2>2 DEF Start, Driver, ReadChipId, WriteReset, ReadStatus, ReadCalibTempPress,
                ReadCalibHum, GetSensorMode, ReadSettings, SetOsr, WriteHum, ReadMeasForHum,
                RewriteMeasForHum, ReadMeasForOsr, WriteMeasForOsr, ReadConfig,
                WriteConfigReg, ReadPowerMode, WritePowerMode, Wait, GetSensorData, Read,
                Write, Step
  <2>4. j = k
    BY <2>3
  <2> QED BY <2>2, <2>4
<1>2. At(k, "cfg_write") /\ sensor' \in WriteConfig(sensor, drv[k].buf)
  BY <1>1, SleepEnds
<1> QED BY <1>2, ConfigWritten DEF Given

-----------------------------------------------------------------------------
(* The theorems.                                                           *)

\* No task has begun, whatever the chip holds.
LEMMA InitIInv == Init => IInv
<1> SUFFICES ASSUME Init PROVE IInv
  OBVIOUS
<1> DEFINE d == [NewDriver(0) EXCEPT !.pc = "idle"]
<1>1. d \in Drivers
  <2>1. NewDriver(0) \in Drivers
    BY NewDriverTyped DEF Vals
  <2> QED BY <2>1 DEF Drivers, Pc
<1>2. PoweredOn \in Sensors
  BY DEF PoweredOn, NoReading, AllReset, Sensors, Readings, Settings, Vals, Modes
<1>3. sensor \in Sensors /\ \A k \in Tasks : drv[k] = d
  BY <1>2, FoundAssumption DEF Init
<1>4. ASSUME NEW k \in Tasks PROVE TaskInv(drv[k], sensor, k)
  BY <1>3 DEF NewDriver, TaskInv, Placed, Calibrated, Sleeps, Written, Applied,
              SettingsPc, Apis
<1>5. TypeOK /\ OneActive
  BY <1>1, <1>3 DEF Init, TypeOK, OneActive, Active, NewDriver
<1> QED BY <1>4, <1>5 DEF IInv

\* Every step keeps the invariant.
LEMMA NextIInv ==
  ASSUME Overlap = FALSE
  PROVE  IInv /\ [Next]_vars => IInv'
<1> SUFFICES ASSUME IInv, [Next]_vars PROVE IInv'
  OBVIOUS
<1>1. CASE UNCHANGED vars
  BY <1>1 DEF vars, IInv, TypeOK, OneActive, Active
<1>2. ASSUME NEW k \in Tasks, Start(k) \/ Driver(k) PROVE IInv'
  BY <1>2, StartStep, ReadChipIdStep, WriteResetStep, ReadStatusStep, ReadCalibStep,
     GetSensorModeStep, ReadSettingsStep, HumidityStep, ReadMeasForOsrStep,
     WriteMeasForOsrStep, ReadConfigStep, WriteConfigRegStep, ReadPowerModeStep,
     WritePowerModeStep, WaitStep, GetSensorDataStep DEF Driver
<1> QED BY <1>1, <1>2, ChipStep DEF Next, Finished

\* The driver's invariant, with one sensor task at a time: where every task is,
\* what it holds of the chip's registers and what it can rely on.
THEOREM DriverInvariant ==
  ASSUME Overlap = FALSE
  PROVE  Spec => []IInv
<1>1. Init => IInv
  BY InitIInv
<1>2. IInv /\ [Next]_vars => IInv'
  BY NextIInv
<1> QED BY <1>1, <1>2, PTL DEF Spec

\* The chip's registers and the drivers' locals keep their types.
THEOREM DriverTypeCorrect ==
  ASSUME Overlap = FALSE
  PROVE  Spec => []TypeOK
<1>1. IInv => TypeOK
  BY DEF IInv
<1> QED BY <1>1, DriverInvariant, PTL

\* bme280_init returns BME280_OK only over whole calibration data.
THEOREM DriverCalibSound ==
  ASSUME Overlap = FALSE
  PROVE  Spec => []CalibSound
<1>1. IInv => CalibSound
  BY DEF IInv, TaskInv, Calibrated, CalibSound
<1> QED BY <1>1, DriverInvariant, PTL

\* config is written in sleep mode only.
THEOREM DriverConfigInSleep ==
  ASSUME Overlap = FALSE
  PROVE  Spec => []ConfigInSleep
<1>1. IInv => ConfigInSleep
  BY DEF IInv, TaskInv, Sleeps, SettingsPc, ConfigInSleep, At
<1> QED BY <1>1, DriverInvariant, PTL

\* Four calls that return BME280_OK have measured what they report, under the
\* settings that were asked for.
THEOREM DriverOwnReading ==
  ASSUME Overlap = FALSE
  PROVE  Spec => []OwnReading
<1>1. IInv => OwnReading
  BY DEF IInv, TaskInv, Applied, OwnReading, At
<1> QED BY <1>1, DriverInvariant, PTL

\* put_device_to_sleep gives the chip back the settings it had.
THEOREM DriverSleepKeepsSettings ==
  ASSUME Overlap = FALSE
  PROVE  Spec => SleepKeepsSettings
<1>1. IInv /\ [Next]_vars
        => [\A k \in Tasks :
              drv[k].sleeping /\ ~drv'[k].sleeping
                /\ (drv'[k].pc = "pw_read" \/ drv'[k].pc = "osr")
                => Agree(sensor'.set, drv[k].saved)]_vars
  BY SleepStep
<1> QED BY <1>1, DriverInvariant, PTL DEF Spec, SleepKeepsSettings
=============================================================================
