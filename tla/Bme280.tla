------------------------------- MODULE Bme280 -------------------------------
(***************************************************************************)
(* The transfers of the BME280 driver, one action each, over the state of  *)
(* Bme280State; then the properties.  A definition marked "seeded bug" is  *)
(* the one below it with a plausible mistake; no specification uses it.    *)
(***************************************************************************)
EXTENDS Bme280State

\* (Seeded bug.) The settings written back after the reset are those wanted.
Given_Wanted(d) == d.want

\* The settings set_osr_settings and set_filter_standby_settings are given.
Given(d) == IF d.sleeping THEN d.saved ELSE d.want

-----------------------------------------------------------------------------
(* The sensor task.                                                        *)

\* struct bme280_dev is an automatic variable whose standby_time is never set.
Start(k) ==
  /\ At(k, "idle")
  /\ Overlap \/ \A j \in Tasks : ~Active(j)
  /\ \E standby \in Vals : drv' = [drv EXCEPT ![k] = NewDriver(standby)]
  /\ UNCHANGED sensor

\* (Seeded bug.) try_count is not tested: the chip id is read for ever.
ReadChipId_NoLimit(k) ==
  LET d == drv[k] IN
  Read(k, "chip_id", [d EXCEPT !.pc = "reset"], [d EXCEPT !.tries = @ - 1])

\* (Seeded bug.) The tries start again when they are used up.
ReadChipId_Forever(k) ==
  LET d == drv[k] IN
  Read(k, "chip_id", [d EXCEPT !.pc = "reset"],
       [d EXCEPT !.tries = IF @ > 1 THEN @ - 1 ELSE TRY_COUNT])

\* bme280_init: the chip id, up to five times.
ReadChipId(k) ==
  LET d == drv[k] IN
  Read(k, "chip_id",
       [d EXCEPT !.pc = "reset"],
       IF d.tries > 1 THEN [d EXCEPT !.tries = @ - 1]
                      ELSE Return(d, "DEV_NOT_FOUND"))

\* bme280_soft_reset: the command, then the status until the calibration data
\* is copied or the tries are used up.
WriteReset(k) ==
  LET d == drv[k] IN
  Write(k, "reset", SoftReset(sensor),
        [d EXCEPT !.pc = "status", !.tries = TRY_RUN, !.im_update = FALSE],
        ResetDone(d, "COMM_FAIL"))

\* (Seeded bug.) The status is not tested once the tries are used up.
ReadStatus_Hopeful(k) ==
  LET d == [drv[k] EXCEPT !.im_update = sensor.nvm] IN
  Read(k, "status",
       IF d.im_update /\ d.tries > 0 THEN [d EXCEPT !.tries = @ - 1]
                                     ELSE ResetDone(d, "OK"),
       ResetDone(drv[k], "COMM_FAIL"))

ReadStatus(k) ==
  LET d == [drv[k] EXCEPT !.im_update = sensor.nvm] IN
  Read(k, "status",
       CASE ~d.im_update -> ResetDone(d, "OK")
         [] d.im_update /\ d.tries > 0 -> [d EXCEPT !.tries = @ - 1]
         [] OTHER -> ResetDone(d, "NVM_COPY_FAILED"),
       ResetDone(drv[k], IF drv[k].im_update THEN "NVM_COPY_FAILED"
                                             ELSE "COMM_FAIL"))

\* get_calib_data, in two reads; while the copy is under way they read garbage.
ReadCalibTempPress(k) ==
  LET d == drv[k] IN
  Read(k, "calib_tp",
       [d EXCEPT !.pc = "calib_h",
                 !.calib = IF sensor.nvm THEN "bad" ELSE "half"],
       Return(d, "COMM_FAIL"))

ReadCalibHum(k) ==
  LET d == drv[k] IN
  Read(k, "calib_h",
       Return([d EXCEPT !.calib = IF sensor.nvm \/ @ = "bad" THEN "bad"
                                                             ELSE "good"], "OK"),
       Return(d, "COMM_FAIL"))

\* (Seeded bug.) The mode is not looked at: the chip is taken to be asleep.
GetSensorMode_Trusting(k) ==
  LET d == drv[k] IN
  Read(k, "get_mode", Asleep(d, "OK"), Return(d, "COMM_FAIL"))

\* bme280_get_sensor_mode, at the start of the settings and of the mode call.
GetSensorMode(k) ==
  LET d == drv[k] IN
  Read(k, "get_mode",
       IF sensor.mode # "sleep" THEN [d EXCEPT !.pc = "save", !.sleeping = TRUE]
                                ELSE Asleep(d, "OK"),
       Return(d, "COMM_FAIL"))

\* put_device_to_sleep reads the four control registers, then resets the chip
\* and writes them back.
ReadSettings(k) ==
  LET d == drv[k] IN
  Read(k, "save",
       [d EXCEPT !.pc = "reset", !.saved = sensor.set],
       Return(d, "COMM_FAIL"))

\* set_osr_settings is entered: humidity first.
SetOsr(k) ==
  /\ At(k, "osr")
  /\ drv' = [drv EXCEPT ![k].pc = "hum_write"]
  /\ UNCHANGED sensor

WriteHum(k) ==
  LET d == drv[k] IN
  Write(k, "hum_write", WriteCtrlHum(sensor, Given(d).hum),
        [d EXCEPT !.pc = "hum_read"], HumDone(d))

ReadMeasForHum(k) ==
  LET d == drv[k] IN
  Read(k, "hum_read", [WithMeas(d) EXCEPT !.pc = "hum_rewrite"], HumDone(d))

RewriteMeasForHum(k) ==
  LET d == drv[k] IN
  Write(k, "hum_rewrite", WriteCtrlMeas(sensor, k, d.buf), HumDone(d), HumDone(d))

ReadMeasForOsr(k) ==
  LET d == drv[k] IN
  Read(k, "pt_read",
       [WithMeas(d) EXCEPT !.pc = "pt_write", !.buf.temp = Given(d).temp,
                           !.buf.press = Given(d).press],
       OsrDone(d, "COMM_FAIL"))

WriteMeasForOsr(k) ==
  LET d == drv[k] IN
  Write(k, "pt_write", WriteCtrlMeas(sensor, k, d.buf),
        OsrDone(d, "OK"), OsrDone(d, "COMM_FAIL"))

ReadConfig(k) ==
  LET d == drv[k] IN
  Read(k, "cfg_read",
       [WithConfig(d) EXCEPT !.pc = "cfg_write",
                             !.buf.filter = Given(d).filter,
                             !.buf.standby = Given(d).standby],
       SettingsDone(d, "COMM_FAIL"))

WriteConfigReg(k) ==
  LET d == drv[k] IN
  Write(k, "cfg_write", WriteConfig(sensor, d.buf),
        SettingsDone(d, "OK"), SettingsDone(d, "COMM_FAIL"))

\* write_power_mode(BME280_FORCED_MODE).
ReadPowerMode(k) ==
  LET d == drv[k] IN
  Read(k, "pw_read",
       [WithMeas(d) EXCEPT !.pc = "pw_write", !.buf.mode = "forced"],
       Return(d, "COMM_FAIL"))

WritePowerMode(k) ==
  LET d == drv[k] IN
  Write(k, "pw_write", WriteCtrlMeas(sensor, k, d.buf),
        Return(d, "OK"), Return(d, "COMM_FAIL"))

\* (Seeded bug.) The data is read without the delay.
Wait_Skipped(k) ==
  /\ At(k, "wait")
  /\ drv' = [drv EXCEPT ![k].pc = "data"]
  /\ UNCHANGED sensor

\* The delay of bme280_cal_meas_delay: a conversion the task has started and no
\* one has disturbed is over when it ends.
Wait(k) ==
  /\ At(k, "wait")
  /\ ~(sensor.mode = "forced" /\ sensor.owner = k)
  /\ drv' = [drv EXCEPT ![k].pc = "data"]
  /\ UNCHANGED sensor

\* bme280_get_sensor_data: one burst, so the registers are not torn.
GetSensorData(k) ==
  LET d == drv[k] IN
  Read(k, "data", Return([d EXCEPT !.reading = sensor.data], "OK"),
       Return(d, "COMM_FAIL"))

-----------------------------------------------------------------------------
(* The chip.                                                               *)
NvmCopied ==
  /\ sensor.nvm
  /\ sensor' = [sensor EXCEPT !.nvm = FALSE]
  /\ UNCHANGED drv

ConversionEnds ==
  /\ sensor.mode = "forced"
  /\ sensor' = Converted(sensor)
  /\ UNCHANGED drv

-----------------------------------------------------------------------------
Driver(k) ==
  \/ ReadChipId(k) \/ WriteReset(k) \/ ReadStatus(k)
  \/ ReadCalibTempPress(k) \/ ReadCalibHum(k)
  \/ GetSensorMode(k) \/ ReadSettings(k)
  \/ SetOsr(k) \/ WriteHum(k) \/ ReadMeasForHum(k) \/ RewriteMeasForHum(k)
  \/ ReadMeasForOsr(k) \/ WriteMeasForOsr(k)
  \/ ReadConfig(k) \/ WriteConfigReg(k)
  \/ ReadPowerMode(k) \/ WritePowerMode(k)
  \/ Wait(k) \/ GetSensorData(k)

Finished == (\A k \in Tasks : At(k, "done")) /\ UNCHANGED vars

Next ==
  \/ \E k \in Tasks : Start(k) \/ Driver(k)
  \/ NvmCopied \/ ConversionEnds
  \/ Finished

Spec == Init /\ [][Next]_vars

\* Each task is scheduled; a conversion takes a bounded time.
Fairness == (\A k \in Tasks : WF_vars(Driver(k))) /\ WF_vars(ConversionEnds)
FairSpec == Spec /\ Fairness

-----------------------------------------------------------------------------
(* Properties.                                                             *)

TypeOK ==
  /\ sensor \in Sensors
  /\ drv \in [Tasks -> Drivers]

\* If bme280_init returns BME280_OK the calibration data was read after the
\* chip had finished copying it.
CalibSound ==
  \A k \in Tasks : drv[k].rslt["init"] = "OK" => drv[k].calib = "good"

\* The config register is written only while the chip sleeps, where the write
\* is certain to be taken.
ConfigInSleep ==
  \A k \in Tasks : At(k, "cfg_write") => sensor.mode = "sleep"

\* Two settings agree on what is written after the mode check: everything but
\* the humidity oversampling, whose errors are lost.
Agree(s, t) ==
  /\ s.temp = t.temp /\ s.press = t.press
  /\ s.filter = t.filter /\ s.standby = t.standby

\* When every call has returned BME280_OK, what the task reads is a conversion
\* it started itself, under the settings it asked for.
OwnReading ==
  \A k \in Tasks :
    /\ At(k, "done")
    /\ \A a \in Apis : drv[k].rslt[a] = "OK"
    => /\ drv[k].reading.by = k
       /\ Agree(drv[k].reading.under, drv[k].want)

\* put_device_to_sleep resets the chip and gives it back the settings it had.
SleepKeepsSettings ==
  [][\A k \in Tasks :
       drv[k].sleeping /\ ~drv'[k].sleeping
         /\ (drv'[k].pc = "pw_read" \/ drv'[k].pc = "osr")
         => Agree(sensor'.set, drv[k].saved)]_vars

\* A task that has begun ends, however many transfers fail.
Terminates == \A k \in Tasks : Active(k) ~> At(k, "done")

=============================================================================
