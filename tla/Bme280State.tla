---------------------------- MODULE Bme280State ----------------------------
(***************************************************************************)
(* The BME280 driver of components/bme280/bme280.c as a sensor task of     *)
(* app_main.c runs it, one action per bus transfer: bme280_init,           *)
(* bme280_set_sensor_settings, bme280_set_sensor_mode(FORCED), the delay   *)
(* and bme280_get_sensor_data.  Any transfer may fail; the driver holds no *)
(* lock, so the transfers of two tasks interleave.                         *)
(*                                                                         *)
(* The procedures of the driver call one another; a task keeps the API     *)
(* call it is in, and whether it is inside put_device_to_sleep, so that    *)
(* what set_osr_settings and set_filter_standby_settings return is handed  *)
(* to the right caller.                                                    *)
(***************************************************************************)
EXTENDS Bme280Sensor, FiniteSets

CONSTANTS
  Overlap,     \* may sensor tasks run at the same time
  Faults,      \* may bus transfers fail
  Found        \* the states in which a restart of the ESP32 may find the chip,
               \* which keeps its power: as an earlier task left it

ASSUME OverlapAssumption == Overlap \in BOOLEAN /\ Faults \in BOOLEAN
ASSUME FoundAssumption == Found \subseteq Sensors
ASSUME NoTaskAssumption == NoTask \notin Tasks

VARIABLES
  sensor,      \* the chip
  drv          \* the locals of each task and of the driver calls it is in

vars == <<sensor, drv>>

\* Where a task is: the transfer it makes next.
Transfers ==
  {"chip_id", "reset", "status", "calib_tp", "calib_h", "get_mode", "save",
   "hum_write", "hum_read", "hum_rewrite", "pt_read", "pt_write",
   "cfg_read", "cfg_write", "pw_read", "pw_write", "data"}
Pc == Transfers \cup {"idle", "osr", "wait", "done"}
Apis == {"init", "settings", "mode", "data"}
Codes == {"none", "OK", "COMM_FAIL", "DEV_NOT_FOUND", "NVM_COPY_FAILED"}

\* The value of ctrl_meas or config a task has read and modified.
Buffers == [temp : Vals, press : Vals, mode : Modes, filter : Vals, standby : Vals]
NoBuffer == [temp |-> 0, press |-> 0, mode |-> "sleep", filter |-> 0, standby |-> 0]

TRY_COUNT == 5      \* chip id reads in bme280_init
TRY_RUN == 5        \* repeated status reads in bme280_soft_reset

Drivers ==
  [pc : Pc,
   api : Apis,               \* the API call in progress
   sleeping : BOOLEAN,       \* inside put_device_to_sleep
   tries : 0 .. TRY_COUNT,   \* try_count, then try_run
   im_update : BOOLEAN,      \* that bit of status_reg
   calib : {"none", "half", "good", "bad"},
   want : Settings,          \* dev.settings
   saved : Settings,         \* settings of put_device_to_sleep
   buf : Buffers,
   rslt : [Apis -> Codes],   \* what each call returned
   reading : Readings]       \* comp_data

NewDriver(standby) ==
  [pc |-> "chip_id", api |-> "init", sleeping |-> FALSE, tries |-> TRY_COUNT,
   im_update |-> FALSE, calib |-> "none",
   want |-> [temp |-> 1, press |-> 1, hum |-> 1, filter |-> 1,
             standby |-> standby],
   saved |-> AllReset, buf |-> NoBuffer,
   rslt |-> [a \in Apis |-> "none"], reading |-> NoReading]

Init ==
  /\ sensor \in {PoweredOn} \cup Found
  /\ drv = [k \in Tasks |-> [NewDriver(0) EXCEPT !.pc = "idle"]]

Active(k) == drv[k].pc \notin {"idle", "done"}

-----------------------------------------------------------------------------
(* How the procedures return to their callers.                             *)

\* An API call returns r, and the application goes on to the next whatever r is.
Return(d, r) ==
  [d EXCEPT !.rslt[d.api] = r, !.sleeping = FALSE, !.tries = 0,
            !.im_update = FALSE, !.saved = AllReset, !.buf = NoBuffer,
            !.api = CASE d.api = "init" -> "settings"
                      [] d.api = "settings" -> "mode"
                      [] OTHER -> "data",
            !.pc = CASE d.api \in {"init", "settings"} -> "get_mode"
                     [] d.api = "mode" -> "wait"
                     [] d.api = "data" -> "done"]

\* put_device_to_sleep returns r to bme280_set_sensor_settings or
\* bme280_set_sensor_mode.
Asleep(d, r) ==
  IF r # "OK" THEN Return(d, r)
  ELSE [d EXCEPT !.sleeping = FALSE,
                 !.pc = IF d.api = "settings" THEN "osr" ELSE "pw_read"]

\* set_filter_standby_settings returns r, or is skipped.
SettingsDone(d, r) == IF d.sleeping THEN Asleep(d, r) ELSE Return(d, r)

\* set_osr_settings returns r: what follows needs BME280_OK.
OsrDone(d, r) ==
  IF r = "OK" THEN [d EXCEPT !.pc = "cfg_read"] ELSE SettingsDone(d, r)

\* set_osr_humidity_settings returns.  Its result is overwritten by that of
\* set_osr_press_temp_settings: both are always selected.
HumDone(d) == [d EXCEPT !.pc = "pt_read"]

\* bme280_soft_reset returns r to bme280_init or to put_device_to_sleep.
ResetDone(d, r) ==
  CASE d.api = "init" -> IF r = "OK" THEN [d EXCEPT !.pc = "calib_tp"]
                                     ELSE Return(d, r)
    [] OTHER -> IF r = "OK" THEN [d EXCEPT !.pc = "osr"] ELSE Asleep(d, r)

-----------------------------------------------------------------------------
(* A transfer, by i2c_master_reg_read or i2c_master_reg_write: it succeeds  *)
(* and the task goes on as the record `then', or fails and goes on as       *)
(* `otherwise'.  A write that fails may still have reached the sensor.      *)

At(k, pc) == drv[k].pc = pc

Step(k, d) == drv' = [drv EXCEPT ![k] = d]

Read(k, pc, then, otherwise) ==
  /\ At(k, pc)
  /\ \/ Step(k, then)
     \/ Faults /\ Step(k, otherwise)
  /\ UNCHANGED sensor

Write(k, pc, outcomes, then, otherwise) ==
  /\ At(k, pc)
  /\ \/ sensor' \in outcomes /\ Step(k, then)
     \/ Faults /\ sensor' \in outcomes \cup {sensor} /\ Step(k, otherwise)

\* Reads of ctrl_meas and of config into buf.
WithMeas(d) == [d EXCEPT !.buf = [@ EXCEPT !.temp = sensor.set.temp,
                                           !.press = sensor.set.press,
                                           !.mode = sensor.mode]]
WithConfig(d) == [d EXCEPT !.buf = [@ EXCEPT !.filter = sensor.set.filter,
                                             !.standby = sensor.set.standby]]
=============================================================================
