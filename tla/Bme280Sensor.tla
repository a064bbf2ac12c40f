---------------------------- MODULE Bme280Sensor ----------------------------
(***************************************************************************)
(* The BME280 chip as its driver sees it: the control registers, the copy  *)
(* of the calibration data after a reset, and one conversion at a time.    *)
(* The chip is not part of the repository; this is what bme280.c relies on *)
(* (its register writes, its comments on the humidity register and on the  *)
(* start-up time, the sleep it takes care of before it writes config).     *)
(***************************************************************************)
EXTENDS Integers

CONSTANTS Tasks, NoTask

\* A setting holds 0 after a reset; 1 stands for the value the application
\* asks for.
Vals == {0, 1}

\* bme280_settings: oversampling of temperature, pressure and humidity, filter
\* coefficient and standby time.
Settings == [temp : Vals, press : Vals, hum : Vals, filter : Vals, standby : Vals]
Modes == {"sleep", "forced"}

\* What the data registers hold: who started the conversion and under which
\* settings; by NoTask it is the reset value.
Readings == [by : Tasks \cup {NoTask}, under : Settings]

Sensors == [set : Settings,          \* ctrl_hum, ctrl_meas and config
            hum : Vals,              \* the humidity setting in force
            mode : Modes,
            nvm : BOOLEAN,           \* is the calibration data being copied
            owner : Tasks \cup {NoTask},   \* who started the last conversion
            data : Readings]

AllReset == [temp |-> 0, press |-> 0, hum |-> 0, filter |-> 0, standby |-> 0]
NoReading == [by |-> NoTask, under |-> AllReset]

PoweredOn == [set |-> AllReset, hum |-> 0, mode |-> "sleep", nvm |-> FALSE,
              owner |-> NoTask, data |-> NoReading]

\* Each register write, as the set of states it may leave.

\* Soft reset: registers cleared, asleep, copying the calibration data.
SoftReset(s) == {[PoweredOn EXCEPT !.nvm = TRUE]}

WriteCtrlHum(s, v) == {[s EXCEPT !.set.hum = v]}

\* A write of ctrl_meas brings the humidity setting into force, and starts a
\* conversion when its mode bits say forced.
WriteCtrlMeas(s, k, v) ==
  {[s EXCEPT !.set.temp = v.temp, !.set.press = v.press, !.hum = s.set.hum,
             !.mode = v.mode,
             !.owner = IF v.mode = "forced" THEN k ELSE @]}

\* A write of config is certain to be taken in sleep mode only.
WriteConfig(s, v) ==
  LET taken == [s EXCEPT !.set.filter = v.filter, !.set.standby = v.standby] IN
  IF s.mode = "sleep" THEN {taken} ELSE {s, taken}

\* A forced conversion ends and the sensor goes back to sleep.
Converted(s) ==
  [s EXCEPT !.mode = "sleep",
            !.data = [by |-> s.owner, under |-> [s.set EXCEPT !.hum = s.hum]]]
=============================================================================
