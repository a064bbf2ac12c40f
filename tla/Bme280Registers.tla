-------------------------- MODULE Bme280Registers ---------------------------
(***************************************************************************)
(* The BME280 driver (components/bme280/bme280.c) down to the bits of the  *)
(* registers, for any user of its interface: every call in any order, each *)
(* to its end, with at most one transfer failing in it.  Bme280 has two    *)
(* tasks interleave; here a call is one step and a byte is a set of bits.  *)
(*                                                                         *)
(* A run s of a call carries the chip, the driver's struct bme280_dev, the *)
(* bytes read last, what the compensation returned, the number n of        *)
(* transfers so far, of which number fail fails, and how long the next     *)
(* reset will take.  A transfer that fails leaves the chip as it was.      *)
(***************************************************************************)
EXTENDS Words, Sequences

CONSTANTS Nvm,       \* the calibration bytes of the chip, by address
          Ids,       \* the chip ids there may be
          Samples,   \* the settings a user asks for
          Desired,   \* the settings a user selects, as sets of fields
          Bursts,    \* the writes a user asks of bme280_set_regs
          Readings,  \* what a conversion may leave in the data registers
          Copies,    \* bound: transfers for which a reset may still be copying
          MaxCalls   \* bound: calls

VARIABLES chip,  \* its registers
          dev,   \* struct bme280_dev
          last,  \* the last call, its faults, its result and what it returned
          calls  \* how many there were

vars == <<chip, dev, last, calls>>

OK == 0
E_DEV_NOT_FOUND == -2
E_INVALID_LEN == -3
E_COMM_FAIL == -4
E_NVM_COPY_FAILED == -6
W_INVALID_OSR_MACRO == 1

CHIP_ID == {5, 6}
SOFT_RESET_COMMAND == {1, 2, 4, 5, 7}
TEMP_PRESS_CALIB_DATA_ADDR == 136
CHIP_ID_ADDR == 208
RESET_ADDR == 224
HUMIDITY_CALIB_DATA_ADDR == 225
CTRL_HUM_ADDR == 242
STATUS_REG_ADDR == 243
CTRL_MEAS_ADDR == 244
CONFIG_ADDR == 245
DATA_ADDR == 247

Fields == {"osr_p", "osr_t", "osr_h", "filter", "standby_time"}
\* struct bme280_settings: the user may give any byte for a field.
Settings == [osr_p : Byte, osr_t : Byte, osr_h : Byte, filter : Byte, standby_time : Byte]

ASSUME NvmAssumption == Nvm \in [(136..161) \cup (225..231) -> Byte]
ASSUME IdsAssumption == Ids \subseteq Byte
ASSUME SettingsAssumption == Samples \subseteq Settings /\ Desired \subseteq SUBSET Fields
\* The registers that can be written, an address for every byte.
ASSUME BurstsAssumption ==
    \A burst \in Bursts :
        /\ burst.addrs \in Seq({RESET_ADDR, CTRL_HUM_ADDR, CTRL_MEAS_ADDR, CONFIG_ADDR})
        /\ burst.bytes \in Seq(Byte)
        /\ Len(burst.addrs) = Len(burst.bytes)
ASSUME ReadingsAssumption == Readings \subseteq [1..8 -> Byte]
ASSUME BoundsAssumption == Copies \subseteq Nat /\ MaxCalls \in Nat

\* Where a field lies in its register.
SENSOR_MODE == [msk |-> 0..1, pos |-> 0]
CTRL_HUM == [msk |-> 0..2, pos |-> 0]
CTRL_PRESS == [msk |-> 2..4, pos |-> 2]
CTRL_TEMP == [msk |-> 5..7, pos |-> 5]
FILTER == [msk |-> 2..4, pos |-> 2]
STANDBY == [msk |-> 5..7, pos |-> 5]

\* Seeded bug: the old bits of the field stay.
SET_BITS_Mutant(reg_data, f, data) == reg_data \cup (Shl(data, f.pos, 8) \cap f.msk)
SET_BITS(reg_data, f, data) == (reg_data \ f.msk) \cup (Shl(data, f.pos, 8) \cap f.msk)
GET_BITS(reg_data, f) == Shr(reg_data \cap f.msk, f.pos)

-----------------------------------------------------------------------------
(* The chip, as the driver relies on it. *)

\* hum is the humidity oversampling in force, copying the transfers for which
\* the calibration data are still being copied.
PoweredOn(id, copying) ==
    [regs |-> [a \in CTRL_HUM_ADDR..(DATA_ADDR + 7) |-> {}], hum |-> {}, id |-> id,
     copying |-> copying]
Mode(c) == GET_BITS(c.regs[CTRL_MEAS_ADDR], SENSOR_MODE)
Later(c) == [c EXCEPT !.copying = IF @ > 0 THEN @ - 1 ELSE 0]

Register(c, a) ==
    CASE a = CHIP_ID_ADDR -> c.id
      [] a = STATUS_REG_ADDR -> IF c.copying > 0 THEN {0} ELSE {}
      [] a \in DOMAIN Nvm -> IF c.copying > 0 THEN {} ELSE Nvm[a]
      [] OTHER -> c.regs[a]
Read(c, addr, len) == [k \in 1..len |-> Register(c, addr + k - 1)]

Stored(c, a, byte) == [c EXCEPT !.regs[a] = byte]
\* A write of ctrl_meas brings the humidity oversampling into force; one of
\* config is sure to be taken only in sleep mode, so otherwise it is not.
Written(c, a, byte, copies) ==
    CASE a = RESET_ADDR -> IF byte = SOFT_RESET_COMMAND THEN PoweredOn(c.id, copies) ELSE c
      [] a = CTRL_HUM_ADDR -> Stored(c, a, Low(byte, 3))
      [] a = CTRL_MEAS_ADDR -> [Stored(c, a, byte) EXCEPT !.hum = c.regs[CTRL_HUM_ADDR]]
      [] a = CONFIG_ADDR -> IF Mode(c) = {} THEN Stored(c, a, byte) ELSE c
      [] OTHER -> c
\* A byte for the register addressed, then pairs of an address and a byte: ten
\* registers at most.
PairWritten(c, buff, k, copies) ==
    IF 2 * k < Len(buff) THEN Written(c, buff[2 * k], buff[2 * k + 1], copies) ELSE c
BurstWritten(c, addr, buff, copies) ==
    LET next(d, k) == PairWritten(d, buff, k, copies)
        four == next(next(next(Written(c, addr, buff[1], copies), 1), 2), 3)
    IN  next(next(next(next(next(next(four, 4), 5), 6), 7), 8), 9)

\* The chip converts by itself: once in a forced mode, again and again in the
\* normal one.
Conversion(reading) ==
    /\ Mode(chip) # {}
    /\ chip' = [chip EXCEPT !.regs =
                  [a \in DOMAIN @ |->
                    IF a >= DATA_ADDR THEN reading[a - DATA_ADDR + 1]
                    ELSE IF a = CTRL_MEAS_ADDR /\ Mode(chip) # {0, 1}
                    THEN @[a] \ SENSOR_MODE.msk ELSE @[a]]]
    /\ UNCHANGED <<dev, last, calls>>

-----------------------------------------------------------------------------
(* Transfers. *)

\* F goes on with a run that went well.
Then(s, F(_)) == IF s.rslt = OK THEN F(s) ELSE s

CommFail(s) ==
    [s EXCEPT !.n = @ + 1, !.rslt = E_COMM_FAIL, !.chip = Later(@)]

bme280_get_regs(s, addr, len) ==
    IF s.n + 1 = s.fail THEN CommFail(s)
    ELSE [s EXCEPT !.n = @ + 1, !.rslt = OK, !.data = Read(s.chip, addr, len),
                   !.chip = Later(@)]

\* Seeded bug: every byte goes to the register of the one before.
interleave_reg_addr_Mutant(addrs, bytes, len) ==
    [k \in 1..(2 * len - 1) |->
        IF k % 2 = 0 THEN addrs[k \div 2] ELSE bytes[k \div 2 + 1]]
interleave_reg_addr(addrs, bytes, len) ==
    [k \in 1..(2 * len - 1) |->
        IF k % 2 = 0 THEN addrs[k \div 2 + 1] ELSE bytes[k \div 2 + 1]]

Resets(addrs, len) == \E k \in 1..len : addrs[k] = RESET_ADDR

\* No more than ten registers are written.
bme280_set_regs(s, addrs, bytes) ==
    LET len == IF Len(bytes) > 10 THEN 10 ELSE Len(bytes)
    IN  IF len = 0 THEN [s EXCEPT !.rslt = E_INVALID_LEN]
        ELSE IF s.n + 1 = s.fail THEN CommFail(s)
        ELSE [s EXCEPT !.n = @ + 1, !.rslt = OK,
                       !.copies = IF Resets(addrs, len) THEN 0 ELSE @,
                       !.chip = BurstWritten(Later(@), addrs[1],
                                    interleave_reg_addr(addrs, bytes, len), s.copies)]
SetReg(s, addr, byte) == bme280_set_regs(s, <<addr>>, <<byte>>)

-----------------------------------------------------------------------------
(* Reset and calibration data. *)

\* The status read last that went well stays in data: a read that fails ends
\* the polling with the status before it.
StatusRead(s) == bme280_get_regs(s, STATUS_REG_ADDR, 1)
Busy(r) == 0 \in r.data[1]
ReadAgain(r) == IF r.rslt = OK /\ Busy(r) THEN StatusRead(r) ELSE r
\* Once, and at most five times more.
Poll(s) ==
    ReadAgain(ReadAgain(ReadAgain(ReadAgain(ReadAgain(
        StatusRead([s EXCEPT !.data = <<{}>>]))))))
Polled(r) == IF Busy(r) THEN [r EXCEPT !.rslt = E_NVM_COPY_FAILED] ELSE r

bme280_soft_reset(s) ==
    Then(SetReg(s, RESET_ADDR, SOFT_RESET_COMMAND), LAMBDA r : Polled(Poll(r)))

\* int8_t widened; int16_t and int8_t as integers.
Widened(byte) == byte \cup (IF 7 \in byte THEN 8..15 ELSE {})
Signed(w, n) == Val(w) - (IF n - 1 \in w THEN 2^n ELSE 0)
CONCAT_BYTES(msb, lsb) == Shl(msb, 8, 16) \cup lsb

parse_temp_press_calib_data(reg_data) ==
    LET word(k) == CONCAT_BYTES(reg_data[2 * k], reg_data[2 * k - 1])
    IN  [dig_t |-> <<Val(word(1)), Signed(word(2), 16), Signed(word(3), 16)>>,
         dig_p |-> <<Val(word(4))>> \o [k \in 1..8 |-> Signed(word(k + 4), 16)],
         dig_h1 |-> Val(reg_data[26])]
\* Seeded bug: dig_h5 is given the low bits that belong to dig_h4.
parse_humidity_calib_data_Mutant(reg_data) ==
    [dig_h2 |-> Signed(CONCAT_BYTES(reg_data[2], reg_data[1]), 16),
     dig_h3 |-> Val(reg_data[3]),
     dig_h4 |-> Signed(Shl(Widened(reg_data[4]), 4, 16) \cup Low(reg_data[5], 4), 16),
     dig_h5 |-> Signed(Shl(Widened(reg_data[6]), 4, 16) \cup Low(reg_data[5], 4), 16),
     dig_h6 |-> Signed(reg_data[7], 8)]
parse_humidity_calib_data(reg_data) ==
    [dig_h2 |-> Signed(CONCAT_BYTES(reg_data[2], reg_data[1]), 16),
     dig_h3 |-> Val(reg_data[3]),
     dig_h4 |-> Signed(Shl(Widened(reg_data[4]), 4, 16) \cup Low(reg_data[5], 4), 16),
     dig_h5 |-> Signed(Shl(Widened(reg_data[6]), 4, 16) \cup Shr(reg_data[5], 4), 16),
     dig_h6 |-> Signed(reg_data[7], 8)]

get_calib_data(s) ==
    Then(bme280_get_regs(s, TEMP_PRESS_CALIB_DATA_ADDR, 26), LAMBDA r :
    Then(bme280_get_regs([r EXCEPT !.dev.temp_press = parse_temp_press_calib_data(r.data)],
                         HUMIDITY_CALIB_DATA_ADDR, 7), LAMBDA q :
         [q EXCEPT !.dev.humidity = parse_humidity_calib_data(q.data)]))

\* The chip id is asked for five times.
ChipIdRead(s) == bme280_get_regs(s, CHIP_ID_ADDR, 1)
Found(r) == r.rslt = OK /\ r.data[1] = CHIP_ID
TryAgain(r) == IF Found(r) THEN r ELSE ChipIdRead(r)
try_init(s) == TryAgain(TryAgain(TryAgain(TryAgain(ChipIdRead(s)))))
bme280_init(s) ==
    LET r == try_init(s)
    IN  IF Found(r)
        THEN Then(bme280_soft_reset([r EXCEPT !.dev.chip_id = r.data[1]]), get_calib_data)
        ELSE [r EXCEPT !.rslt = E_DEV_NOT_FOUND]

-----------------------------------------------------------------------------
(* Settings and modes. *)

set_osr_humidity_settings(s, settings) ==
    Then(SetReg(s, CTRL_HUM_ADDR, settings.osr_h \cap CTRL_HUM.msk), LAMBDA r :
    Then(bme280_get_regs(r, CTRL_MEAS_ADDR, 1), LAMBDA q :
         SetReg(q, CTRL_MEAS_ADDR, q.data[1])))

\* The bits of data that are selected are set, those that are not stay.
Fill(reg_data, f, selected, data) ==
    IF selected THEN SET_BITS(reg_data, f, data) ELSE reg_data

set_osr_press_temp_settings(s, desired, settings) ==
    Then(bme280_get_regs(s, CTRL_MEAS_ADDR, 1), LAMBDA r :
         SetReg(r, CTRL_MEAS_ADDR,
                Fill(Fill(r.data[1], CTRL_PRESS, "osr_p" \in desired, settings.osr_p),
                     CTRL_TEMP, "osr_t" \in desired, settings.osr_t)))

\* The result of the first part is overwritten by that of the second.
OsrPressTemp(s, desired, settings) ==
    IF desired \cap {"osr_p", "osr_t"} = {} THEN s
    ELSE set_osr_press_temp_settings(s, desired, settings)
set_osr_settings(s, desired, settings) ==
    OsrPressTemp(IF "osr_h" \in desired THEN set_osr_humidity_settings(s, settings)
                 ELSE [s EXCEPT !.rslt = W_INVALID_OSR_MACRO],
                 desired, settings)

set_filter_standby_settings(s, desired, settings) ==
    Then(bme280_get_regs(s, CONFIG_ADDR, 1), LAMBDA r :
         SetReg(r, CONFIG_ADDR,
                Fill(Fill(r.data[1], FILTER, "filter" \in desired, settings.filter),
                     STANDBY, "standby_time" \in desired, settings.standby_time)))

parse_device_settings(reg_data) ==
    [osr_h |-> GET_BITS(reg_data[1], CTRL_HUM),
     osr_p |-> GET_BITS(reg_data[3], CTRL_PRESS),
     osr_t |-> GET_BITS(reg_data[3], CTRL_TEMP),
     filter |-> GET_BITS(reg_data[4], FILTER),
     standby_time |-> GET_BITS(reg_data[4], STANDBY)]

\* Seeded bug: filter and standby time are written whatever became of the rest.
reload_device_settings_Mutant(s, settings) ==
    set_filter_standby_settings(set_osr_settings(s, Fields, settings), Fields, settings)
reload_device_settings(s, settings) ==
    Then(set_osr_settings(s, Fields, settings), LAMBDA r :
         set_filter_standby_settings(r, Fields, settings))

\* Seeded bug: the settings are not written back after the reset.
put_device_to_sleep_Mutant(s) ==
    Then(bme280_get_regs(s, CTRL_HUM_ADDR, 4), bme280_soft_reset)
\* Read, reset, written back.
put_device_to_sleep(s) ==
    Then(bme280_get_regs(s, CTRL_HUM_ADDR, 4), LAMBDA r :
    Then(bme280_soft_reset(r), LAMBDA q :
         reload_device_settings(q, parse_device_settings(r.data))))

bme280_get_sensor_mode(s) ==
    Then(bme280_get_regs(s, CTRL_MEAS_ADDR, 1), LAMBDA r :
         [r EXCEPT !.data = <<GET_BITS(@[1], SENSOR_MODE)>>])

Asleep(s) ==
    Then(bme280_get_sensor_mode(s), LAMBDA r :
         IF r.data[1] = {} THEN r ELSE put_device_to_sleep(r))

bme280_set_sensor_settings(s, desired, settings) ==
    Then(Asleep(s), LAMBDA r :
    Then(IF desired \cap {"osr_p", "osr_t", "osr_h"} = {} THEN r
         ELSE set_osr_settings(r, desired, settings), LAMBDA q :
         IF desired \cap {"filter", "standby_time"} = {} THEN q
         ELSE set_filter_standby_settings(q, desired, settings)))

bme280_get_sensor_settings(s) ==
    Then(bme280_get_regs(s, CTRL_HUM_ADDR, 4), LAMBDA r :
         [r EXCEPT !.dev.settings = parse_device_settings(r.data)])

write_power_mode(s, sensor_mode) ==
    Then(bme280_get_regs(s, CTRL_MEAS_ADDR, 1), LAMBDA r :
         SetReg(r, CTRL_MEAS_ADDR, SET_BITS(r.data[1], SENSOR_MODE, sensor_mode)))
bme280_set_sensor_mode(s, sensor_mode) ==
    Then(Asleep(s), LAMBDA r : write_power_mode(r, sensor_mode))

-----------------------------------------------------------------------------
(* Readings. *)

bme280_parse_sensor_data(reg_data) ==
    LET raw(k) == Shl(reg_data[k], 12, 32) \cup Shl(reg_data[k + 1], 4, 32)
                  \cup Shr(reg_data[k + 2], 4)
    IN  [pressure |-> raw(1), temperature |-> raw(4),
         humidity |-> Shl(reg_data[7], 8, 32) \cup reg_data[8]]

\* The formulas are in floating point: a value is what it is computed from.
\* That of the temperature leaves t_fine for the two others.
NoData == [temperature |-> <<>>, pressure |-> <<>>, humidity |-> <<>>]
compensate_pressure_humidity(s, comp, uncomp) ==
    [s EXCEPT !.comp.pressure =
                 IF "press" \in comp THEN <<uncomp.pressure, s.dev.t_fine>> ELSE <<>>,
              !.comp.humidity =
                 IF "hum" \in comp THEN <<uncomp.humidity, s.dev.t_fine>> ELSE <<>>]
compensate_temperature(s, uncomp) ==
    [s EXCEPT !.comp.temperature = <<uncomp.temperature>>,
              !.dev.t_fine = uncomp.temperature]
\* Seeded bug: the humidity alone is compensated with the last t_fine.
bme280_compensate_data_Mutant(s, comp, uncomp) ==
    compensate_pressure_humidity(
        IF comp \ {"hum"} = {} THEN s ELSE compensate_temperature(s, uncomp), comp, uncomp)
bme280_compensate_data(s, comp, uncomp) ==
    compensate_pressure_humidity(
        IF comp = {} THEN s ELSE compensate_temperature(s, uncomp), comp, uncomp)

bme280_get_sensor_data(s, comp) ==
    Then(bme280_get_regs(s, DATA_ADDR, 8), LAMBDA r :
         bme280_compensate_data(r, comp, bme280_parse_sensor_data(r.data)))

\* Seeded bug: the value of a setting is taken for the number of samples.
act_osr_Mutant(osr) == IF Val(osr) <= 5 THEN Val(osr) ELSE 16
act_osr(osr) == IF Val(osr) <= 5 THEN <<0, 1, 2, 4, 8, 16>>[Val(osr) + 1] ELSE 16
bme280_cal_meas_delay(settings) ==
    (1250 + 2300 * act_osr(settings.osr_t) + (2300 * act_osr(settings.osr_p) + 575)
        + (2300 * act_osr(settings.osr_h) + 575)) \div 1000

-----------------------------------------------------------------------------
(* Any call at any time. *)

Zeroed == [f \in Fields |-> {}]
Init ==
    /\ \E id \in Ids : chip = PoweredOn(id, 0)
    /\ dev = [chip_id |-> {}, settings |-> Zeroed, temp_press |-> <<>>,
              humidity |-> <<>>, t_fine |-> {}]
    /\ last = [call |-> [op |-> "none"], fail |-> 0, copies |-> 0, rslt |-> OK,
               comp |-> NoData]
    /\ calls = 0

Calls ==
    {[op |-> "init"], [op |-> "soft_reset"], [op |-> "get_sensor_settings"]}
    \cup [op : {"set_sensor_settings"}, desired : Desired, settings : Samples]
    \cup [op : {"set_sensor_mode"}, sensor_mode : SUBSET {0, 1}]
    \cup [op : {"get_sensor_data"}, sensor_comp : SUBSET {"press", "temp", "hum"}]
    \cup [op : {"set_regs"}, burst : Bursts]

Run(call, s) ==
    CASE call.op = "init" -> bme280_init(s)
      [] call.op = "soft_reset" -> bme280_soft_reset(s)
      [] call.op = "set_sensor_settings" ->
            bme280_set_sensor_settings([s EXCEPT !.dev.settings = call.settings],
                                       call.desired, call.settings)
      [] call.op = "get_sensor_settings" -> bme280_get_sensor_settings(s)
      [] call.op = "set_sensor_mode" -> bme280_set_sensor_mode(s, call.sensor_mode)
      [] call.op = "get_sensor_data" -> bme280_get_sensor_data(s, call.sensor_comp)
      [] call.op = "set_regs" ->
            bme280_set_regs(s, call.burst.addrs, call.burst.bytes)
Start(fail, copies) ==
    [chip |-> chip, dev |-> dev, data |-> <<>>, comp |-> NoData, rslt |-> OK, n |-> 0,
     fail |-> fail, copies |-> copies]

\* Of a run without a fault, any transfer may be the one that fails; there is a
\* copy to wait for only when there was a reset.  bme280_init is the entry point
\* (bme280.h): no other call before one has gone well.
Call(call, copies) ==
    /\ calls < MaxCalls
    /\ call.op = "init" \/ dev.humidity # <<>>
    /\ \E whole \in {Run(call, Start(0, copies))} :
        /\ whole.copies = 0
        /\ \E fail \in 0..whole.n :
           \E s \in {IF fail = 0 THEN whole ELSE Run(call, Start(fail, copies))} :
              /\ s.copies = 0
              /\ chip' = s.chip /\ dev' = s.dev
              /\ last' = [call |-> call, fail |-> fail, copies |-> copies,
                          rslt |-> s.rslt, comp |-> s.comp]
    /\ calls' = calls + 1

Next ==
    \/ \E call \in Calls, copies \in Copies : Call(call, copies)
    \/ \E reading \in Readings : Conversion(reading)

Spec == Init /\ [][Next]_vars

-----------------------------------------------------------------------------
(* Types. *)

\* Of ctrl_hum only the three bits that exist.
Chip == [regs : {f \in [CTRL_HUM_ADDR..(DATA_ADDR + 7) -> Byte] :
                    f[CTRL_HUM_ADDR] \subseteq Bits(3)},
         hum : SUBSET Bits(3), id : Byte, copying : Nat]
TempPress == [dig_t : Seq(Int), dig_p : Seq(Int), dig_h1 : Int]
Humidity == [dig_h2 : Int, dig_h3 : Int, dig_h4 : Int, dig_h5 : Int, dig_h6 : Int]
Dev == [chip_id : Byte, settings : Settings, temp_press : {<<>>} \cup TempPress,
        humidity : {<<>>} \cup Humidity, t_fine : SUBSET Bits(32)]
Comp == [temperature : Seq(SUBSET Bits(32)), pressure : Seq(SUBSET Bits(32)),
         humidity : Seq(SUBSET Bits(32))]

\* Types of the registers, of the driver's structure and of what was returned.
TypeOK ==
    /\ chip \in Chip
    /\ dev \in Dev
    /\ last.call \in Calls \cup {[op |-> "none"]} /\ last.copies \in Copies \cup {0}
    /\ last.fail \in Nat /\ last.rslt \in Int /\ last.comp \in Comp
    /\ calls \in 0..MaxCalls

-----------------------------------------------------------------------------
(* Properties, in the arithmetic of the data sheet. *)

\* The settings a chip has, with the humidity oversampling that is hum.
InChip(c, hum) ==
    LET meas == Val(c.regs[CTRL_MEAS_ADDR])
        config == Val(c.regs[CONFIG_ADDR])
    IN  [osr_p |-> (meas \div 4) % 8, osr_t |-> meas \div 32, osr_h |-> Val(hum),
         filter |-> (config \div 4) % 8, standby_time |-> config \div 32]
\* hum itself for what is in force, its register for what will be.
InForce(c) == InChip(c, c.hum)
Asked(c) == InChip(c, c.regs[CTRL_HUM_ADDR])
Numbers(settings) == [f \in Fields |-> Val(settings[f]) % 8]

Returned(op) == last'.call.op = op /\ last'.rslt = OK /\ calls' # calls
\* A failed humidity write may be hidden: see OnlyHumidityLost.
Sure == IF last'.fail = 0 THEN Fields ELSE Fields \ {"osr_h"}

\* bme280_set_sensor_settings returns BME280_OK: the settings selected are in
\* force, the others are what they were, and the sensor sleeps, whatever the
\* mode it was found in and however large the values.
SettingsApplied ==
    [][Returned("set_sensor_settings") =>
        LET new == InForce(chip')
            was == {InForce(chip), Asked(chip)}
            wanted == Numbers(last'.call.settings)
        IN  /\ \A f \in Sure :
                  IF f \in last'.call.desired THEN new[f] = wanted[f]
                  ELSE \E old \in was : new[f] = old[f]
            /\ Mode(chip') = {}]_vars

\* bme280_set_sensor_mode returns BME280_OK: the sensor is in that mode with
\* the settings it had, although it may have been reset on the way.
ModeKeepsSettings ==
    [][Returned("set_sensor_mode") =>
        /\ LET new == InForce(chip')
               old == Asked(chip)
           IN  \A f \in Sure : new[f] = old[f]
        /\ Mode(chip') = last'.call.sensor_mode]_vars

\* A call that returns BME280_OK although a transfer failed in it has done all
\* that it would have done without the fault, but for the humidity setting,
\* whose error set_osr_settings overwrites.
OnlyHumidityLost ==
    [][last'.fail # 0 /\ last'.rslt = OK /\ calls' # calls =>
        \E s \in {Run(last'.call, Start(0, last'.copies))} :
            /\ \A a \in {CTRL_MEAS_ADDR, CONFIG_ADDR} : chip'.regs[a] = s.chip.regs[a]
            /\ dev' = s.dev /\ last'.comp = s.comp]_vars

\* Reference: a field of the calibration data, from its bytes.
TwosComplement(n, bits) == IF n >= 2^(bits - 1) THEN n - 2^bits ELSE n
At(a) == Val(Nvm[a])
Unsigned16(a) == At(a) + 256 * At(a + 1)
Signed16(a) == TwosComplement(Unsigned16(a), 16)

ChipTempPress ==
    [dig_t |-> <<Unsigned16(136), Signed16(138), Signed16(140)>>,
     dig_p |-> <<Unsigned16(142)>> \o [k \in 1..8 |-> Signed16(142 + 2 * k)],
     dig_h1 |-> At(161)]
ChipHumidity ==
    [dig_h2 |-> Signed16(225), dig_h3 |-> At(227),
     dig_h4 |-> TwosComplement(16 * At(228) + (At(229) % 16), 12),
     dig_h5 |-> TwosComplement(16 * At(230) + (At(229) \div 16), 12),
     dig_h6 |-> TwosComplement(At(231), 8)]

\* Calibration data in the driver are those of the chip: no byte of a copy that
\* had not finished, none in the wrong place, every sign right.
CalibExact ==
    /\ dev.temp_press # <<>> => dev.temp_press = ChipTempPress
    /\ dev.humidity # <<>> => dev.humidity = ChipHumidity

\* What bme280_get_sensor_data returns comes from one read of the registers:
\* pressure and humidity are compensated with the temperature next to them.
OwnCompensation ==
    [][Returned("get_sensor_data") =>
        LET byte(k) == Val(chip.regs[DATA_ADDR + k])
            twenty(k) == 4096 * byte(k) + 16 * byte(k + 1) + (byte(k + 2) \div 16)
            given(c) == c \in last'.call.sensor_comp
            is(value, numbers) == [k \in DOMAIN value |-> Val(value[k])] = numbers
        IN  /\ is(last'.comp.temperature,
                  IF last'.call.sensor_comp = {} THEN <<>> ELSE <<twenty(3)>>)
            /\ is(last'.comp.pressure,
                  IF given("press") THEN <<twenty(0), twenty(3)>> ELSE <<>>)
            /\ is(last'.comp.humidity,
                  IF given("hum") THEN <<256 * byte(6) + byte(7), twenty(3)>>
                  ELSE <<>>)]_vars

\* The data sheet's longest conversion, in microseconds: a measurement that is
\* skipped takes no time.
Longest(numbers) ==
    LET samples(n) == IF n = 0 THEN 0 ELSE IF n >= 5 THEN 16 ELSE 2^(n - 1)
        part(n, offset) == IF n = 0 THEN 0 ELSE 2300 * samples(n) + offset
    IN  1250 + part(numbers.osr_t, 0) + part(numbers.osr_p, 575) + part(numbers.osr_h, 575)

\* The delay bme280_cal_meas_delay gives is rounded down, but it is short of the
\* longest conversion by less than a millisecond.
DelayWithinOne ==
    1000 * bme280_cal_meas_delay(dev.settings) + 1000 > Longest(Numbers(dev.settings))

\* No soft reset among the writes.
NoReset(addrs, bytes) ==
    \A k \in 1..Len(bytes) : addrs[k] = RESET_ADDR => bytes[k] # SOFT_RESET_COMMAND

\* The places, of the first ten of a burst, whose byte is for register a.
PlacesFor(addrs, a) == {k \in DOMAIN addrs : k <= 10 /\ addrs[k] = a}
\* The chip, c before the burst, is in sleep mode when the byte of place k arrives.
AsleepAt(c, addrs, bytes, k) ==
    LET before == {j \in PlacesFor(addrs, CTRL_MEAS_ADDR) : j < k}
        meas == IF before = {} THEN c.regs[CTRL_MEAS_ADDR] ELSE bytes[Max(before)]
    IN  Val(meas) % 4 = 0
\* Those whose byte the register takes.
TakenPlaces(c, addrs, bytes, a) ==
    {k \in PlacesFor(addrs, a) : a = CONFIG_ADDR => AsleepAt(c, addrs, bytes, k)}
\* The number in register a once the burst is written.
Landed(c, addrs, bytes, a) ==
    LET taken == TakenPlaces(c, addrs, bytes, a)
    IN  IF taken = {} THEN Val(c.regs[a])
        ELSE Val(bytes[Max(taken)]) % (IF a = CTRL_HUM_ADDR THEN 8 ELSE 256)

\* bme280_set_regs puts each of the first ten bytes it is given into the
\* register of the same place, in order: every register holds the last byte
\* that was for it, config the last that found the chip asleep, and one that
\* was given none holds what it held; unless one of them resets the chip.
BurstLands ==
    [][Returned("set_regs") /\ NoReset(last'.call.burst.addrs, last'.call.burst.bytes) =>
        /\ DOMAIN chip'.regs = DOMAIN chip.regs
        /\ \A a \in DOMAIN chip.regs :
              Val(chip'.regs[a]) =
                  Landed(chip, last'.call.burst.addrs, last'.call.burst.bytes, a)]_vars
=============================================================================
