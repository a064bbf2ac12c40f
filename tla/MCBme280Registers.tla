------------------------- MODULE MCBme280Registers --------------------------
(***************************************************************************)
(* Bme280Registers with one chip's calibration bytes, the settings that    *)
(* the application asks for and others with values larger than a field.    *)
(***************************************************************************)
EXTENDS Bme280Registers

\* Bytes with and without the sign bit, no two of a pair alike.
MCNvm ==
    [a \in (136..161) \cup (225..231) |->
        IF a = 229 THEN {0, 2, 5, 7} ELSE Low(Word(37 * a + 11), 8)]

\* The application sets no standby time: it is what lies on its stack.
Application == [osr_h |-> {0}, osr_p |-> {0, 2}, osr_t |-> {1}, filter |-> {2},
                standby_time |-> {0, 3, 7}]
Large == [osr_h |-> {1, 2}, osr_p |-> {0, 1}, osr_t |-> {2, 3}, filter |-> {0, 1},
          standby_time |-> {0, 1, 2}]
MCSamples == {Application, Large}
MCDesired == {{}, Fields, {"osr_h"}, {"osr_p", "filter"},
              {"osr_t", "standby_time"}}

MCBursts ==
    {[addrs |-> <<>>, bytes |-> <<>>],
     [addrs |-> <<CTRL_HUM_ADDR, CONFIG_ADDR, CTRL_MEAS_ADDR, CONFIG_ADDR>>,
      bytes |-> <<{2, 7}, {3, 5}, {0, 1, 2}, {2, 6}>>],
     [addrs |-> <<CTRL_MEAS_ADDR, CONFIG_ADDR>>, bytes |-> <<{3}, {4, 7}>>],
     [addrs |-> <<CTRL_HUM_ADDR, RESET_ADDR, CTRL_MEAS_ADDR>>,
      bytes |-> <<{0}, SOFT_RESET_COMMAND, {2, 5}>>],
     [addrs |-> [k \in 1..11 |-> IF k = 11 THEN CTRL_MEAS_ADDR ELSE CTRL_HUM_ADDR],
      bytes |-> [k \in 1..11 |-> Word(k)]]}

MCReadings == {[k \in 1..8 |-> {k - 1, 7}], [k \in 1..8 |-> {0, 8 - k}]}

\* No property reads the last call of the state a step starts from.
View == <<chip, dev, calls>>
=============================================================================
