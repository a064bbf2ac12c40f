---------------------------- MODULE MCXRpcDevice ----------------------------
(***************************************************************************)
(* Instances of XRpcDevice for TLC.                                        *)
(***************************************************************************)
EXTENDS XRpcDevice, TLC

MCPins == {0, 21, 22, 18, 19}
MCWired == [sda |-> 21, scl |-> 22]     \* the defaults of interface.py

Settime(t) == [type |-> "request", case |-> SETTIMEOFDAY, time |-> t]
Gettime == [type |-> "request", case |-> GETTIMEOFDAY]
LedOn(mode, channel, gpio, intr, duty) ==
  [type |-> "request", case |-> LEDC_CHANNEL_CONFIG,
   conf |-> [mode |-> mode, channel |-> channel, gpio |-> gpio,
             intr |-> intr, duty |-> duty]]
Led(mode, channel, duty) ==         \* pin and type as client.py sets them
  LedOn(mode, channel, 2, "fade_end", duty)
Sensor(sda, scl) ==
  [type |-> "request", case |-> I2C, sda |-> sda, scl |-> scl]
NoFunction == [type |-> "request", case |-> 0]
NotSet == [type |-> "not_set"]

\* One of every kind.
MixedBodies == {Settime(1), Gettime, Led("low", 0, 1), Sensor(21, 22),
                NoFunction, NotSet}
ClockBodies == {Settime(1), Settime(2), Gettime}
SensorBodies == {Sensor(21, 22), Sensor(18, 19)}
LeakBodies == {Sensor(21, 22), NotSet, Gettime}
LedBodies == {Led("high", 0, 1), Led("low", 0, 2), Led("low", 0, 1),
              Led("max", 0, 1), Led("high", 9, 2),
              LedOn("high", 0, 34, "disable", 1),
              LedOn("low", 0, 2, "unknown", 2)}

\* One the hardware can do, and one on a pin that is an input only.
AckBodies == {Led("high", 0, 1), LedOn("high", 1, 34, "fade_end", 1)}

\* One of every kind, and those with effects another request may undo.
DeviceBodies == ClockBodies \cup LedBodies
                  \cup {Sensor(21, 22), NoFunction, NotSet}

RequestSymmetry == Permutations(Requests)
=============================================================================
