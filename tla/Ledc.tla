-------------------------------- MODULE Ledc --------------------------------
(***************************************************************************)
(* The LED PWM controller as ledcontroller_func drives it: the ladder that *)
(* turns a request into a timer and a channel configuration, and the two   *)
(* ESP-IDF calls that apply them.  The controller keeps the timers that    *)
(* are running and the channels that are bound to one.                     *)
(***************************************************************************)
EXTENDS Integers

CONSTANTS
  Duties,      \* duty cycles a client asks for
  LedPins,     \* pins a client asks for
  OutputPins   \* those of them the chip can drive: 34 to 39 are inputs only

ASSUME OutputPinsAssumption == OutputPins \subseteq LedPins

HwModes == {"high", "low"}              \* the speed modes the hardware has
SpeedModes == HwModes \cup {"max"}      \* the ones a request can name
HwChannels == 0 .. 7
LEDC_CHANNEL_MAX == 8
IntrTypes == {"disable", "fade_end"}

\* ledc_conf of a request.  An enum of proto3 is open: a client can send an
\* interrupt type the schema does not know.  The hpoint is left out: it is
\* handed on unchanged and ESP-IDF refuses none.
Confs == [mode : SpeedModes, channel : Nat, gpio : LedPins,
          intr : IntrTypes \cup {"unknown"}, duty : Duties]

LedcStates == [timers : SUBSET (HwModes \X {0, 1}),
               channels : SUBSET [mode : HwModes, channel : HwChannels,
                                  gpio : OutputPins, timer : {0, 1},
                                  duty : Duties]]

LedcReset == [timers |-> {}, channels |-> {}]

\* The mode ladder: low speed runs on timer 1, the other two on timer 0.
TimerSel(conf) == IF conf.mode = "low" THEN 1 ELSE 0

\* The channel switch has cases 0 to 8 and no default: any other number leaves
\* the field of the automatic struct uninitialized, so it holds any value; one
\* that is out of range stands for all of them.
ChannelSwitch(conf) ==
  IF conf.channel \in 0 .. LEDC_CHANNEL_MAX
    THEN {conf.channel}
    ELSE HwChannels \cup {LEDC_CHANNEL_MAX}

\* The two ifs on the interrupt type have no else: the field is left
\* uninitialized by any other type, and then holds a good value or a bad one.
IntrSwitch(conf) ==
  IF conf.intr \in IntrTypes THEN {conf.intr} ELSE IntrTypes \cup {"invalid"}

\* ESP-IDF refuses a timer of a speed mode the hardware does not have.
ledc_timer_config(ledc, mode, timer) ==
  IF mode \in HwModes
    THEN [ledc EXCEPT !.timers = @ \cup {<<mode, timer>>}]
    ELSE ledc

\* What ledc_channel_config checks before it changes anything.
Accepts(mode, channel, gpio, intr) ==
  /\ mode \in HwModes /\ channel \in HwChannels
  /\ gpio \in OutputPins /\ intr \in IntrTypes

ledc_channel_config(ledc, mode, channel, gpio, intr, timer, duty) ==
  IF Accepts(mode, channel, gpio, intr)
    THEN [ledc EXCEPT !.channels =
            {c \in @ : c.mode # mode \/ c.channel # channel}
              \cup {[mode |-> mode, channel |-> channel, gpio |-> gpio,
                     timer |-> timer, duty |-> duty]}]
    ELSE ledc

\* A seeded bug: the channel is bound to timer 0 though low speed runs on timer
\* 1, to see that the properties of the LED can fail.
Configured_OneTimer(ledc, conf, channel, intr) ==
  ledc_channel_config(ledc_timer_config(ledc, conf.mode, TimerSel(conf)),
                      conf.mode, channel, conf.gpio, intr, 0, conf.duty)

\* What the two calls of ledcontroller_func leave in the controller, given what
\* the fields of the channel and of the interrupt type hold; the results of the
\* calls are not looked at.
Configured(ledc, conf, channel, intr) ==
  ledc_channel_config(ledc_timer_config(ledc, conf.mode, TimerSel(conf)),
                      conf.mode, channel, conf.gpio, intr,
                      TimerSel(conf), conf.duty)

\* A channel drives the pin conf names, at the duty and in the mode it asks for,
\* on a timer that runs.  Whether another peripheral takes the pin afterwards is
\* not looked at.
Runs(ledc, conf) ==
  \E c \in ledc.channels :
    /\ c.mode = conf.mode /\ c.channel = conf.channel
    /\ c.gpio = conf.gpio /\ c.duty = conf.duty
    /\ <<c.mode, c.timer>> \in ledc.timers
=============================================================================
