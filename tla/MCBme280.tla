------------------------------ MODULE MCBme280 ------------------------------
(***************************************************************************)
(* Instances of Bme280 for TLC.                                            *)
(***************************************************************************)
EXTENDS Bme280, TLC

Left(w, h, m) == [set |-> w, hum |-> h, mode |-> m, nvm |-> FALSE,
                  owner |-> NoTask, data |-> NoReading]

\* Whatever an interrupted task may leave: any registers, converting or not, or
\* a reset that is not over.
AnyLeft ==
  {Left(w, h, m) : w \in Settings, h \in Vals, m \in Modes}
    \cup SoftReset(PoweredOn)

\* Those of a task that was cut off after it had applied its settings.
SetLeft ==
  {Left([temp |-> 1, press |-> 1, hum |-> 1, filter |-> 1, standby |-> 0], 1, m) :
     m \in Modes}
=============================================================================
