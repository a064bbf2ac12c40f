----------------------------- MODULE SensorClient -----------------------------
(***************************************************************************)
(* The class I2C_Sensor of interface/interface.py: a program asks the      *)
(* device for a reading and waits for it, again and again in the order of  *)
(* interface/README.md (serialize_data, send, deserialize_message).        *)
(*                                                                         *)
(* Two threads meet in message_q: the caller's, and the network loop of    *)
(* the MQTT library, which send starts and on_message stops from inside.   *)
(* The library is external: its loop ends after the packet at hand unless  *)
(* a packet waits to be written, loop_start does nothing while the thread  *)
(* lives and, depending on the version, once it was stopped from inside;   *)
(* a lost connection is made again, without the subscription.              *)
(***************************************************************************)
EXTENDS Naturals, Sequences, SequencesExt

CONSTANTS MaxReads,   \* bound: readings the caller asks for
          MaxOthers,  \* bound: responses to other clients' requests
          MaxDrops    \* bound: lost connections

ASSUME BoundsAssumption == MaxReads \in Nat /\ MaxOthers \in Nat /\ MaxDrops \in Nat

VARIABLES
  pc,        \* the caller: idle, serialized, started, waiting
  asked,     \* the number of the request in tx_data
  values,    \* temp, humidity and pressure, as the response they are from
  taken,     \* the responses the caller has taken from message_q, in order
  message_q,
  loop,      \* the loop thread: none, reading, put, stopping, ended
  unsent,    \* requests published and not yet written
  open,      \* requests that the device may still answer
  wire,      \* responses sent to the client and not read yet
  connected, subscribed, others, drops

caller == <<pc, asked, values, taken>>
network == <<connected, subscribed, others, drops>>
vars == <<caller, message_q, loop, unsent, open, wire, network>>

\* What a response may hold: readings with success 0, success other than 0, or
\* the response of another procedure, which other clients call too.  It is to the
\* request with that number, or to 0, another client's, and n tells it from others.
Kinds == {"reading", "failed", "other"}
Responses == [to : Nat, kind : Kinds, n : Nat]
Nothing == [temp |-> 0, humidity |-> 0, pressure |-> 0]

Init ==
  /\ pc = "idle" /\ asked = 0 /\ values = Nothing /\ taken = << >>
  /\ message_q = << >> /\ loop = "none"
  /\ unsent = {} /\ open = {} /\ wire = << >>
  /\ connected = TRUE /\ subscribed = TRUE /\ others = 0 /\ drops = 0

-----------------------------------------------------------------------------
(* The caller. *)

serialize_data ==
  /\ pc = "idle" /\ asked < MaxReads
  /\ pc' = "serialized" /\ asked' = asked + 1
  /\ UNCHANGED <<values, taken, message_q, loop, unsent, open, wire, network>>

\* send: loop_start, then publish.
loop_start ==
  /\ pc = "serialized" /\ pc' = "started"
  /\ \/ loop \in {"none", "ended"} /\ loop' = "reading"
     \/ loop # "none" /\ loop' = loop
  /\ UNCHANGED <<asked, values, taken, message_q, unsent, open, wire, network>>

publish ==
  /\ pc = "started" /\ pc' = "waiting"
  /\ unsent' = unsent \cup {asked}
  /\ UNCHANGED <<asked, values, taken, message_q, loop, open, wire, network>>

\* The three values of a response that has them and succeeded.
Stored(m) ==
  IF m.kind = "reading" THEN [temp |-> m.n, humidity |-> m.n, pressure |-> m.n]
  ELSE values

\* Seeded bug: a caller who finds the queue empty does not wait.
deserialize_message_Mutant ==
  /\ pc = "waiting" /\ pc' = "idle"
  /\ IF message_q = << >> THEN UNCHANGED <<values, taken, message_q>>
     ELSE /\ values' = Stored(Head(message_q)) /\ taken' = Append(taken, Head(message_q))
          /\ message_q' = Tail(message_q)
  /\ UNCHANGED <<asked, loop, unsent, open, wire, network>>

\* It waits for any message, with no timeout.
deserialize_message ==
  /\ pc = "waiting" /\ message_q # << >>
  /\ values' = Stored(Head(message_q)) /\ taken' = Append(taken, Head(message_q))
  /\ message_q' = Tail(message_q)
  /\ pc' = "idle"
  /\ UNCHANGED <<asked, loop, unsent, open, wire, network>>

-----------------------------------------------------------------------------
(* The loop thread. *)

\* A packet is written by the thread; without it by publish, or not at all.
Write ==
  /\ connected /\ loop # "put"
  /\ \E r \in unsent : unsent' = unsent \ {r} /\ open' = open \cup {r}
  /\ UNCHANGED <<caller, message_q, loop, wire, network>>

\* The thread reads a message while it is not told to stop, or has to write.
Readable ==
  /\ connected /\ wire # << >>
  /\ loop = "reading" \/ (loop = "stopping" /\ unsent # {})

\* Seeded bug: a message is put only if it holds a reading.
on_message_Mutant ==
  /\ Readable /\ loop' = "put"
  /\ message_q' = IF Head(wire).kind = "reading" THEN Append(message_q, Head(wire))
                  ELSE message_q
  /\ wire' = Tail(wire)
  /\ UNCHANGED <<caller, unsent, open, network>>
\* The message is put, and only then the loop stopped.
on_message ==
  /\ Readable /\ loop' = "put"
  /\ message_q' = Append(message_q, Head(wire))
  /\ wire' = Tail(wire)
  /\ UNCHANGED <<caller, unsent, open, network>>
loop_stop ==
  /\ loop = "put" /\ loop' = "stopping"
  /\ UNCHANGED <<caller, message_q, unsent, open, wire, network>>

LoopEnds ==
  /\ loop = "stopping" /\ (unsent = {} \/ ~connected)
  /\ loop' = "ended"
  /\ UNCHANGED <<caller, message_q, unsent, open, wire, network>>

-----------------------------------------------------------------------------
(* The device, other clients and the connection. *)

Arrives(m) == wire' = IF subscribed THEN Append(wire, m) ELSE wire

\* Requests are answered at most once and in any order, or never.
Answer(r, kind) ==
  /\ r \in open /\ open' = open \ {r}
  /\ Arrives([to |-> r, kind |-> kind, n |-> r])
  /\ UNCHANGED <<caller, message_q, loop, unsent, network>>

\* The topic +/xRPC_Response carries what every client asked of any device.
OtherAnswer(kind) ==
  /\ others < MaxOthers /\ others' = others + 1
  /\ Arrives([to |-> 0, kind |-> kind, n |-> MaxReads + others'])
  /\ UNCHANGED <<caller, message_q, loop, unsent, open, connected, subscribed, drops>>

\* The session is a clean one: the broker forgets the subscription.
Drop ==
  /\ connected /\ drops < MaxDrops
  /\ connected' = FALSE /\ subscribed' = FALSE /\ wire' = << >>
  /\ drops' = drops + 1
  /\ UNCHANGED <<caller, message_q, loop, unsent, open, others>>
Reconnect ==
  /\ ~connected /\ loop = "reading"
  /\ connected' = TRUE
  /\ UNCHANGED <<caller, message_q, loop, unsent, open, wire, subscribed, others, drops>>

Next ==
  \/ serialize_data \/ loop_start \/ publish \/ deserialize_message
  \/ Write \/ on_message \/ loop_stop \/ LoopEnds
  \/ \E r \in 1..MaxReads, kind \in {"reading", "failed"} : Answer(r, kind)
  \/ \E kind \in Kinds : OtherAnswer(kind)
  \/ Drop \/ Reconnect

Spec == Init /\ [][Next]_vars

\* Both threads are scheduled.  Nothing is assumed of the caller between calls,
\* of the network or of the device.
FairSpec ==
  /\ Spec
  /\ WF_vars(deserialize_message) /\ WF_vars(on_message) /\ WF_vars(loop_stop)

-----------------------------------------------------------------------------
(* Properties. *)

\* While no other client has had a response, what a read returns is the answer
\* to the request just made, its values if it succeeded: no message of an
\* earlier call is left for a later one.  (Any response ends the wait, so the
\* first of another client's puts every later read behind.)
OwnAnswer ==
  others = 0 /\ pc = "idle" /\ asked > 0 =>
    /\ taken # << >> /\ Last(taken).to = asked
    /\ Last(taken).kind = "reading" => \A f \in DOMAIN values : values[f] = asked

\* The first read never waits on a queue that no thread will fill: on_message
\* stops the loop only when the message is in message_q.  (A later send may
\* find the old thread still there, start none, and wait for ever.)
FirstReadServed ==
  asked = 1 /\ pc = "waiting" /\ message_q = << >> => loop = "reading"

\* A response that has come for a caller who waits ends the wait, unless the
\* connection is lost with it: in the first read always, in a later one if the
\* loop thread is there.
ReadReturns ==
  \A d \in 0..MaxDrops :
    (pc = "waiting" /\ wire # << >> /\ drops = d /\ (asked = 1 \/ loop = "reading"))
      ~> (pc # "waiting" \/ drops # d)
=============================================================================
