-------------------------- MODULE SensorClient_proofs --------------------------
(***************************************************************************)
(* That the first read is always served, and that a client by itself reads *)
(* the answers to its own requests, for any number of reads.               *)
(***************************************************************************)
EXTENDS SensorClient, SequenceTheorems, TLAPS

QueuesTyped ==
  /\ taken \in Seq(Responses) /\ message_q \in Seq(Responses) /\ wire \in Seq(Responses)
  /\ asked \in Nat /\ others \in Nat

\* The loop thread lives from the first loop_start to the first message.
LoopLives ==
  /\ asked = 0 => pc = "idle" /\ loop = "none" /\ message_q = << >>
  /\ asked = 1 /\ pc = "serialized" => loop = "none" /\ message_q = << >>
  /\ asked = 1 /\ pc \in {"started", "waiting"} /\ message_q = << >> => loop = "reading"

\* Where the one request, or its answer, is while the caller waits.
Clear == unsent = {} /\ open = {} /\ wire = << >> /\ message_q = << >>
Own(kind) == [to |-> asked, kind |-> kind, n |-> asked]
InFlight ==
  \/ unsent = {asked} /\ open = {} /\ wire = << >> /\ message_q = << >>
  \/ unsent = {} /\ open = {asked} /\ wire = << >> /\ message_q = << >>
  \/ /\ unsent = {} /\ open = {} /\ message_q = << >>
     /\ \E kind \in Kinds : wire = <<Own(kind)>>
  \/ /\ unsent = {} /\ open = {} /\ wire = << >>
     /\ \E kind \in Kinds : message_q = <<Own(kind)>>
OneAtATime ==
  others = 0 => (pc = "waiting" /\ InFlight) \/ Clear

IInv == QueuesTyped /\ LoopLives /\ OneAtATime /\ OwnAnswer

\* The caller and the library begin with nothing on the way.
LEMMA InitIInv == Init => IInv
  BY BoundsAssumption DEF Init, IInv, QueuesTyped, LoopLives, OneAtATime, Clear, OwnAnswer

\* The message that is read from the wire, or taken from the queue, is one of
\* the responses sent, and what is left are responses.
LEMMA HeadTyped ==
  ASSUME NEW s \in Seq(Responses), s # << >>
  PROVE  Head(s) \in Responses /\ Tail(s) \in Seq(Responses)
  OBVIOUS

\* A queue to which a message was appended is not empty, and holds responses.
LEMMA AppendTyped ==
  ASSUME NEW s \in Seq(Responses), NEW m \in Responses
  PROVE  /\ Append(s, m) \in Seq(Responses) /\ Append(s, m) # << >>
         /\ Last(Append(s, m)) = m
  BY DEF Last

\* What the device or another client's request puts on the wire is a response.
LEMMA ArrivesTyped ==
  ASSUME QueuesTyped, NEW m \in Responses, Arrives(m)
  PROVE  wire' \in Seq(Responses)
  BY AppendTyped DEF QueuesTyped, Arrives

\* Every step of the caller keeps the invariant.
LEMMA CallerStep ==
  ASSUME IInv, serialize_data \/ loop_start \/ publish \/ deserialize_message
  PROVE  IInv'
<1> USE DEF IInv, QueuesTyped, LoopLives, OneAtATime
<1>1. CASE serialize_data
  <2>1. QueuesTyped' /\ LoopLives' /\ OneAtATime'
    BY <1>1 DEF serialize_data, network, Clear, InFlight
  <2>2. OwnAnswer'
    BY <1>1 DEF serialize_data, OwnAnswer
  <2> QED BY <2>1, <2>2
<1>2. CASE loop_start
  <2>1. QueuesTyped' /\ LoopLives' /\ OneAtATime'
    BY <1>2 DEF loop_start, network, Clear, InFlight
  <2>2. OwnAnswer'
    BY <1>2 DEF loop_start, OwnAnswer
  <2> QED BY <2>1, <2>2
<1>3. CASE publish
  <2>1. QueuesTyped' /\ LoopLives'
    BY <1>3 DEF publish, network
  <2>2. OneAtATime'
    BY <1>3 DEF publish, network, Clear, InFlight
  <2>3. OwnAnswer'
    BY <1>3 DEF publish, OwnAnswer
  <2> QED BY <2>1, <2>2, <2>3
<1>4. CASE deserialize_message
  <2> USE <1>4 DEF deserialize_message, network
  <2>1. /\ Head(message_q) \in Responses /\ Tail(message_q) \in Seq(Responses)
        /\ taken' = Append(taken, Head(message_q))
    BY HeadTyped
  <2>2. /\ taken' \in Seq(Responses) /\ taken' # << >>
        /\ Last(taken') = Head(message_q)
    BY <2>1, AppendTyped
  <2>3. QueuesTyped' /\ LoopLives'
    BY <2>1, <2>2
  <2>4. ASSUME others = 0
        PROVE  Clear' /\ \E kind \in Kinds : Head(message_q) = Own(kind)
    BY <2>4 DEF Clear, InFlight
  <2>5. OneAtATime'
    BY <2>4
  <2>6. OwnAnswer'
    <3> SUFFICES ASSUME others = 0
                 PROVE  /\ Last(taken').to = asked
                        /\ Last(taken').kind = "reading" =>
                             \A f \in DOMAIN values' : values'[f] = asked
      BY <2>2 DEF OwnAnswer
    <3>1. PICK kind \in Kinds : Head(message_q) = Own(kind)
      BY <2>4
    <3> QED BY <2>2, <3>1 DEF Own, Stored
  <2> QED BY <2>3, <2>5, <2>6
<1> QED BY <1>1, <1>2, <1>3, <1>4

\* Every step of the loop thread keeps the invariant.
LEMMA LoopStep ==
  ASSUME IInv, Write \/ on_message \/ loop_stop \/ LoopEnds
  PROVE  IInv'
<1> USE DEF IInv, QueuesTyped, LoopLives, OneAtATime
<1>1. CASE Write
  <2>1. QueuesTyped' /\ LoopLives' /\ OwnAnswer'
    BY <1>1 DEF Write, caller, network, OwnAnswer
  <2>2. OneAtATime'
    BY <1>1 DEF Write, caller, network, Clear, InFlight, Own
  <2> QED BY <2>1, <2>2
<1>2. CASE on_message
  <2> USE <1>2 DEF on_message, caller, network
  <2>1. Head(wire) \in Responses /\ Tail(wire) \in Seq(Responses)
    BY HeadTyped DEF Readable
  <2>2. message_q' \in Seq(Responses) /\ message_q' # << >>
    BY <2>1, AppendTyped
  <2>3. QueuesTyped' /\ OwnAnswer'
    BY <2>1, <2>2 DEF OwnAnswer
  <2>4. LoopLives'
    BY <2>2 DEF Readable
  <2>5. ASSUME others = 0 PROVE InFlight' /\ pc = "waiting"
    <3>1. PICK kind \in Kinds : wire = <<Own(kind)>>
      BY <2>5 DEF Clear, InFlight, Readable
    <3>2. /\ unsent = {} /\ open = {} /\ message_q = << >> /\ pc = "waiting"
          /\ Head(wire) = Own(kind) /\ Tail(wire) = << >>
      BY <2>5, <3>1 DEF Clear, InFlight, Readable
    <3>3. message_q' = <<Own(kind)>> /\ Own(kind)' = Own(kind)
      BY <3>2 DEF Own
    <3> QED BY <3>2, <3>3 DEF InFlight
  <2>6. OneAtATime'
    BY <2>5
  <2> QED BY <2>3, <2>4, <2>6
<1>3. CASE loop_stop \/ LoopEnds
  <2>1. QueuesTyped' /\ LoopLives' /\ OwnAnswer'
    BY <1>3 DEF loop_stop, LoopEnds, caller, network, OwnAnswer
  <2>2. OneAtATime'
    BY <1>3 DEF loop_stop, LoopEnds, caller, network, Clear, InFlight, Own
  <2> QED BY <2>1, <2>2
<1> QED BY <1>1, <1>2, <1>3

\* Every step of the device, of other clients and of the connection keeps it.
LEMMA EnvironmentStep ==
  ASSUME IInv,
         \/ \E r \in 1..MaxReads, kind \in {"reading", "failed"} : Answer(r, kind)
         \/ \E kind \in Kinds : OtherAnswer(kind)
         \/ Drop \/ Reconnect
  PROVE  IInv'
<1> USE BoundsAssumption DEF IInv, QueuesTyped, LoopLives, OneAtATime
<1>1. ASSUME NEW r \in 1..MaxReads, NEW kind \in {"reading", "failed"}, Answer(r, kind)
      PROVE  IInv'
  <2> USE <1>1 DEF Answer, caller, network
  <2>1. [to |-> r, kind |-> kind, n |-> r] \in Responses
    BY DEF Responses, Kinds
  <2>2. QueuesTyped' /\ LoopLives' /\ OwnAnswer'
    BY <2>1, ArrivesTyped DEF OwnAnswer
  <2>3. ASSUME others = 0 PROVE pc = "waiting" /\ (InFlight' \/ Clear')
    <3>1. /\ unsent = {} /\ open = {asked} /\ wire = << >> /\ message_q = << >>
          /\ pc = "waiting"
      BY <2>3 DEF Clear, InFlight
    <3>2. r = asked /\ open' = {}
      BY <3>1
    <3>3. wire' = <<Own(kind)>> \/ wire' = << >>
      BY <3>1, <3>2 DEF Arrives, Own
    <3>4. Own(kind)' = Own(kind) /\ kind \in Kinds
      BY DEF Own, Kinds
    <3> QED BY <3>1, <3>2, <3>3, <3>4 DEF InFlight, Clear
  <2>4. OneAtATime'
    BY <2>3
  <2> QED BY <2>2, <2>4
<1>2. ASSUME NEW kind \in Kinds, OtherAnswer(kind) PROVE IInv'
  <2> USE <1>2 DEF OtherAnswer, caller
  <2>1. [to |-> 0, kind |-> kind, n |-> MaxReads + others'] \in Responses
    BY DEF Responses
  <2>2. QueuesTyped' /\ LoopLives' /\ others' # 0
    BY <2>1, ArrivesTyped
  <2> QED BY <2>2 DEF OwnAnswer
<1>3. CASE Drop
  <2>1. QueuesTyped' /\ LoopLives' /\ OwnAnswer'
    BY <1>3 DEF Drop, caller, OwnAnswer
  <2>2. OneAtATime'
    BY <1>3 DEF Drop, caller, Clear, InFlight, Own
  <2> QED BY <2>1, <2>2
<1>4. CASE Reconnect
  <2>1. QueuesTyped' /\ LoopLives' /\ OwnAnswer'
    BY <1>4 DEF Reconnect, caller, OwnAnswer
  <2>2. OneAtATime'
    BY <1>4 DEF Reconnect, caller, Clear, InFlight, Own
  <2> QED BY <2>1, <2>2
<1> QED BY <1>1, <1>2, <1>3, <1>4

\* So does a step that leaves everything as it is.
LEMMA NextIInv == IInv /\ [Next]_vars => IInv'
<1> SUFFICES ASSUME IInv, [Next]_vars PROVE IInv'
  OBVIOUS
<1>1. CASE UNCHANGED vars
  <2>1. QueuesTyped' /\ LoopLives' /\ OwnAnswer'
    BY <1>1 DEF vars, caller, network, IInv, QueuesTyped, LoopLives, OwnAnswer
  <2>2. OneAtATime'
    BY <1>1 DEF vars, caller, network, IInv, OneAtATime, Clear, InFlight, Own
  <2> QED BY <2>1, <2>2 DEF IInv
<1>2. CASE Next
  BY <1>2, CallerStep, LoopStep, EnvironmentStep DEF Next
<1> QED BY <1>1, <1>2

\* The invariant of I2C_Sensor and the library's loop.
THEOREM Invariant == Spec => []IInv
<1>1. Init => IInv
  BY InitIInv
<1>2. IInv /\ [Next]_vars => IInv'
  BY NextIInv
<1> QED BY <1>1, <1>2, PTL DEF Spec

\* A client whose device answers no one else reads, each time, the answer to
\* the request it has just made.
THEOREM ClientOwnAnswer == Spec => []OwnAnswer
<1>1. IInv => OwnAnswer
  BY DEF IInv
<1> QED BY <1>1, Invariant, PTL

\* The loop thread is there for the first read until its message is in message_q.
THEOREM ClientFirstReadServed == Spec => []FirstReadServed
<1>1. IInv => FirstReadServed
  BY DEF IInv, LoopLives, FirstReadServed
<1> QED BY <1>1, Invariant, PTL
=============================================================================
