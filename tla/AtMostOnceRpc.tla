--------------------------- MODULE AtMostOnceRpc ---------------------------
(***************************************************************************)
(* What the device promises its clients: a call is answered at most once,  *)
(* only if it was made, by a response of the procedure it named, and a     *)
(* call that was lost is never answered later.  No call is promised an     *)
(* answer: at QoS 0 any of them may be lost, several at once when the      *)
(* connection or the power goes.                                           *)
(***************************************************************************)
EXTENDS Sequences

CONSTANTS Requests, Bodies, NoBody

VARIABLES call,     \* what each request asks for, NoBody before it is made
          open,     \* the requests that may still be answered
          replies   \* the answers given, in order

vars == <<call, open, replies>>

Init ==
  /\ call = [r \in Requests |-> NoBody]
  /\ open = {}
  /\ replies = << >>

Call(r, b) ==
  /\ call[r] = NoBody
  /\ call' = [call EXCEPT ![r] = b]
  /\ open' \in {open, open \cup {r}}      \* lost if the device is not listening
  /\ UNCHANGED replies

Answer(r) ==
  /\ r \in open /\ call[r].type = "request" /\ call[r].case # 0
  /\ open' = open \ {r}
  /\ replies' = Append(replies, [req |-> r, case |-> call[r].case])
  /\ UNCHANGED call

Lose(S) ==
  /\ open' = open \ S
  /\ UNCHANGED <<call, replies>>

Next ==
  \/ \E r \in Requests, b \in Bodies : Call(r, b)
  \/ \E r \in Requests : Answer(r)
  \/ \E S \in SUBSET open : Lose(S)

Spec == Init /\ [][Next]_vars
=============================================================================
