------------------------------- MODULE Device --------------------------------
(***************************************************************************)
(* What wio::device promises to wio::wiimote, without the read thread, the *)
(* overlapped structures and the APC: the callback is called with the      *)
(* input reports in order, one at a time, and not after close() has        *)
(* returned; each report that is written reaches the remote at most once,  *)
(* but for one report of each thread, which may reach it twice; the object *)
(* is destroyed when it is closed and nobody writes.                       *)
(* DeviceIO is shown to implement this specification, and Lifetime to use  *)
(* the device as it asks.                                                  *)
(***************************************************************************)
EXTENDS Naturals

CONSTANT Writers  \* threads that call write()

VARIABLES
  phase,    \* "open" "closing" "closed" "destroyed"
  calling,  \* the callback is being called
  given,    \* number of the last input report the callback was called with
  writing,  \* per writer: it is in write()
  sent,     \* per writer: how often its last report was given to the remote
  spent     \* per writer: one of its reports was given to the remote twice

input == <<calling, given>>
output == <<writing, sent, spent>>
vars == <<phase, input, output>>

Init ==
  /\ phase = "open"
  /\ calling = FALSE /\ given = 0
  /\ writing = [t \in Writers |-> FALSE]
  /\ sent = [t \in Writers |-> 0]
  /\ spent = [t \in Writers |-> FALSE]

Alive == phase \in {"open", "closing"}

Call ==
  /\ Alive /\ ~calling
  /\ calling' = TRUE
  /\ given' = given + 1
  /\ UNCHANGED <<phase, output>>

Return ==
  /\ calling
  /\ calling' = FALSE
  /\ UNCHANGED <<phase, given, output>>

BeginClose ==
  /\ phase = "open"
  /\ phase' = "closing"
  /\ UNCHANGED <<input, output>>

EndClose_CallbackRuns ==
  /\ phase = "closing"
  /\ phase' = "closed"
  /\ UNCHANGED <<input, output>>

\* close() returns only when the callback has returned for the last time.
EndClose ==
  /\ phase = "closing" /\ ~calling
  /\ phase' = "closed"
  /\ UNCHANGED <<input, output>>

Destroy ==
  /\ phase = "closed" /\ \A t \in Writers : ~writing[t]
  /\ phase' = "destroyed"
  /\ UNCHANGED <<input, output>>

BeginWrite(t) ==
  /\ phase # "destroyed" /\ ~writing[t]
  /\ writing' = [writing EXCEPT ![t] = TRUE]
  /\ sent' = [sent EXCEPT ![t] = 0]
  /\ UNCHANGED <<phase, input, spent>>

\* The report is given to the remote, and write() may return with that.
Transmit(t) ==
  /\ writing[t] /\ Alive
  /\ sent[t] = 0 \/ (sent[t] = 1 /\ ~spent[t])
  /\ sent' = [sent EXCEPT ![t] = @ + 1]
  /\ spent' = [spent EXCEPT ![t] = @ \/ sent[t] = 1]
  /\ \E more \in BOOLEAN : writing' = [writing EXCEPT ![t] = more]
  /\ UNCHANGED <<phase, input>>

EndWrite(t) ==
  /\ writing[t]
  /\ writing' = [writing EXCEPT ![t] = FALSE]
  /\ UNCHANGED <<phase, input, sent, spent>>

Write(t) == BeginWrite(t) \/ Transmit(t) \/ EndWrite(t)

Next ==
  \/ Call \/ Return
  \/ BeginClose \/ EndClose \/ Destroy
  \/ \E t \in Writers : Write(t)

Spec == Init /\ [][Next]_vars

\* The callback returns, close() does, and so does write().
FairSpec ==
  /\ Spec
  /\ WF_vars(Return)
  /\ WF_vars(EndClose)
  /\ \A t \in Writers : WF_vars(Transmit(t) \/ EndWrite(t))

=============================================================================
