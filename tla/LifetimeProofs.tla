--------------------------- MODULE LifetimeProofs ----------------------------
(* Proofs about Lifetime, for any number of reports and calls. *)
EXTENDS Lifetime, TLAPS

\* What each stage of the destruction relies on: the device goes last, after the
\* job thread has ended and when no member function is being executed.
DestructionOrder ==
  /\ life \in {"device", "gone"} => job = "ended"
  /\ writing[Caller] => life = "used"
  /\ phase = "destroyed" => life = "gone"
  /\ phase = "closing" => life \in {"used", "device"}

\* The callback is over when close() has returned.
QuietClosed == phase \in {"closed", "destroyed"} => ~calling

Inv == TypeOK /\ DestructionOrder /\ QuietClosed

Jobs == {"idle", "send", "stream", "quiet", "sending", "streaming", "ended"}

\* The types of the job queue and of what is posted to it.
QueueType ==
  /\ due \in Seq(Kinds) /\ later \in [Kinds -> Nat]
  /\ starting \in Nat

\* The types of the variables of the device and of the reports.
DeviceType ==
  /\ phase \in {"open", "closing", "closed", "destroyed"}
  /\ calling \in BOOLEAN /\ given \in 0 .. MaxInputs
  /\ writing \in [Writers -> BOOLEAN] /\ sent \in [Writers -> 0 .. 2]
  /\ bit \in [Writers -> BOOLEAN] /\ motor \in BOOLEAN
  /\ rumble \in BOOLEAN

\* Where the threads may be together.
ThreadsOrder ==
  /\ job \in Jobs
  /\ kept \in BOOLEAN
  /\ life \in {"used", "members", "stop", "join", "device", "gone"}
  /\ writing[JobThread] => job \in {"sending", "streaming"}
  /\ DestructionOrder
  /\ QuietClosed

\* The types of what update_reporting_mode() would do.
ModeType == takesLock \in BOOLEAN /\ stuck \in BOOLEAN

\* The invariant is the conjunction of the four groups.
LEMMA InvSplit == Inv <=> QueueType /\ DeviceType /\ ModeType /\ ThreadsOrder
BY DEF Inv, TypeOK, Jobs, QueueType, DeviceType, ModeType, ThreadsOrder

-----------------------------------------------------------------------------

\* The initial states satisfy the invariant.
LEMMA InvInit == Init => Inv
<1> SUFFICES ASSUME Init PROVE Inv
  OBVIOUS
<1>1. QueueType
  BY DEF Init, QueueType
<1>2. DeviceType
  <2>1. /\ 0 \in 0 .. MaxInputs
        /\ writing \in [Writers -> BOOLEAN] /\ sent \in [Writers -> 0 .. 2]
        /\ bit \in [Writers -> BOOLEAN]
    BY BoundsAssumption, SMT DEF Init, Dev!Init
  <2>. QED
    BY <2>1 DEF Init, Dev!Init, DeviceType
<1>3. ThreadsOrder
  BY DEF Init, Dev!Init, ThreadsOrder, Jobs, DestructionOrder, QuietClosed, Writers
<1>4. ModeType
  BY DEF Init, ModeType
<1>. QED
  BY <1>1, <1>2, <1>3, <1>4, InvSplit

\* A job that becomes due, is taken, posted or removed leaves a queue.
LEMMA QueueStep == QueueType /\ [Next]_vars => QueueType'
<1> SUFFICES ASSUME QueueType, [Next]_vars PROVE QueueType'
  OBVIOUS
<1>1. CASE UNCHANGED <<queueVars, starting>>
  BY <1>1 DEF QueueType, queueVars
<1>2. ASSUME NEW k \in Kinds, Schedule(k), UNCHANGED starting
      PROVE  QueueType'
  BY <1>2 DEF QueueType, Schedule
<1>3. ASSUME NEW k \in Kinds, ScheduleLater(k), starting' \in Nat
      PROVE  QueueType'
  BY <1>3 DEF QueueType, ScheduleLater
<1>4. CASE PostJob \/ SetReport \/ CallbackPosts \/ PostNull
  BY <1>2, <1>4 DEF PostJob, SetReport, CallbackPosts, PostNull, Kinds, rumbleVars
<1>5. CASE RumbleFor
  BY <1>5 DEF RumbleFor, RumbleUntil, StartRumble, QueueType, queueVars
<1>6. CASE RumbleForEnds
  <2>1. starting' \in Nat
    BY <1>6 DEF RumbleForEnds, QueueType
  <2>. QED
    BY <1>3, <1>6, <2>1 DEF RumbleForEnds, RumbleUntil, PostQuiet, Kinds
<1>7. ASSUME NEW k \in Kinds, BecomeDue(k)
      PROVE  QueueType'
  BY <1>7 DEF BecomeDue, QueueType, rumbleVars
<1>8. CASE TakeJob
  BY <1>8 DEF TakeJob, QueueType, rumbleVars
<1>9. CASE SendReturns
  <2>1. UNCHANGED starting
    BY <1>9 DEF SendReturns, rumbleVars
  <2>. QED
    BY <1>1, <1>3, <1>9, <2>1 DEF SendReturns, Kinds, QueueType
<1>10. CASE RemoveAll
  BY <1>10 DEF RemoveAll, QueueType, rumbleVars
<1>11. CASE SetRumble \/ SpeakerStream \/ Close \/ CloseReturns
  BY <1>1, <1>11 DEF SetRumble, SpeakerStream, Close, CloseReturns, rumbleVars
<1>12. ASSUME NEW t \in Writers, Transmit(t) \/ EndWrite(t)
       PROVE  QueueType'
  BY <1>1, <1>12 DEF Transmit, EndWrite, rumbleVars
<1>13. CASE Callback \/ CallbackLocks \/ CallbackReturns
  BY <1>1, <1>13 DEF Callback, CallbackLocks, CallbackReturns, rumbleVars
<1>14. CASE RumbleOff \/ StreamOver \/ BeginJobReport
  BY <1>1, <1>14 DEF RumbleOff, StreamOver, BeginJobReport, rumbleVars
<1>15. CASE DestroyState \/ Join \/ CloseOpenDevice \/ DestroyDevice
  BY <1>1, <1>15 DEF DestroyState, Join, CloseOpenDevice, DestroyDevice, rumbleVars
<1>16. CASE Rest \/ UNCHANGED vars
  BY <1>1, <1>16 DEF Rest, vars, rumbleVars
<1>. QED
  BY <1>4, <1>5, <1>6, <1>7, <1>8, <1>9, <1>10, <1>11, <1>12, <1>13, <1>14, <1>15, <1>16
     DEF Next, JobStep, Destruct


\* Reports, callbacks and the stages of close() keep their types.
LEMMA DeviceStep == DeviceType /\ [Next]_vars => DeviceType'
<1> SUFFICES ASSUME DeviceType, [Next]_vars PROVE DeviceType'
  OBVIOUS
<1>1. CASE UNCHANGED <<phase, calling, given, writing, sent, bit, motor, rumble>>
  BY <1>1 DEF DeviceType
<1>2. ASSUME NEW t \in Writers, SendReport(t), UNCHANGED rumble
      PROVE  DeviceType'
  BY <1>2 DEF SendReport, CallWrite, DeviceType
<1>3. CASE SetRumble
  BY <1>3 DEF SetRumble, deviceVars, sendVars, DeviceType
<1>4. CASE RumbleFor \/ RumbleForEnds \/ RumbleOff
  BY <1>4 DEF RumbleFor, RumbleForEnds, RumbleOff, RumbleUntil, StartRumble, PostQuiet,
              deviceVars, sendVars, DeviceType
<1>5. CASE SpeakerStream
  BY <1>2, <1>5 DEF SpeakerStream, Writers, rumbleVars
<1>6. CASE BeginJobReport
  BY <1>2, <1>6 DEF BeginJobReport, Writers, rumbleVars
<1>7. ASSUME NEW t \in Writers, Transmit(t)
      PROVE  DeviceType'
  <2>1. /\ sent[t] \in {0, 1} /\ sent' = [sent EXCEPT ![t] = sent[t] + 1]
        /\ \E more \in BOOLEAN : writing' = [writing EXCEPT ![t] = more]
        /\ motor' = bit[t]
        /\ UNCHANGED <<phase, calling, given, bit, rumble>>
    BY <1>7 DEF Transmit, Dev!Transmit, Dev!input, rumbleVars, DeviceType
  <2>2. sent' \in [Writers -> 0 .. 2] /\ writing' \in [Writers -> BOOLEAN] /\ motor' \in BOOLEAN
    BY <2>1 DEF DeviceType
  <2>. QED
    BY <2>1, <2>2 DEF DeviceType
<1>8. ASSUME NEW t \in Writers, EndWrite(t)
      PROVE  DeviceType'
  BY <1>8 DEF EndWrite, Dev!EndWrite, Dev!input, sendVars, rumbleVars, DeviceType
<1>9. CASE Close \/ CloseReturns \/ CloseOpenDevice \/ DestroyDevice
  BY <1>9 DEF Close, CloseReturns, CloseOpenDevice, DestroyDevice, Dev!BeginClose, Dev!EndClose,
              Dev!input, Dev!output, sendVars, rumbleVars, DeviceType
<1>10. CASE Callback \/ CallbackReturns
  <2>1. /\ given' \in {given, given + 1} /\ (given < MaxInputs \/ given' = given)
        /\ calling' \in BOOLEAN
        /\ UNCHANGED <<phase, writing, sent, bit, motor, rumble>>
    BY <1>10 DEF Callback, CallbackReturns, Dev!Call, Dev!Return, Dev!output, sendVars, rumbleVars
  <2>2. given' \in 0 .. MaxInputs
    BY <2>1, BoundsAssumption DEF DeviceType
  <2>. QED
    BY <2>1, <2>2 DEF DeviceType
<1>11. CASE \/ PostJob \/ SetReport \/ CallbackPosts \/ CallbackLocks
            \/ TakeJob \/ StreamOver \/ SendReturns
  BY <1>1, <1>11 DEF PostJob, SetReport, CallbackPosts, CallbackLocks, TakeJob, StreamOver,
                     SendReturns, deviceVars, sendVars, rumbleVars
<1>12. ASSUME NEW k \in Kinds, BecomeDue(k)
       PROVE  DeviceType'
  BY <1>1, <1>12 DEF BecomeDue, deviceVars, sendVars, rumbleVars
<1>13. CASE RemoveAll \/ DestroyState \/ PostNull \/ Join
  BY <1>1, <1>13 DEF RemoveAll, DestroyState, PostNull, Join, deviceVars, sendVars, rumbleVars
<1>14. CASE Rest \/ UNCHANGED vars
  BY <1>1, <1>14 DEF Rest, vars, deviceVars, sendVars, rumbleVars
<1>. QED
  BY <1>3, <1>4, <1>5, <1>6, <1>7, <1>8, <1>9, <1>10, <1>11, <1>12, <1>13, <1>14
     DEF Next, JobStep, Destruct

\* No thread writes when ~device() begins, and none of the others can begin.
LEMMA ThreadsStep == QueueType /\ DeviceType /\ ThreadsOrder /\ [Next]_vars => ThreadsOrder'
<1> SUFFICES ASSUME QueueType, DeviceType, ThreadsOrder, [Next]_vars PROVE ThreadsOrder'
  OBVIOUS
<1> USE DEF ThreadsOrder, DestructionOrder, QuietClosed, Jobs
<1>1. CASE UNCHANGED <<phase, calling, writing, job, life>> /\ kept' \in BOOLEAN
  BY <1>1
<1>2. CASE PostJob \/ SetReport \/ CallbackPosts \/ CallbackLocks
  BY <1>1, <1>2 DEF PostJob, SetReport, CallbackPosts, CallbackLocks, deviceVars, rumbleVars
<1>3. CASE SetRumble \/ RumbleFor \/ RumbleForEnds
  BY <1>1, <1>3 DEF SetRumble, RumbleFor, RumbleForEnds, RumbleUntil, StartRumble, PostQuiet,
                    deviceVars, sendVars
<1>4. ASSUME NEW k \in Kinds, BecomeDue(k)
      PROVE  ThreadsOrder'
  BY <1>1, <1>4 DEF BecomeDue, deviceVars, rumbleVars
<1>5. CASE TakeJob
  <2>1. ~writing[JobThread] /\ Head(due) \in Kinds
    BY <1>5 DEF TakeJob, QueueType
  <2>2. job' \in Jobs
    BY <1>5, <2>1 DEF TakeJob, Kinds
  <2>3. life \notin {"device", "gone"}
    BY <1>5 DEF TakeJob
  <2>. QED
    BY <1>5, <2>1, <2>2, <2>3 DEF TakeJob, deviceVars, rumbleVars
<1>6. CASE RumbleOff \/ StreamOver \/ SendReturns
  <2>1. /\ job # "ended" /\ job' = "idle" /\ ~writing[JobThread]
        /\ UNCHANGED <<phase, calling, writing, life>> /\ kept' \in BOOLEAN
    BY <1>6 DEF RumbleOff, StreamOver, SendReturns, deviceVars, rumbleVars
  <2>. QED
    BY <2>1
<1>7. CASE BeginJobReport
  <2>1. writing' = [writing EXCEPT ![JobThread] = TRUE] /\ UNCHANGED <<phase, calling, life, kept>>
    BY <1>7 DEF BeginJobReport, SendReport, CallWrite, rumbleVars
  <2>2. writing'[Caller] = writing[Caller] /\ job' \in {"sending", "streaming"} /\ job # "ended"
    BY <1>7, <2>1, ThreadsAssumption DEF BeginJobReport, DeviceType, Writers
  <2>. QED
    BY <2>1, <2>2
<1>8. CASE SpeakerStream
  <2>1. /\ life = "used" /\ writing' = [writing EXCEPT ![Caller] = TRUE]
        /\ UNCHANGED <<phase, calling, life, job, kept>>
    BY <1>8 DEF SpeakerStream, SendReport, CallWrite, rumbleVars
  <2>2. writing'[JobThread] = writing[JobThread]
    BY <2>1, ThreadsAssumption DEF DeviceType, Writers
  <2>. QED
    BY <2>1, <2>2
<1>9. ASSUME NEW t \in Writers, Transmit(t) \/ EndWrite(t)
      PROVE  ThreadsOrder'
  <2>1. /\ UNCHANGED <<phase, calling, life, job, kept>>
        /\ \E more \in BOOLEAN : writing' = [writing EXCEPT ![t] = more]
        /\ writing[t]
    BY <1>9 DEF Transmit, EndWrite, Dev!Transmit, Dev!EndWrite, Dev!input, rumbleVars
  <2>2. \A u \in Writers : writing'[u] => writing[u]
    BY <2>1 DEF DeviceType
  <2>. QED
    BY <2>1, <2>2 DEF Writers
<1>10. CASE Close \/ CloseReturns \/ CloseOpenDevice \/ DestroyDevice
  BY <1>10 DEF Close, CloseReturns, CloseOpenDevice, DestroyDevice, Dev!BeginClose, Dev!EndClose,
               Dev!input, Dev!output, rumbleVars
<1>11. CASE Callback \/ CallbackReturns
  BY <1>11 DEF Callback, CallbackReturns, Dev!Call, Dev!Return, Dev!Alive, Dev!output, rumbleVars
<1>12. CASE RemoveAll \/ DestroyState \/ PostNull \/ Join
  BY <1>12 DEF RemoveAll, DestroyState, PostNull, Join, deviceVars, rumbleVars
<1>13. CASE Rest \/ UNCHANGED vars
  BY <1>1, <1>13 DEF Rest, vars, deviceVars, rumbleVars
<1>. QED
  BY <1>2, <1>3, <1>4, <1>5, <1>6, <1>7, <1>8, <1>9, <1>10, <1>11, <1>12, <1>13
     DEF Next, JobStep, Destruct

\* Only the flags of the application and the callback change what
\* update_reporting_mode() would do.
LEMMA ModeStep == ModeType /\ [Next]_vars => ModeType'
<1> SUFFICES ASSUME ModeType, [Next]_vars PROVE ModeType'
  OBVIOUS
<1>1. CASE UNCHANGED modeVars
  BY <1>1 DEF ModeType, modeVars
<1>2. CASE SetReport \/ CallbackLocks
  BY <1>2 DEF SetReport, CallbackLocks, ModeType
<1>3. CASE \/ PostJob \/ SetRumble \/ RumbleFor \/ RumbleForEnds \/ SpeakerStream
           \/ Close \/ CloseReturns \/ Callback \/ CallbackPosts \/ CallbackReturns
  BY <1>1, <1>3 DEF PostJob, SetRumble, RumbleFor, RumbleForEnds, SpeakerStream, Close,
                    CloseReturns, Callback, CallbackPosts, CallbackReturns
<1>4. ASSUME NEW t \in Writers, Transmit(t) \/ EndWrite(t)
      PROVE  ModeType'
  BY <1>1, <1>4 DEF Transmit, EndWrite
<1>5. ASSUME NEW k \in Kinds, BecomeDue(k)
      PROVE  ModeType'
  BY <1>1, <1>5 DEF BecomeDue
<1>6. CASE JobStep
  BY <1>1, <1>6 DEF JobStep, TakeJob, RumbleOff, BeginJobReport, StreamOver, SendReturns
<1>7. CASE RemoveAll \/ Destruct
  BY <1>1, <1>7 DEF RemoveAll, Destruct, DestroyState, PostNull, Join, CloseOpenDevice,
                    DestroyDevice
<1>8. CASE Rest \/ UNCHANGED vars
  BY <1>1, <1>8 DEF Rest, vars
<1>. QED
  BY <1>2, <1>3, <1>4, <1>5, <1>6, <1>7, <1>8 DEF Next

\* The inductive invariant of the life of a wiimote.
THEOREM Invariance == Spec => []Inv
<1>1. Inv /\ [Next]_vars => Inv'
  <2>1. Inv' <=> QueueType' /\ DeviceType' /\ ModeType' /\ ThreadsOrder'
    BY DEF Inv, TypeOK, Jobs, QueueType, DeviceType, ModeType, ThreadsOrder
  <2>. QED
    BY <2>1, InvSplit, QueueStep, DeviceStep, ModeStep, ThreadsStep
<1>. QED
  BY InvInit, <1>1, PTL DEF Spec

\* The state is well formed, and the job thread is in write() only while it sends.
THEOREM TypeCorrect == Spec => []TypeOK
<1>1. Inv => TypeOK
  BY DEF Inv
<1>. QED
  BY Invariance, <1>1, PTL

-----------------------------------------------------------------------------

\* Every step uses the device as it asks, or leaves it alone.
LEMMA DeviceUse == Inv /\ [Next]_vars => [Dev!Next]_Dev!vars
<1> SUFFICES ASSUME Inv, [Next]_vars PROVE [Dev!Next]_Dev!vars
  OBVIOUS
<1> USE InvSplit
<1>1. CASE UNCHANGED deviceVars
  BY <1>1 DEF deviceVars, Dev!vars, Dev!input, Dev!output
<1>2. ASSUME NEW t \in Writers, CallWrite(t), phase # "destroyed"
      PROVE  Dev!Next
  <2>1. Dev!BeginWrite(t)
    BY <1>2 DEF CallWrite, Dev!BeginWrite, Dev!input
  <2>. QED
    BY <2>1 DEF Dev!Next, Dev!Write
<1>3. CASE SpeakerStream
  <2>1. phase # "destroyed" /\ CallWrite(Caller)
    BY <1>3 DEF SpeakerStream, SendReport, ThreadsOrder, DestructionOrder
  <2>. QED
    BY <1>2, <2>1 DEF Writers
<1>4. CASE BeginJobReport
  <2>1. phase # "destroyed" /\ CallWrite(JobThread)
    BY <1>4 DEF BeginJobReport, SendReport, ThreadsOrder, DestructionOrder
  <2>. QED
    BY <1>2, <2>1 DEF Writers
<1>5. ASSUME NEW t \in Writers, Transmit(t) \/ EndWrite(t)
      PROVE  Dev!Next
  BY <1>5 DEF Transmit, EndWrite, Dev!Next, Dev!Write
<1>6. CASE Close \/ CloseReturns \/ CloseOpenDevice
  BY <1>6 DEF Close, CloseReturns, CloseOpenDevice, Dev!Next
<1>7. CASE Callback \/ CallbackReturns
  BY <1>7 DEF Callback, CallbackReturns, Dev!Next
<1>8. CASE DestroyDevice
  <2>1. \A t \in Writers : ~writing[t]
    BY <1>8 DEF DestroyDevice, ThreadsOrder, DestructionOrder, Writers
  <2>2. Dev!Destroy
    BY <1>8, <2>1 DEF DestroyDevice, Dev!Destroy, Dev!input, Dev!output
  <2>. QED
    BY <2>2 DEF Dev!Next
<1>9. CASE \/ PostJob \/ SetReport \/ SetRumble \/ RumbleFor \/ RumbleForEnds
           \/ CallbackPosts \/ CallbackLocks
  BY <1>1, <1>9 DEF PostJob, SetReport, SetRumble, RumbleFor, RumbleForEnds, CallbackPosts,
                    CallbackLocks
<1>10. ASSUME NEW k \in Kinds, BecomeDue(k)
       PROVE  UNCHANGED deviceVars
  BY <1>10 DEF BecomeDue
<1>11. CASE TakeJob \/ RumbleOff \/ StreamOver \/ SendReturns
  BY <1>1, <1>11 DEF TakeJob, RumbleOff, StreamOver, SendReturns
<1>12. CASE RemoveAll \/ DestroyState \/ PostNull \/ Join
  BY <1>1, <1>12 DEF RemoveAll, DestroyState, PostNull, Join
<1>13. CASE Rest \/ UNCHANGED vars
  BY <1>1, <1>13 DEF Rest, vars
<1>. QED
  BY <1>1, <1>3, <1>4, <1>5, <1>6, <1>7, <1>8, <1>9, <1>10, <1>11, <1>12, <1>13
     DEF Next, JobStep, Destruct

\* The device is destroyed only when nobody writes to it, and no write begins
\* after that.
THEOREM DeviceUsed == Spec => UsesDevice
<1>1. Init => Dev!Init
  BY DEF Init
<1>. QED
  BY <1>1, Invariance, DeviceUse, PTL DEF Spec, UsesDevice, Dev!Spec

\* The device stays closed.
StaysClosed == phase \in {"closed", "destroyed"}

\* Once the device is closed no step opens it again.
LEMMA ClosedStep == StaysClosed /\ [Dev!Next]_Dev!vars => StaysClosed'
BY DEF StaysClosed, Dev!vars, Dev!Next, Dev!Call, Dev!Return, Dev!BeginClose, Dev!EndClose,
       Dev!Destroy, Dev!Write, Dev!BeginWrite, Dev!Transmit, Dev!EndWrite, Dev!Alive

\* The callback is not called any more when the owner has closed the device
\* before it destroys the object.
THEOREM QuietWhenClosedFirst == Spec => ClosedFirstIsSafe
<1>1. Inv => (StaysClosed => ~calling)
  BY DEF Inv, QuietClosed, StaysClosed
<1>2. life = "members" /\ phase = "closed" => StaysClosed
  BY DEF StaysClosed
<1>. QED
  BY <1>1, <1>2, ClosedStep, DeviceUse, Invariance, PTL DEF Spec, ClosedFirstIsSafe

=============================================================================
