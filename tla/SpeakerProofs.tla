---------------------------- MODULE SpeakerProofs ----------------------------
(***************************************************************************)
(* Proofs about Speaker, for any streams, lengths, rates and bounds: the   *)
(* types, and what is heard while streams do not overlap.  The argument is *)
(* about the one call that is live: at each step of its set-up it is known *)
(* what the job queue and the handler list hold, because each write is     *)
(* waited for before the next report.                                      *)
(***************************************************************************)
EXTENDS Speaker, TLAPS

(* Types *)

Regs == {"none", "a20009", "a20001", "conf", "a20008", "stream"}
Steps == [op : {"enable", "mute", "add", "post", "wait", "unmute", "reset", "schedule"},
          reg : Regs]
Jobs == [due : Nat, stream : Streams, reg : Regs]
Running == [step : {"count", "repost", "clear"}, stream : Streams, size : 1 .. ChunkSize]

\* The samples of a packet are counted from zero, and cleared after it.
NumberInv == current.step \in {"none", "count"} => number = 0

TypeInv ==
  /\ TypeOK
  /\ left \in [Streams -> Nat]
  /\ todo \in [Streams -> Seq(Steps)]
  /\ jobs \in Seq(Jobs)
  /\ current = NotRunning \/ current \in Running
  /\ NumberInv
  /\ conf = [s \in Streams |-> conf[s]]
  /\ speaker = [on |-> speaker.on, muted |-> speaker.muted, conf |-> speaker.conf]

-----------------------------------------------------------------------------
(* Sequences *)

\* What a queue holds after an insertion is still a queue of jobs.
LEMMA InsertType ==
  ASSUME jobs \in Seq(Jobs), NEW j \in Jobs
  PROVE  /\ Insert(j) \in Seq(Jobs)
         /\ jobs = <<>> => Insert(j) = <<j>>
<1> DEFINE n == Len(jobs) + 1
           f == Insert(j)
<1> HIDE DEF Jobs
<1>0. /\ n \in Nat /\ Len(jobs) \in Nat
      /\ \A i \in 1 .. Len(jobs) : jobs[i] \in Jobs
  OBVIOUS
<1>1. f = [i \in 1 .. n |-> f[i]] /\ \A i \in 1 .. n : f[i] \in Jobs
  <2>1. \A i \in 1 .. n : i <= Len(jobs) => jobs[i] \in Jobs
    BY <1>0
  <2>2. \A i \in 1 .. n : i # 1 => jobs[i - 1] \in Jobs
    BY <1>0
  <2>. QED
    BY <2>1, <2>2 DEF Insert
<1>2. f \in Seq(Jobs)
  <2> HIDE DEF n, f
  <2>. QED  BY <1>0, <1>1
<1>3. ASSUME jobs = <<>> PROVE f = <<j>>
  <2>1. f = [i \in 1 .. 1 |-> j]
    BY <1>3 DEF Insert
  <2>. QED  BY <2>1
<1>. QED  BY <1>2, <1>3

\* The steps of a set-up, one by one.
LEMMA SetUpSteps ==
  /\ SetUp \in Seq(Steps)
  /\ Len(SetUp) = 17
  /\ SetUp[1] = Step("enable", "none") /\ SetUp[2] = Step("mute", "none")
  /\ SetUp[3] = Step("add", "a20009") /\ SetUp[4] = Step("post", "a20009")
  /\ SetUp[5] = Step("wait", "a20009")
  /\ SetUp[6] = Step("add", "a20001") /\ SetUp[7] = Step("post", "a20001")
  /\ SetUp[8] = Step("wait", "a20001")
  /\ SetUp[9] = Step("add", "conf") /\ SetUp[10] = Step("post", "conf")
  /\ SetUp[11] = Step("wait", "conf")
  /\ SetUp[12] = Step("unmute", "none")
  /\ SetUp[13] = Step("add", "a20008") /\ SetUp[14] = Step("post", "a20008")
  /\ SetUp[15] = Step("wait", "a20008")
  /\ SetUp[16] = Step("reset", "none") /\ SetUp[17] = Step("schedule", "none")
<1> DEFINE e1 == Step("enable", "none")
           e2 == Step("mute", "none")
           e3 == Step("add", "a20009")
           e4 == Step("post", "a20009")
           e5 == Step("wait", "a20009")
           e6 == Step("add", "a20001")
           e7 == Step("post", "a20001")
           e8 == Step("wait", "a20001")
           e9 == Step("add", "conf")
           e10 == Step("post", "conf")
           e11 == Step("wait", "conf")
           e12 == Step("unmute", "none")
           e13 == Step("add", "a20008")
           e14 == Step("post", "a20008")
           e15 == Step("wait", "a20008")
           e16 == Step("reset", "none")
           e17 == Step("schedule", "none")
           t1 == <<e1, e2>>
           t2 == <<e3, e4, e5>>
           t3 == <<e6, e7, e8>>
           t4 == <<e9, e10, e11>>
           t5 == <<e12>>
           t6 == <<e13, e14, e15>>
           t7 == <<e16, e17>>
           p2 == t1 \o t2
           p3 == p2 \o t3
           p4 == p3 \o t4
           p5 == p4 \o t5
           p6 == p5 \o t6
           p7 == p6 \o t7
<1>1. /\ e1 \in Steps /\ e2 \in Steps /\ e3 \in Steps /\ e4 \in Steps /\ e5 \in Steps
      /\ e6 \in Steps /\ e7 \in Steps /\ e8 \in Steps /\ e9 \in Steps /\ e10 \in Steps /\ e11 \in Steps
      /\ e12 \in Steps /\ e13 \in Steps /\ e14 \in Steps /\ e15 \in Steps /\ e16 \in Steps /\ e17 \in Steps
  <2>1. e1 \in Steps /\ e2 \in Steps /\ e3 \in Steps /\ e4 \in Steps /\ e5 \in Steps
    BY DEF Step, Steps, Regs
  <2>2. e6 \in Steps /\ e7 \in Steps /\ e8 \in Steps /\ e9 \in Steps /\ e10 \in Steps /\ e11 \in Steps
    BY DEF Step, Steps, Regs
  <2>3. e12 \in Steps /\ e13 \in Steps /\ e14 \in Steps /\ e15 \in Steps /\ e16 \in Steps /\ e17 \in Steps
    BY DEF Step, Steps, Regs
  <2>. QED  BY <2>1, <2>2, <2>3
<1>2. SetUp = p7
  BY DEF SetUp, Write
<1> HIDE DEF e1, e2, e3, e4, e5, e6, e7, e8, e9,
             e10, e11, e12, e13, e14, e15, e16, e17, Steps
<1>4. /\ t1 \in Seq(Steps) /\ t2 \in Seq(Steps) /\ t3 \in Seq(Steps)
      /\ t4 \in Seq(Steps) /\ t5 \in Seq(Steps) /\ t6 \in Seq(Steps) /\ t7 \in Seq(Steps)
  BY <1>1
<1>5. /\ Len(t1) = 2 /\ t1[1] = e1 /\ t1[2] = e2
      /\ Len(t2) = 3 /\ t2[1] = e3 /\ t2[2] = e4 /\ t2[3] = e5
      /\ Len(t3) = 3 /\ t3[1] = e6 /\ t3[2] = e7 /\ t3[3] = e8
      /\ Len(t4) = 3 /\ t4[1] = e9 /\ t4[2] = e10 /\ t4[3] = e11
      /\ Len(t5) = 1 /\ t5[1] = e12
      /\ Len(t6) = 3 /\ t6[1] = e13 /\ t6[2] = e14 /\ t6[3] = e15
      /\ Len(t7) = 2 /\ t7[1] = e16 /\ t7[2] = e17
  OBVIOUS
<1> HIDE DEF t1, t2, t3, t4, t5, t6, t7
<1>6. p2 \in Seq(Steps)
  BY <1>4
<1>7. p3 \in Seq(Steps)
  BY <1>4, <1>6
<1>8. p4 \in Seq(Steps)
  BY <1>4, <1>7
<1>9. p5 \in Seq(Steps)
  BY <1>4, <1>8
<1>10. p6 \in Seq(Steps)
  BY <1>4, <1>9
<1>11. p7 \in Seq(Steps)
  BY <1>4, <1>10
<1>12. /\ Len(p2) = Len(t1) + Len(t2)
       /\ \A i \in 1 .. Len(t1) : p2[i] = t1[i]
       /\ \A i \in 1 .. Len(t2) : p2[Len(t1) + i] = t2[i]
  BY <1>4
<1>13. /\ Len(p3) = Len(p2) + Len(t3)
       /\ \A i \in 1 .. Len(p2) : p3[i] = p2[i]
       /\ \A i \in 1 .. Len(t3) : p3[Len(p2) + i] = t3[i]
  <2> HIDE DEF p2
  <2>. QED  BY <1>4, <1>6
<1>14. /\ Len(p4) = Len(p3) + Len(t4)
       /\ \A i \in 1 .. Len(p3) : p4[i] = p3[i]
       /\ \A i \in 1 .. Len(t4) : p4[Len(p3) + i] = t4[i]
  <2> HIDE DEF p3
  <2>. QED  BY <1>4, <1>7
<1>15. /\ Len(p5) = Len(p4) + Len(t5)
       /\ \A i \in 1 .. Len(p4) : p5[i] = p4[i]
       /\ \A i \in 1 .. Len(t5) : p5[Len(p4) + i] = t5[i]
  <2> HIDE DEF p4
  <2>. QED  BY <1>4, <1>8
<1>16. /\ Len(p6) = Len(p5) + Len(t6)
       /\ \A i \in 1 .. Len(p5) : p6[i] = p5[i]
       /\ \A i \in 1 .. Len(t6) : p6[Len(p5) + i] = t6[i]
  <2> HIDE DEF p5
  <2>. QED  BY <1>4, <1>9
<1>17. /\ Len(p7) = Len(p6) + Len(t7)
       /\ \A i \in 1 .. Len(p6) : p7[i] = p6[i]
       /\ \A i \in 1 .. Len(t7) : p7[Len(p6) + i] = t7[i]
  <2> HIDE DEF p6
  <2>. QED  BY <1>4, <1>10
<1> HIDE DEF p2, p3, p4, p5, p6, p7
<1>18. /\ Len(p2) = 5 /\ \A i \in 1 .. 2 : p2[i] = t1[i]
       /\ p2[3] = e3 /\ p2[4] = e4 /\ p2[5] = e5
  <2>1. p2[2 + 1] = e3 /\ p2[2 + 2] = e4 /\ p2[2 + 3] = e5
    BY <1>5, <1>12
  <2>. QED  BY <1>5, <1>12, <2>1
<1>19. /\ Len(p3) = 8 /\ \A i \in 1 .. 5 : p3[i] = p2[i]
       /\ p3[6] = e6 /\ p3[7] = e7 /\ p3[8] = e8
  <2>1. p3[5 + 1] = e6 /\ p3[5 + 2] = e7 /\ p3[5 + 3] = e8
    BY <1>5, <1>18, <1>13
  <2>. QED  BY <1>5, <1>18, <1>13, <2>1
<1>20. /\ Len(p4) = 11 /\ \A i \in 1 .. 8 : p4[i] = p3[i]
       /\ p4[9] = e9 /\ p4[10] = e10 /\ p4[11] = e11
  <2>1. p4[8 + 1] = e9 /\ p4[8 + 2] = e10 /\ p4[8 + 3] = e11
    BY <1>5, <1>19, <1>14
  <2>. QED  BY <1>5, <1>19, <1>14, <2>1
<1>21. /\ Len(p5) = 12 /\ \A i \in 1 .. 11 : p5[i] = p4[i]
       /\ p5[12] = e12
  <2>1. p5[11 + 1] = e12
    BY <1>5, <1>20, <1>15
  <2>. QED  BY <1>5, <1>20, <1>15, <2>1
<1>22. /\ Len(p6) = 15 /\ \A i \in 1 .. 12 : p6[i] = p5[i]
       /\ p6[13] = e13 /\ p6[14] = e14 /\ p6[15] = e15
  <2>1. p6[12 + 1] = e13 /\ p6[12 + 2] = e14 /\ p6[12 + 3] = e15
    BY <1>5, <1>21, <1>16
  <2>. QED  BY <1>5, <1>21, <1>16, <2>1
<1>23. /\ Len(p7) = 17 /\ \A i \in 1 .. 15 : p7[i] = p6[i]
       /\ p7[16] = e16 /\ p7[17] = e17
  <2>1. p7[15 + 1] = e16 /\ p7[15 + 2] = e17
    BY <1>5, <1>22, <1>17
  <2>. QED  BY <1>5, <1>22, <1>17, <2>1
<1>24. SetUp \in Seq(Steps) /\ Len(SetUp) = 17
  BY <1>2, <1>11, <1>23
<1>25. SetUp[1] = e1 /\ SetUp[2] = e2 /\ SetUp[3] = e3 /\ SetUp[4] = e4 /\ SetUp[5] = e5
  BY <1>2, <1>5, <1>18, <1>19, <1>20, <1>21, <1>22, <1>23
<1>26. SetUp[6] = e6 /\ SetUp[7] = e7 /\ SetUp[8] = e8 /\ SetUp[9] = e9 /\ SetUp[10] = e10 /\ SetUp[11] = e11
  BY <1>2, <1>5, <1>18, <1>19, <1>20, <1>21, <1>22, <1>23
<1>27. SetUp[12] = e12 /\ SetUp[13] = e13 /\ SetUp[14] = e14 /\ SetUp[15] = e15 /\ SetUp[16] = e16 /\ SetUp[17] = e17
  BY <1>2, <1>5, <1>18, <1>19, <1>20, <1>21, <1>22, <1>23
<1>. QED
  BY <1>24, <1>25, <1>26, <1>27, Zenon DEF e1, e2, e3, e4, e5, e6, e7, e8, e9,
              e10, e11, e12, e13, e14, e15, e16, e17

\* A step of a call is taken off what the call has left.
LEMMA TakesType ==
  ASSUME todo \in [Streams -> Seq(Steps)], NEW s \in Streams, NEW op, Takes(s, op)
  PROVE  /\ todo' \in [Streams -> Seq(Steps)]
         /\ Head(todo[s]) \in Steps /\ Head(todo[s]).op = op
<1> HIDE DEF Steps
<1>1. \A q \in Seq(Steps) : q # <<>> => Tail(q) \in Seq(Steps) /\ Head(q) \in Steps
  OBVIOUS
<1>2. todo[s] \in Seq(Steps) /\ todo[s] # <<>> /\ todo' = [todo EXCEPT ![s] = Tail(@)]
  BY DEF Takes
<1>3. Tail(todo[s]) \in Seq(Steps) /\ Head(todo[s]) \in Steps
  BY <1>1, <1>2
<1>. QED
  BY <1>2, <1>3 DEF Takes

\* A queue of jobs has typed entries, also without its first one and later on.
LEMMA QueueType ==
  ASSUME jobs \in Seq(Jobs)
  PROVE  /\ \A i \in DOMAIN jobs : jobs[i].stream \in Streams /\ jobs[i].due \in Nat
         /\ jobs # <<>> => Head(jobs) \in Jobs /\ Tail(jobs) \in Seq(Jobs)
         /\ Tick => jobs' \in Seq(Jobs)
<1>1. \A j \in Jobs : j.stream \in Streams /\ j.due \in Nat /\ j.reg \in Regs
  BY DEF Jobs
<1>2. \A j \in Jobs : [j EXCEPT !.due = IF @ > 0 THEN @ - 1 ELSE 0] \in Jobs
  BY DEF Jobs
<1> HIDE DEF Jobs
<1>3. /\ \A i \in 1 .. Len(jobs) : jobs[i] \in Jobs
      /\ Len(jobs) \in Nat /\ DOMAIN jobs = 1 .. Len(jobs)
  OBVIOUS
<1>4. jobs # <<>> => Head(jobs) \in Jobs /\ Tail(jobs) \in Seq(Jobs)
  OBVIOUS
<1>5. ASSUME Tick PROVE jobs' \in Seq(Jobs)
  <2> DEFINE later(j) == [j EXCEPT !.due = IF @ > 0 THEN @ - 1 ELSE 0]
  <2>1. jobs' = [i \in 1 .. Len(jobs) |-> later(jobs[i])]
    BY <1>3, <1>5 DEF Tick
  <2>2. \A i \in 1 .. Len(jobs) : later(jobs[i]) \in Jobs
    BY <1>2, <1>3
  <2>3. jobs' \in [1 .. Len(jobs) -> Jobs]
    BY <2>1, <2>2, Zenon
  <2>. QED  BY <1>3, <2>3
<1>. QED
  BY <1>1, <1>3, <1>4, <1>5

\* The types of the queue are all that TypeOK says of it.
LEMMA QueueTypeNext ==
  ASSUME jobs' \in Seq(Jobs)
  PROVE  \A i \in DOMAIN jobs' : jobs'[i].stream \in Streams /\ jobs'[i].due \in Nat
<1>1. \A j \in Jobs : j.stream \in Streams /\ j.due \in Nat
  BY DEF Jobs
<1> HIDE DEF Jobs
<1>. QED
  BY <1>1

-----------------------------------------------------------------------------
(* Type correctness *)

\* The initial states have the types.
LEMMA TypeInit == Init => TypeInv
<1> SUFFICES ASSUME Init PROVE TypeInv
  OBVIOUS
<1> USE DEF Init
<1>1. /\ left \in [Streams -> Nat] /\ \A s \in Streams : left[s] \in 0 .. Length[s]
      /\ jobs \in Seq(Jobs) /\ handlers \in Seq(Streams)
      /\ \A i \in DOMAIN jobs : jobs[i].stream \in Streams /\ jobs[i].due \in Nat
  BY LengthAssumption
<1>2. todo \in [Streams -> Seq(Steps)]
  OBVIOUS
<1>3. TypeOK
  BY <1>1, BoundsAssumption, RatesAssumption DEF TypeOK, ChunkSize
<1>4. current = NotRunning /\ NumberInv
  BY DEF NumberInv
<1>5. conf = [s \in Streams |-> conf[s]]
  OBVIOUS
<1>6. speaker = [on |-> speaker.on, muted |-> speaker.muted, conf |-> speaker.conf]
  OBVIOUS
<1>. QED
  BY <1>1, <1>2, <1>3, <1>4, <1>5, <1>6 DEF TypeInv

\* A delay is a number of milliseconds.
LEMMA DelayType == TypeInv => Delay(number, rate) \in Nat
<1> SUFFICES ASSUME TypeInv PROVE Delay(number, rate) \in Nat
  OBVIOUS
<1>1. number \in Nat /\ rate \in Nat \ {0}
  <2>1. number \in 0 .. 2 * ChunkSize /\ rate \in Rates
    BY DEF TypeInv, TypeOK
  <2>. QED  BY <2>1, RatesAssumption DEF ChunkSize
<1>2. number * 1000 \in Nat
  BY <1>1
<1>3. (number * 1000) \div rate \in Nat
  BY <1>1, <1>2
<1>. QED  BY <1>3 DEF Delay, Slack

\* Every step keeps the types.
LEMMA TypeNext == TypeInv /\ [Next]_vars => TypeInv'
<1> SUFFICES ASSUME TypeInv, [Next]_vars PROVE TypeInv'
  OBVIOUS
<1> USE DEF settings, callVars, remoteVars
<1>q. jobs' \in Seq(Jobs) =>
        \A i \in DOMAIN jobs' : jobs'[i].stream \in Streams /\ jobs'[i].due \in Nat
  BY QueueTypeNext
<1>r. current.step # "none" => current # NotRunning
  <2>1. NotRunning.step = "none"
    BY DEF NotRunning
  <2>. QED  BY <2>1
<1>1. CASE UNCHANGED vars
  BY <1>1 DEF vars, TypeInv, TypeOK, NumberInv
<1>2. ASSUME NEW f \in Formats, NEW r \in Rates, Change(f, r) PROVE TypeInv'
  <2>1. changes' \in 0 .. MaxChanges
    BY <1>2, BoundsAssumption DEF Change, TypeInv, TypeOK
  <2>2. calm' \in BOOLEAN
    BY <1>2 DEF Change
  <2>. QED
    BY <1>2, <2>1, <2>2 DEF Change, TypeInv, TypeOK, NumberInv
<1>3. ASSUME NEW s \in Streams, SpeakerStream(s) PROVE TypeInv'
  <2>1. todo' \in [Streams -> Seq(Steps)]
    BY <1>3, SetUpSteps DEF SpeakerStream, TypeInv
  <2>2. phase' \in [Streams -> {"idle", "setup", "playing", "over"}]
    BY <1>3 DEF SpeakerStream, TypeInv, TypeOK
  <2>3. calm' \in BOOLEAN
    BY <1>3 DEF SpeakerStream
  <2>. QED
    BY <1>3, <2>1, <2>2, <2>3 DEF SpeakerStream, TypeInv, TypeOK, NumberInv
<1>4. ASSUME NEW s \in Streams, CallStep(s) PROVE TypeInv'
  <2>1. ASSUME NEW op, Takes(s, op)
        PROVE  todo' \in [Streams -> Seq(Steps)] /\ Head(todo[s]) \in Steps
    BY <2>1, TakesType DEF TypeInv
  <2>2. CASE EnableSpeaker(s)
    BY <2>1, <2>2 DEF EnableSpeaker, TypeInv, TypeOK, NumberInv
  <2>3. CASE Mute(s)
    BY <2>1, <2>3 DEF Mute, TypeInv, TypeOK, NumberInv
  <2>4. CASE AddHandler(s)
    <3>1. handlers' \in Seq(Streams)
      BY <2>4 DEF AddHandler, TypeInv, TypeOK
    <3>2. conf' = [o \in Streams |-> conf'[o]]
      BY <2>4 DEF AddHandler, TypeInv
    <3>. QED
      BY <2>1, <2>4, <3>1, <3>2 DEF AddHandler, TypeInv, TypeOK, NumberInv
  <2>5. CASE PostWrite(s)
    <3>1. [due |-> 0, stream |-> s, reg |-> Head(todo[s]).reg] \in Jobs
      BY <2>1, <2>5 DEF PostWrite, Jobs, Steps
    <3>2. jobs' \in Seq(Jobs)
      BY <2>5, <3>1, InsertType DEF PostWrite, TypeInv
    <3>. QED
      BY <2>1, <2>5, <3>2, <1>q DEF PostWrite, TypeInv, TypeOK, NumberInv
  <2>6. CASE AwaitAck(s)
    BY <2>1, <2>6 DEF AwaitAck, TypeInv, TypeOK, NumberInv
  <2>7. CASE ResetNumber(s)
    <3>1. number' \in 0 .. 2 * ChunkSize
      BY <2>7 DEF ResetNumber, ChunkSize
    <3>. QED
      BY <2>1, <2>7, <3>1 DEF ResetNumber, TypeInv, TypeOK, NumberInv
  <2>8. CASE Schedule(s)
    <3>1. [due |-> 0, stream |-> s, reg |-> "stream"] \in Jobs
      BY DEF Jobs, Regs
    <3>2. jobs' \in Seq(Jobs)
      BY <2>8, <3>1, InsertType DEF Schedule, TypeInv
    <3>3. phase' \in [Streams -> {"idle", "setup", "playing", "over"}]
      BY <2>8 DEF Schedule, TypeInv, TypeOK
    <3>. QED
      BY <2>1, <2>8, <3>2, <3>3, <1>q DEF Schedule, TypeInv, TypeOK, NumberInv
  <2>. QED
    BY <1>4, <2>2, <2>3, <2>4, <2>5, <2>6, <2>7, <2>8 DEF CallStep
<1>5. ASSUME TakeJob PROVE jobs' \in Seq(Jobs) /\ Head(jobs) \in Jobs /\ Head(jobs).stream \in Streams
  <2>1. Head(jobs) \in Jobs /\ Tail(jobs) \in Seq(Jobs)
    BY <1>5, QueueType DEF TakeJob, TypeInv
  <2>. QED
    BY <1>5, <2>1 DEF TakeJob, Jobs
<1>6. CASE SendWrite
  <2>1. handlers' \in Seq(Streams)
    BY <1>6 DEF SendWrite, TypeInv, TypeOK
  <2>2. speaker' = [on |-> speaker'.on, muted |-> speaker'.muted, conf |-> speaker'.conf]
    BY <1>6 DEF SendWrite, TypeInv
  <2>. QED
    BY <1>5, <1>6, <1>q, <2>1, <2>2 DEF SendWrite, TypeInv, TypeOK, NumberInv
<1>7. CASE EndStream
  <2>1. phase' \in [Streams -> {"idle", "setup", "playing", "over"}]
    BY <1>7 DEF EndStream, TypeInv, TypeOK
  <2>. QED
    BY <1>5, <1>7, <1>q, <2>1 DEF EndStream, TypeInv, TypeOK, NumberInv
<1>8. CASE SendChunk
  <2> DEFINE s == Head(jobs).stream
             size == IF left[s] < ChunkSize THEN left[s] ELSE ChunkSize
  <2>1. TakeJob /\ s \in Streams /\ jobs' \in Seq(Jobs)
    BY <1>5, <1>8 DEF SendChunk
  <2>2. /\ size \in 1 .. ChunkSize /\ left[s] \in Nat /\ left[s] - size \in 0 .. left[s]
        /\ left[s] \in 0 .. Length[s] /\ Length[s] \in Nat
    <3>1. left[s] \in Nat /\ left[s] \in 0 .. Length[s] /\ Length[s] \in Nat
      BY <2>1, LengthAssumption DEF TypeInv, TypeOK
    <3>2. size > 0
      BY <1>8 DEF SendChunk
    <3> HIDE DEF s
    <3>. QED  BY <3>1, <3>2 DEF ChunkSize
  <2>3. left' = [left EXCEPT ![s] = @ - size]
    BY <1>8 DEF SendChunk
  <2>4. left' \in [Streams -> Nat] /\ \A o \in Streams : left'[o] \in 0 .. Length[o]
    <3> HIDE DEF s, size
    <3>. QED  BY <2>1, <2>2, <2>3 DEF TypeInv, TypeOK
  <2>5. current' \in Running /\ current'.step = "count"
    BY <1>8, <2>1, <2>2 DEF SendChunk, Running
  <2>6. number = 0
    BY <2>1 DEF TakeJob, NotRunning, TypeInv, NumberInv
  <2>7. since' \in 0 .. MaxSince
    BY <1>8, BoundsAssumption DEF SendChunk
  <2>. QED
    BY <1>8, <1>q, <2>1, <2>4, <2>5, <2>6, <2>7 DEF SendChunk, TypeInv, TypeOK, NumberInv
<1>9. CASE Count
  <2>1. current \in Running /\ number = 0
    BY <1>9, <1>r DEF Count, TypeInv, NumberInv
  <2>2. number' \in 0 .. 2 * ChunkSize
    BY <1>9, <2>1 DEF Count, Samples, Running, ChunkSize
  <2>3. current' \in Running /\ current'.step = "repost"
    BY <1>9, <2>1 DEF Count, Running
  <2>. QED
    BY <1>9, <2>2, <2>3 DEF Count, TypeInv, TypeOK, NumberInv
<1>10. CASE Repost
  <2>1. current \in Running
    BY <1>10, <1>r DEF Repost, TypeInv
  <2>2. Delay(number, rate) \in Nat
    BY DelayType
  <2>3. [due |-> Delay(number, rate), stream |-> current.stream, reg |-> "stream"] \in Jobs
    BY <2>1, <2>2 DEF Jobs, Running, Regs
  <2>4. jobs' \in Seq(Jobs)
    BY <1>10, <2>3, InsertType DEF Repost, TypeInv
  <2>5. current' \in Running /\ current'.step = "clear"
    BY <1>10, <2>1 DEF Repost, Running
  <2>. QED
    BY <1>10, <1>q, <2>4, <2>5 DEF Repost, TypeInv, TypeOK, NumberInv
<1>11. CASE Clear
  <2>1. number' = 0 /\ number' \in 0 .. 2 * ChunkSize
    BY <1>11 DEF Clear, ChunkSize
  <2>. QED
    BY <1>11, <2>1 DEF Clear, TypeInv, TypeOK, NumberInv
<1>12. CASE Tick
  <2>1. jobs' \in Seq(Jobs)
    BY <1>12, QueueType DEF TypeInv
  <2>2. since' \in 0 .. MaxSince
    BY <1>12, BoundsAssumption DEF Tick, TypeInv, TypeOK
  <2>. QED
    BY <1>12, <1>q, <2>1, <2>2 DEF Tick, TypeInv, TypeOK, NumberInv
<1>. QED
  <2>1. fmt \in Formats /\ rate \in Rates
    BY DEF TypeInv, TypeOK
  <2>. QED
    BY <1>1, <1>2, <1>3, <1>4, <1>6, <1>7, <1>8, <1>9, <1>10, <1>11, <1>12, <2>1
       DEF Next, JobStep, SetSpeakerRate, SetSpeakerFormat

\* Every state has the types, whatever the streams and settings; in particular
\* speaker_sample_number counts no more than one packet.
THEOREM TypeCorrect == Spec => []TypeOK
<1>1. TypeInv => TypeOK
  BY DEF TypeInv
<1>. QED
  BY TypeInit, TypeNext, <1>1, PTL DEF Spec

-----------------------------------------------------------------------------
(* What is heard *)

\* What is left of a set-up at its step k, and the steps that wait for the queue.
Rest(k) == [i \in 1 .. 18 - k |-> SetUp[k + i - 1]]
Adds == {3, 6, 9, 13}
Posts == {4, 7, 10, 14}
Waits == {5, 8, 11, 15}

Alone(s) == /\ Live(s)
            /\ \A o \in Streams : o # s => ~Live(o) /\ todo[o] = <<>>
EmptyQueue == handlers = <<>> /\ jobs = <<>>
OneJob(s, reg) == Len(jobs) = 1 /\ jobs[1].stream = s /\ jobs[1].reg = reg
Configured(s) == conf[s] = [fmt |-> fmt, divisor |-> Divisor(rate)]

\* No call is live: nothing is left in the queue of the streams before.
Quiet ==
  /\ \A s \in Streams : ~Live(s) /\ todo[s] = <<>>
  /\ EmptyQueue /\ current = NotRunning

\* The call of s is the only one and at step k of its set-up: the write of the
\* step is in the queue or done, and no other is.
SettingUp(s, k) ==
  /\ Alone(s) /\ phase[s] = "setup"
  /\ todo[s] = Rest(k)
  /\ current = NotRunning
  /\ k \in Posts => handlers = <<s>> /\ jobs = <<>>
  /\ k \in Waits => EmptyQueue \/ (handlers = <<s>> /\ OneJob(s, SetUp[k].reg))
  /\ k \notin Posts /\ k \notin Waits => EmptyQueue
  /\ k >= 2 => speaker.on = TRUE
  /\ k \in 3 .. 12 => speaker.muted = TRUE
  /\ k >= 13 => speaker.muted = FALSE
  /\ k >= 10 => Configured(s)
  /\ k >= 12 \/ (k = 11 /\ jobs = <<>>) => speaker.conf = conf[s]

\* The stream of s is the only one and is being played: exactly one job of it is
\* in the queue or being executed.
Playing(s) ==
  /\ Alone(s) /\ phase[s] = "playing"
  /\ todo[s] = <<>> /\ handlers = <<>>
  /\ \/ current = NotRunning /\ OneJob(s, "stream")
     \/ current # NotRunning /\ current.step \in {"count", "repost"} /\ jobs = <<>>
     \/ current # NotRunning /\ current.step = "clear" /\ OneJob(s, "stream")
  /\ current # NotRunning => current.stream = s
  /\ speaker.on = TRUE /\ speaker.muted = FALSE
  /\ speaker.conf = conf[s] /\ Configured(s)

CalmInv ==
  calm => \/ Quiet
          \/ \E s \in Streams, k \in 1 .. 17 : SettingUp(s, k)
          \/ \E s \in Streams : Playing(s)

\* What a set-up does at each step, and what is left after it.
LEMMA SetUpOrder ==
  /\ \A k \in 1 .. 17 : /\ Rest(k) # <<>> /\ Head(Rest(k)) = SetUp[k]
                        /\ Tail(Rest(k)) = Rest(k + 1)
                        /\ Rest(k)[1] = SetUp[k] /\ 1 \in DOMAIN Rest(k)
  /\ Rest(1) = SetUp /\ Rest(18) = <<>>
<1>1. SetUp \in Seq(Steps) /\ Len(SetUp) = 17
  BY SetUpSteps
<1>2. SetUp = [i \in 1 .. 17 |-> SetUp[i]] /\ \A i \in 1 .. 17 : SetUp[i] \in Steps
  <2> HIDE DEF Steps
  <2>. QED  BY <1>1
<1>3. ASSUME NEW k \in 1 .. 17
      PROVE  /\ Rest(k) # <<>> /\ Head(Rest(k)) = SetUp[k]
             /\ Tail(Rest(k)) = Rest(k + 1)
             /\ Rest(k)[1] = SetUp[k] /\ 1 \in DOMAIN Rest(k)
  <2> DEFINE f == Rest(k)
             g == Rest(k + 1)
             n == 18 - k
  <2>1. n \in Nat /\ n >= 1 /\ n - 1 = 18 - (k + 1)
    OBVIOUS
  <2>2. \A i \in 1 .. n : k + i - 1 \in 1 .. 17
    OBVIOUS
  <2>3. f = [i \in 1 .. n |-> SetUp[k + i - 1]] /\ g = [i \in 1 .. n - 1 |-> SetUp[k + 1 + i - 1]]
    BY <2>1 DEF Rest
  <2>4. f \in [1 .. n -> Steps]
    <3> HIDE DEF f, n, Steps
    <3>. QED  BY <1>2, <2>2, <2>3
  <2>5. f[1] = SetUp[k] /\ \A i \in 1 .. n - 1 : f[i + 1] = g[i]
    <3> HIDE DEF f, g
    <3>. QED  BY <2>1, <2>3
  <2>6. g = [i \in 1 .. n - 1 |-> g[i]]
    BY <2>3
  <2> HIDE DEF f, g, n, Steps
  <2>7. f \in Seq(Steps)
    BY <2>1, <2>4
  <2>8. Len(f) = n /\ DOMAIN f = 1 .. n
    BY <2>1, <2>4
  <2>9. f # <<>> /\ Head(f) = f[1]
    BY <2>1, <2>7, <2>8
  <2>10. /\ Tail(f) \in Seq(Steps) /\ Len(Tail(f)) = Len(f) - 1
         /\ \A i \in 1 .. Len(Tail(f)) : Tail(f)[i] = f[i + 1]
    BY <2>7, <2>9
  <2>11. Tail(f) = g
    <3> DEFINE t == Tail(f)
    <3>0. \A q \in Seq(Steps) : q = [i \in 1 .. Len(q) |-> q[i]]
      OBVIOUS
    <3>1. t = [i \in 1 .. Len(t) |-> t[i]]
      BY <2>10, <3>0
    <3> HIDE DEF t
    <3>. QED  BY <2>5, <2>6, <2>8, <2>10, <3>1 DEF t
  <2>. QED
    BY <2>1, <2>5, <2>8, <2>9, <2>11 DEF f, g
<1>4. Rest(1) = SetUp
  <2>1. Rest(1) = [i \in 1 .. 17 |-> SetUp[i]]
    BY DEF Rest
  <2>. QED  BY <1>2, <2>1
<1>5. Rest(18) = <<>>
  BY DEF Rest
<1>. QED
  BY <1>3, <1>4, <1>5

\* The operation and the register of each step of a set-up.
LEMMA SetUpFields ==
  /\ SetUp[1].op = "enable" /\ SetUp[1].reg = "none"
  /\ SetUp[2].op = "mute" /\ SetUp[2].reg = "none"
  /\ SetUp[3].op = "add" /\ SetUp[3].reg = "a20009"
  /\ SetUp[4].op = "post" /\ SetUp[4].reg = "a20009"
  /\ SetUp[5].op = "wait" /\ SetUp[5].reg = "a20009"
  /\ SetUp[6].op = "add" /\ SetUp[6].reg = "a20001"
  /\ SetUp[7].op = "post" /\ SetUp[7].reg = "a20001"
  /\ SetUp[8].op = "wait" /\ SetUp[8].reg = "a20001"
  /\ SetUp[9].op = "add" /\ SetUp[9].reg = "conf"
  /\ SetUp[10].op = "post" /\ SetUp[10].reg = "conf"
  /\ SetUp[11].op = "wait" /\ SetUp[11].reg = "conf"
  /\ SetUp[12].op = "unmute" /\ SetUp[12].reg = "none"
  /\ SetUp[13].op = "add" /\ SetUp[13].reg = "a20008"
  /\ SetUp[14].op = "post" /\ SetUp[14].reg = "a20008"
  /\ SetUp[15].op = "wait" /\ SetUp[15].reg = "a20008"
  /\ SetUp[16].op = "reset" /\ SetUp[16].reg = "none"
  /\ SetUp[17].op = "schedule" /\ SetUp[17].reg = "none"
  BY SetUpSteps DEF Step

\* The kind of operation decides the step, but for the four writes.
LEMMA SetUpOperations ==
  ASSUME NEW k \in 1 .. 17
  PROVE  /\ SetUp[k].op = "enable" <=> k = 1
         /\ SetUp[k].op = "mute" <=> k = 2
         /\ SetUp[k].op = "add" <=> k \in Adds
         /\ SetUp[k].op = "post" <=> k \in Posts
         /\ SetUp[k].op = "wait" <=> k \in Waits
         /\ SetUp[k].op = "unmute" <=> k = 12
         /\ SetUp[k].op = "reset" <=> k = 16
         /\ SetUp[k].op = "schedule" <=> k = 17
  BY SetUpFields, SMTT(60) DEF Adds, Posts, Waits

\* The registers that are written, at the steps that write them.
LEMMA SetUpRegisters ==
  ASSUME NEW k \in 1 .. 17
  PROVE  /\ SetUp[k].reg = "conf" <=> k \in {9, 10, 11}
         /\ SetUp[k].reg = "a20001" <=> k \in {6, 7, 8}
         /\ SetUp[k].reg # "stream"
         /\ k \in Posts => SetUp[k + 1].reg = SetUp[k].reg
<1>1. k \in Posts => SetUp[k + 1].reg = SetUp[k].reg
  BY SetUpFields DEF Posts
<1>. QED
  BY <1>1, SetUpFields

\* In these states the property holds.
LEMMA CalmImplies == CalmInv => HeardAsConfigured
<1> SUFFICES ASSUME CalmInv, calm, NEW s \in Streams, Live(s),
                    \A i \in DOMAIN todo[s] : todo[s][i].op \notin {"enable", "mute"}
             PROVE  /\ speaker.on
                    /\ phase[s] = "playing" => ~speaker.muted
                    /\ ~speaker.muted => speaker.conf = conf[s] /\ Configured(s)
  BY DEF HeardAsConfigured, Configured
<1>1. CASE Quiet
  BY <1>1 DEF Quiet
<1>2. ASSUME NEW o \in Streams, NEW k \in 1 .. 17, SettingUp(o, k)
      PROVE  /\ speaker.on
             /\ phase[s] = "playing" => ~speaker.muted
             /\ ~speaker.muted => speaker.conf = conf[s] /\ Configured(s)
  <2>1. s = o /\ phase[s] = "setup" /\ todo[s] = Rest(k)
    BY <1>2 DEF SettingUp, Alone
  <2>2. SetUp[k].op \notin {"enable", "mute"}
    <3>1. Rest(k)[1] = SetUp[k] /\ 1 \in DOMAIN Rest(k)
      BY SetUpOrder, Zenon
    <3>. QED  BY <2>1, <3>1, Zenon
  <2>3. k # 1 /\ k # 2
    BY <2>2, SetUpOperations
  <2>4. CASE k \in 3 .. 12
    BY <1>2, <2>1, <2>4 DEF SettingUp
  <2>5. CASE k >= 13
    BY <1>2, <2>1, <2>5 DEF SettingUp
  <2>. QED
    BY <2>3, <2>4, <2>5
<1>3. ASSUME NEW o \in Streams, Playing(o)
      PROVE  /\ speaker.on
             /\ phase[s] = "playing" => ~speaker.muted
             /\ ~speaker.muted => speaker.conf = conf[s] /\ Configured(s)
  <2>1. s = o
    BY <1>3 DEF Playing, Alone
  <2>. QED
    BY <1>3, <2>1 DEF Playing
<1>. QED
  BY <1>1, <1>2, <1>3 DEF CalmInv

\* The only job of the queue, when it is taken and as time passes.
LEMMA OnlyJob ==
  ASSUME jobs \in Seq(Jobs)
  PROVE  /\ \A s, reg : OneJob(s, reg) =>
              /\ Head(jobs).stream = s /\ Head(jobs).reg = reg
              /\ jobs # <<>> /\ Tail(jobs) = <<>>
              /\ Tick => OneJob(s, reg)'
         /\ jobs = <<>> /\ Tick => jobs' = <<>>
<1>1. ASSUME NEW s, NEW reg, OneJob(s, reg)
      PROVE  /\ Head(jobs).stream = s /\ Head(jobs).reg = reg
             /\ jobs # <<>> /\ Tail(jobs) = <<>>
  <2> HIDE DEF Jobs
  <2>1. Len(jobs) = 1 /\ jobs[1].stream = s /\ jobs[1].reg = reg
    BY <1>1 DEF OneJob
  <2>2. Head(jobs) = jobs[1] /\ jobs # <<>>
    <3>1. \A q \in Seq(Jobs) : Len(q) # 0 => q # <<>> /\ Head(q) = q[1]
      OBVIOUS
    <3>2. Len(jobs) # 0
      BY <2>1
    <3>. QED  BY <3>1, <3>2
  <2>3. Tail(jobs) \in Seq(Jobs) /\ Len(Tail(jobs)) = Len(jobs) - 1
    <3>1. jobs # <<>> => Tail(jobs) \in Seq(Jobs) /\ Len(Tail(jobs)) = Len(jobs) - 1
      OBVIOUS
    <3>. QED  BY <2>2, <3>1
  <2>4. Tail(jobs) = <<>>
    <3> DEFINE t == Tail(jobs)
    <3>1. t \in Seq(Jobs) /\ Len(t) = 0
      BY <2>1, <2>3
    <3> HIDE DEF t
    <3>2. t = <<>>
      BY <3>1
    <3>. QED  BY <3>2 DEF t
  <2>. QED  BY <2>1, <2>2, <2>4
<1>2. ASSUME NEW s, NEW reg, OneJob(s, reg), Tick PROVE OneJob(s, reg)'
  <2> DEFINE later(j) == [j EXCEPT !.due = IF @ > 0 THEN @ - 1 ELSE 0]
  <2>1. \A j \in Jobs : later(j).stream = j.stream /\ later(j).reg = j.reg
    BY DEF Jobs
  <2> HIDE DEF Jobs
  <2>2. jobs[1] \in Jobs /\ DOMAIN jobs = 1 .. 1
    BY <1>2 DEF OneJob
  <2>3. jobs' = [i \in 1 .. 1 |-> later(jobs[i])]
    BY <1>2, <2>2 DEF Tick
  <2>4. jobs'[1] = later(jobs[1]) /\ Len(jobs') = 1
    <3> HIDE DEF later
    <3>. QED  BY <2>3
  <2>. QED  BY <1>2, <2>1, <2>2, <2>4 DEF OneJob
<1>3. ASSUME jobs = <<>>, Tick PROVE jobs' = <<>>
  <2>1. DOMAIN jobs = {}
    BY <1>3
  <2>2. DOMAIN jobs' = {}
    BY <1>3, <2>1 DEF Tick
  <2>3. jobs' = [i \in {} |-> jobs'[i]]
    BY <1>3, <2>1 DEF Tick
  <2>. QED  BY <2>2, <2>3
<1>. QED
  BY <1>1, <1>2, <1>3

\* A job that is posted to an empty queue is the only one.
LEMMA OnlyPosted ==
  ASSUME jobs = <<>>, NEW j \in Jobs, jobs' = Insert(j)
  PROVE  OneJob(j.stream, j.reg)'
<1>1. jobs' = <<j>>
  BY InsertType
<1>2. jobs'[1] = j /\ Len(jobs') = 1
  BY <1>1
<1>. QED
  BY <1>2 DEF OneJob

\* What CalmInv says of the next state.
CalmNow ==
  \/ Quiet
  \/ \E s \in Streams, k \in 1 .. 17 : SettingUp(s, k)
  \/ \E s \in Streams : Playing(s)

\* Initially no call is live.
LEMMA CalmInit == Init => CalmInv
  BY DEF Init, CalmInv, Quiet, Live, EmptyQueue

\* While no call is live there is nothing to do but to start one.
LEMMA QuietNext ==
  ASSUME TypeInv, Quiet, [Next]_vars, calm'
  PROVE  CalmNow'
<1> USE DEF settings, callVars, remoteVars
<1>1. CASE UNCHANGED vars
  BY <1>1 DEF vars, CalmNow, Quiet, Live, EmptyQueue
<1>2. ASSUME NEW f, NEW r, Change(f, r) PROVE CalmNow'
  BY <1>2 DEF Change, CalmNow, Quiet, Live, EmptyQueue
<1>3. ASSUME NEW s \in Streams, SpeakerStream(s) PROVE CalmNow'
  <2>1. phase'[s] = "setup" /\ \A o \in Streams : o # s => phase'[o] = phase[o]
    BY <1>3 DEF SpeakerStream, TypeInv, TypeOK
  <2>2. todo'[s] = Rest(1) /\ \A o \in Streams : o # s => todo'[o] = todo[o]
    BY <1>3, SetUpOrder DEF SpeakerStream, TypeInv
  <2>3. Alone(s)'
    BY <2>1, <2>2 DEF Alone, Live, Quiet
  <2>4. EmptyQueue' /\ current' = NotRunning
    BY <1>3 DEF SpeakerStream, Quiet, EmptyQueue
  <2>5. 1 \notin Posts /\ 1 \notin Waits /\ 1 \in 1 .. 17
    BY DEF Posts, Waits
  <2>6. SettingUp(s, 1)'
    BY <2>1, <2>2, <2>3, <2>4, <2>5 DEF SettingUp
  <2>. QED  BY <2>5, <2>6 DEF CalmNow
<1>4. ASSUME NEW s \in Streams, CallStep(s) PROVE CalmNow'
  <2>1. \A op : ~Takes(s, op)
    BY DEF Quiet, Takes
  <2>. QED
    BY <1>4, <2>1 DEF CallStep, EnableSpeaker, Mute, AddHandler, PostWrite, AwaitAck,
                      ResetNumber, Schedule
<1>5. CASE JobStep
  <2>1. ~TakeJob /\ current.step = "none"
    BY DEF TakeJob, Quiet, EmptyQueue, NotRunning
  <2>. QED
    BY <1>5, <2>1 DEF JobStep, SendWrite, EndStream, SendChunk, Count, Repost, Clear
<1>6. CASE Tick
  <2>1. jobs' = <<>>
    BY <1>6, OnlyJob DEF Quiet, EmptyQueue, TypeInv
  <2>. QED
    BY <1>6, <2>1 DEF Tick, CalmNow, Quiet, Live, EmptyQueue
<1>. QED
  BY <1>1, <1>2, <1>3, <1>4, <1>5, <1>6 DEF Next, SetSpeakerRate, SetSpeakerFormat

\* A stream that is alone and played takes its one job through its steps.
LEMMA PlayingNext ==
  ASSUME TypeInv, NEW s \in Streams, Playing(s), [Next]_vars, calm'
  PROVE  CalmNow'
<1> USE DEF settings, callVars, remoteVars
<1>0. Live(s) /\ \A o \in Streams : todo[o] = <<>>
  BY DEF Playing, Alone
<1>1. CASE UNCHANGED vars
  BY <1>1 DEF vars, CalmNow, Playing, Alone, Live, OneJob, Configured
<1>2. ASSUME NEW f, NEW r, Change(f, r) PROVE FALSE
  BY <1>0, <1>2 DEF Change
<1>3. ASSUME NEW o \in Streams, SpeakerStream(o) PROVE FALSE
  BY <1>0, <1>3 DEF SpeakerStream
<1>4. ASSUME NEW o \in Streams, CallStep(o) PROVE FALSE
  <2>1. \A op : ~Takes(o, op)
    BY <1>0 DEF Takes
  <2>. QED
    BY <1>4, <2>1 DEF CallStep, EnableSpeaker, Mute, AddHandler, PostWrite, AwaitAck,
                      ResetNumber, Schedule
<1>5. ASSUME TakeJob
      PROVE  Head(jobs).stream = s /\ Head(jobs).reg = "stream" /\ jobs' = <<>>
  <2>1. OneJob(s, "stream")
    BY <1>5 DEF TakeJob, Playing
  <2>. QED
    BY <1>5, <2>1, OnlyJob DEF TakeJob, TypeInv
<1>6. CASE SendWrite
  BY <1>5, <1>6 DEF SendWrite
<1>7. CASE EndStream
  <2>1. phase' = [phase EXCEPT ![s] = "over"] /\ jobs' = <<>> /\ current = NotRunning
    BY <1>5, <1>7 DEF EndStream, TakeJob
  <2>2. \A o \in Streams : ~Live(o)'
    BY <2>1 DEF Playing, Alone, Live, TypeInv, TypeOK
  <2>3. Quiet'
    BY <1>0, <1>7, <2>1, <2>2 DEF EndStream, Quiet, EmptyQueue, Playing
  <2>. QED  BY <2>3 DEF CalmNow
<1>8. CASE SendChunk
  <2>1. jobs' = <<>> /\ current'.step = "count" /\ current'.stream = s
    BY <1>5, <1>8 DEF SendChunk
  <2>2. current' # NotRunning
    <3>1. NotRunning.step = "none"
      BY DEF NotRunning
    <3>. QED  BY <2>1, <3>1
  <2>3. Playing(s)'
    BY <1>8, <2>1, <2>2 DEF SendChunk, Playing, Alone, Live, Configured
  <2>. QED  BY <2>3 DEF CalmNow
<1>r. current.step # "none" => current # NotRunning /\ current \in Running
  <2>1. NotRunning.step = "none"
    BY DEF NotRunning
  <2>. QED  BY <2>1 DEF TypeInv
<1>9. CASE Count
  <2>1. jobs = <<>> /\ current \in Running /\ current.stream = s
    BY <1>r, <1>9 DEF Count, Playing
  <2>2. current'.step = "repost" /\ current'.stream = s
    BY <1>9, <2>1 DEF Count, Running
  <2>3. current' # NotRunning
    BY <2>2 DEF NotRunning
  <2>4. Playing(s)'
    BY <1>9, <2>1, <2>2, <2>3 DEF Count, Playing, Alone, Live, Configured
  <2>. QED  BY <2>4 DEF CalmNow
<1>10. CASE Repost
  <2>1. jobs = <<>> /\ current \in Running /\ current.stream = s
    BY <1>r, <1>10 DEF Repost, Playing
  <2>2. current'.step = "clear" /\ current'.stream = s
    BY <1>10, <2>1 DEF Repost, Running
  <2>3. current' # NotRunning
    BY <2>2 DEF NotRunning
  <2> DEFINE j == [due |-> Delay(number, rate), stream |-> current.stream, reg |-> "stream"]
  <2>4. j \in Jobs /\ j.stream = s /\ j.reg = "stream"
    BY <2>1, DelayType DEF Jobs, Running, Regs
  <2>5. OneJob(s, "stream")'
    <3>1. jobs' = Insert(j)
      BY <1>10 DEF Repost
    <3> HIDE DEF j
    <3>. QED  BY <2>1, <2>4, <3>1, OnlyPosted
  <2>6. Playing(s)'
    BY <1>10, <2>2, <2>3, <2>5 DEF Repost, Playing, Alone, Live, Configured
  <2>. QED  BY <2>6 DEF CalmNow
<1>11. CASE Clear
  <2>1. OneJob(s, "stream")
    BY <1>r, <1>11 DEF Clear, Playing
  <2>2. Playing(s)'
    BY <1>11, <2>1 DEF Clear, Playing, Alone, Live, Configured, OneJob
  <2>. QED  BY <2>2 DEF CalmNow
<1>12. CASE Tick
  <2>1. OneJob(s, "stream") => OneJob(s, "stream")'
    BY <1>12, OnlyJob DEF TypeInv
  <2>2. jobs = <<>> => jobs' = <<>>
    BY <1>12, OnlyJob DEF TypeInv
  <2>3. Playing(s)'
    BY <1>12, <2>1, <2>2 DEF Tick, Playing, Alone, Live, Configured
  <2>. QED  BY <2>3 DEF CalmNow
<1>. QED
  BY <1>1, <1>2, <1>3, <1>4, <1>6, <1>7, <1>8, <1>9, <1>10, <1>11, <1>12
     DEF Next, JobStep, SetSpeakerRate, SetSpeakerFormat

\* A call that is alone in its set-up moves on step by step, and the write of a
\* step is done before the next step.
LEMMA SettingUpNext ==
  ASSUME TypeInv, NEW s \in Streams, NEW k \in 1 .. 17, SettingUp(s, k), [Next]_vars, calm'
  PROVE  CalmNow'
<1> USE DEF settings, callVars, remoteVars
<1>0. Live(s) /\ \A o \in Streams : o # s => todo[o] = <<>>
  BY DEF SettingUp, Alone
<1>1. CASE UNCHANGED vars
  BY <1>1 DEF vars, CalmNow, SettingUp, Alone, Live, EmptyQueue, OneJob, Configured
<1>2. ASSUME NEW f, NEW r, Change(f, r) PROVE FALSE
  BY <1>0, <1>2 DEF Change
<1>3. ASSUME NEW o \in Streams, SpeakerStream(o) PROVE FALSE
  BY <1>0, <1>3 DEF SpeakerStream
<1>4. ASSUME NEW o \in Streams, CallStep(o) PROVE o = s
  <2>1. o # s => \A op : ~Takes(o, op)
    BY <1>0 DEF Takes
  <2>. QED
    BY <1>4, <2>1 DEF CallStep, EnableSpeaker, Mute, AddHandler, PostWrite, AwaitAck,
                      ResetNumber, Schedule
<1>5. ASSUME NEW op, Takes(s, op)
      PROVE  /\ SetUp[k].op = op /\ Head(todo[s]) = SetUp[k]
             /\ todo'[s] = Rest(k + 1)
             /\ \A o \in Streams : o # s => todo'[o] = <<>>
  <2>1. todo[s] = Rest(k) /\ todo' = [todo EXCEPT ![s] = Tail(@)] /\ Head(todo[s]).op = op
    BY <1>5 DEF Takes, SettingUp
  <2>2. Head(Rest(k)) = SetUp[k] /\ Tail(Rest(k)) = Rest(k + 1)
    BY SetUpOrder, Zenon
  <2>3. todo'[s] = Tail(todo[s]) /\ \A o \in Streams : o # s => todo'[o] = todo[o]
    BY <2>1 DEF TypeInv
  <2>. QED  BY <1>0, <2>1, <2>2, <2>3, Zenon
<1>6. ASSUME NEW op, Takes(s, op), phase' = phase PROVE Alone(s)' /\ phase'[s] = "setup"
  BY <1>5, <1>6 DEF Alone, Live, SettingUp
<1>7. /\ k \in Adds => /\ k \notin Posts /\ k \notin Waits
                        /\ k + 1 \in Posts /\ k + 1 \notin Waits
      /\ k \in Posts => k + 1 \in Waits /\ k + 1 \notin Posts
      /\ k \in Waits => k \notin Posts /\ k + 1 \notin Posts /\ k + 1 \notin Waits
      /\ k \in {1, 2, 12, 16} => k \notin Posts /\ k \notin Waits
                                 /\ k + 1 \notin Posts /\ k + 1 \notin Waits
      /\ k = 17 => k \notin Posts /\ k \notin Waits
      /\ k \in Adds \cup Posts \cup Waits \cup {1, 2, 12, 16} => k + 1 \in 1 .. 17
  BY DEF Adds, Posts, Waits
<1>8. CASE EnableSpeaker(s)
  <2>1. k = 1
    BY <1>5, <1>8, SetUpOperations DEF EnableSpeaker
  <2>2. speaker'.on = TRUE
    BY <1>8 DEF EnableSpeaker, TypeInv
  <2>3. EmptyQueue' /\ current' = NotRunning
    BY <1>7, <1>8, <2>1 DEF EnableSpeaker, SettingUp, EmptyQueue
  <2>4. SettingUp(s, 2)'
    BY <1>5, <1>6, <1>7, <1>8, <2>1, <2>2, <2>3 DEF EnableSpeaker, SettingUp
  <2>. QED  BY <2>4 DEF CalmNow
<1>9. CASE Mute(s)
  <2>1. EmptyQueue' /\ current' = NotRunning /\ speaker'.on = TRUE
    <3>1. k \in {2, 12}
      BY <1>5, <1>9, SetUpOperations DEF Mute
    <3>2. EmptyQueue /\ current = NotRunning /\ speaker.on = TRUE
      BY <1>7, <3>1 DEF SettingUp
    <3>3. speaker'.on = speaker.on
      BY <1>9 DEF Mute, TypeInv
    <3>. QED  BY <1>9, <3>2, <3>3 DEF Mute, EmptyQueue
  <2>2. CASE Takes(s, "mute") /\ speaker' = [speaker EXCEPT !.muted = TRUE]
    <3>1. k = 2 /\ speaker'.muted = TRUE
      BY <1>5, <2>2, SetUpOperations DEF TypeInv
    <3>2. SettingUp(s, 3)'
      BY <1>5, <1>6, <1>7, <1>9, <2>1, <2>2, <3>1 DEF Mute, SettingUp
    <3>. QED  BY <3>2 DEF CalmNow
  <2>3. CASE Takes(s, "unmute") /\ speaker' = [speaker EXCEPT !.muted = FALSE]
    <3>1. k = 12 /\ speaker'.muted = FALSE /\ speaker'.conf = speaker.conf
      BY <1>5, <2>3, SetUpOperations DEF TypeInv
    <3>2. SettingUp(s, 13)'
      BY <1>5, <1>6, <1>7, <1>9, <2>1, <2>3, <3>1 DEF Mute, SettingUp, Configured
    <3>. QED  BY <3>2 DEF CalmNow
  <2>. QED  BY <1>9, <2>2, <2>3 DEF Mute
<1>10. CASE AddHandler(s)
  <2>1. Takes(s, "add") /\ k \in Adds
    BY <1>5, <1>10, SetUpOperations DEF AddHandler
  <2>2. handlers = <<>> /\ jobs = <<>>
    BY <1>7, <2>1 DEF SettingUp, EmptyQueue
  <2>3. handlers' = <<s>> /\ jobs' = <<>> /\ current' = NotRunning
    BY <1>10, <2>2 DEF AddHandler, SettingUp
  <2>4. k = 9 => Configured(s)'
    BY <1>5, <1>10, <2>1, SetUpRegisters DEF AddHandler, Configured, TypeInv
  <2>5. k # 9 => conf' = conf
    BY <1>5, <1>10, <2>1, SetUpRegisters DEF AddHandler, Adds
  <2>6. SettingUp(s, k + 1)'
    <3>1. /\ k + 1 >= 10 => Configured(s)'
          /\ ~(k + 1 = 11) /\ (k + 1 >= 12 => k >= 13)
      BY <1>10, <2>1, <2>4, <2>5 DEF AddHandler, Adds, SettingUp, Configured
    <3>2. k + 1 >= 12 => speaker'.conf = conf'[s]
      BY <1>10, <2>1, <2>5, <3>1 DEF AddHandler, Adds, SettingUp
    <3>3. /\ k + 1 >= 2 => speaker'.on = TRUE
          /\ k + 1 \in 3 .. 12 => speaker'.muted = TRUE
          /\ k + 1 >= 13 => speaker'.muted = FALSE
      BY <1>10, <2>1 DEF AddHandler, Adds, SettingUp
    <3>. QED
      BY <1>5, <1>6, <1>7, <1>10, <2>1, <2>3, <3>1, <3>2, <3>3 DEF AddHandler, SettingUp
  <2>. QED  BY <1>7, <2>1, <2>6 DEF CalmNow
<1>11. CASE PostWrite(s)
  <2>1. Takes(s, "post") /\ k \in Posts /\ Head(todo[s]) = SetUp[k]
    BY <1>5, <1>11, SetUpOperations DEF PostWrite
  <2>2. handlers' = <<s>> /\ jobs = <<>> /\ current' = NotRunning
    BY <1>11, <2>1 DEF PostWrite, SettingUp
  <2>3. OneJob(s, SetUp[k + 1].reg)'
    <3> DEFINE j == [due |-> 0, stream |-> s, reg |-> Head(todo[s]).reg]
    <3>1. Head(todo[s]) \in Steps
      BY <2>1, TakesType DEF TypeInv
    <3>2. j \in Jobs /\ j.stream = s /\ j.reg = SetUp[k + 1].reg
      BY <2>1, <3>1, SetUpRegisters DEF Jobs, Steps
    <3>3. jobs' = Insert(j)
      BY <1>11 DEF PostWrite
    <3> HIDE DEF j
    <3>. QED  BY <2>2, <3>2, <3>3, OnlyPosted
  <2>4. jobs' # <<>>
    BY <2>3 DEF OneJob
  <2>5. SettingUp(s, k + 1)'
    <3>1. /\ k + 1 >= 10 => Configured(s)'
          /\ k + 1 >= 12 => speaker'.conf = conf'[s]
          /\ k + 1 >= 2 => speaker'.on = TRUE
          /\ k + 1 \in 3 .. 12 => speaker'.muted = TRUE
          /\ k + 1 >= 13 => speaker'.muted = FALSE
      BY <1>11, <2>1 DEF PostWrite, Posts, SettingUp, Configured
    <3>. QED
      BY <1>5, <1>6, <1>7, <1>11, <2>1, <2>2, <2>3, <2>4, <3>1 DEF PostWrite, SettingUp
  <2>. QED  BY <1>7, <2>1, <2>5 DEF CalmNow
<1>12. CASE AwaitAck(s)
  <2>1. Takes(s, "wait") /\ k \in Waits
    BY <1>5, <1>12, SetUpOperations DEF AwaitAck
  <2>2. handlers # <<s>>
    <3>1. ASSUME handlers = <<s>> PROVE 1 \in DOMAIN handlers /\ handlers[1] = s
      BY <3>1
    <3>. QED  BY <1>12, <3>1 DEF AwaitAck
  <2>3. EmptyQueue /\ EmptyQueue' /\ current' = NotRunning
    BY <1>12, <2>1, <2>2 DEF AwaitAck, SettingUp, EmptyQueue
  <2>4. SettingUp(s, k + 1)'
    <3>1. /\ k + 1 >= 10 => Configured(s)'
          /\ k + 1 >= 12 => speaker'.conf = conf'[s]
          /\ k + 1 # 11
          /\ k + 1 >= 2 => speaker'.on = TRUE
          /\ k + 1 \in 3 .. 12 => speaker'.muted = TRUE
          /\ k + 1 >= 13 => speaker'.muted = FALSE
      BY <1>12, <2>1, <2>3 DEF AwaitAck, Waits, SettingUp, Configured, EmptyQueue
    <3>. QED
      BY <1>5, <1>6, <1>7, <1>12, <2>1, <2>3, <3>1 DEF AwaitAck, SettingUp
  <2>. QED  BY <1>7, <2>1, <2>4 DEF CalmNow
<1>13. CASE ResetNumber(s)
  <2>1. Takes(s, "reset") /\ k = 16
    BY <1>5, <1>13, SetUpOperations DEF ResetNumber
  <2>2. EmptyQueue' /\ current' = NotRunning
    BY <1>7, <1>13, <2>1 DEF ResetNumber, SettingUp, EmptyQueue
  <2>3. SettingUp(s, 17)'
    BY <1>5, <1>6, <1>7, <1>13, <2>1, <2>2 DEF ResetNumber, SettingUp, Configured
  <2>. QED  BY <2>3 DEF CalmNow
<1>14. CASE Schedule(s)
  <2>1. Takes(s, "schedule") /\ k = 17
    BY <1>5, <1>14, SetUpOperations DEF Schedule
  <2>2. handlers' = <<>> /\ jobs = <<>> /\ current' = NotRunning
    BY <1>7, <1>14, <2>1 DEF Schedule, SettingUp, EmptyQueue
  <2>3. OneJob(s, "stream")'
    <3> DEFINE j == [due |-> 0, stream |-> s, reg |-> "stream"]
    <3>1. j \in Jobs /\ j.stream = s /\ j.reg = "stream"
      BY DEF Jobs, Regs
    <3>2. jobs' = Insert(j)
      BY <1>14 DEF Schedule
    <3> HIDE DEF j
    <3>. QED  BY <2>2, <3>1, <3>2, OnlyPosted
  <2>4. todo'[s] = <<>>
    <3>1. todo'[s] = Rest(17 + 1)
      BY <1>5, <2>1
    <3>. QED  BY <3>1, SetUpOrder
  <2>5. Alone(s)' /\ phase'[s] = "playing"
    BY <1>5, <1>14, <2>1 DEF Schedule, SettingUp, Alone, Live, TypeInv, TypeOK
  <2>6. Playing(s)'
    BY <1>14, <2>1, <2>2, <2>3, <2>4, <2>5 DEF Schedule, SettingUp, Playing, Configured
  <2>. QED  BY <2>6 DEF CalmNow
<1>15. ASSUME TakeJob
       PROVE  /\ k \in Waits /\ handlers = <<s>> /\ jobs' = <<>>
              /\ Head(jobs).stream = s /\ Head(jobs).reg = SetUp[k].reg
  <2>1. jobs # <<>>
    BY <1>15 DEF TakeJob
  <2>2. k \in Waits /\ handlers = <<s>> /\ OneJob(s, SetUp[k].reg)
    BY <2>1 DEF SettingUp, EmptyQueue
  <2>. QED
    BY <1>15, <2>2, OnlyJob DEF TakeJob, TypeInv
<1>16. CASE SendWrite
  <2>1. TakeJob /\ k \in Waits /\ jobs' = <<>> /\ handlers' = <<>> /\ current' = NotRunning
    <3>1. TakeJob /\ k \in Waits /\ jobs' = <<>> /\ handlers = <<s>>
      BY <1>15, <1>16 DEF SendWrite
    <3>2. handlers' = Tail(<<s>>)
      BY <1>16, <3>1 DEF SendWrite
    <3>3. Tail(<<s>>) = <<>>
      OBVIOUS
    <3>. QED  BY <1>16, <3>1, <3>2, <3>3 DEF SendWrite, SettingUp
  <2>2. speaker'.on = speaker.on /\ speaker'.muted = speaker.muted
    BY <1>16 DEF SendWrite, TypeInv
  <2>3. k = 11 => speaker'.conf = conf[s]
    <3>1. k = 11 => Head(jobs).reg = "conf" /\ Head(jobs).stream = s
      BY <1>15, <2>1, SetUpRegisters
    <3>. QED  BY <1>16, <3>1 DEF SendWrite, TypeInv
  <2>4. k = 15 => speaker' = speaker
    <3>1. k = 15 => Head(jobs).reg # "conf" /\ Head(jobs).reg # "a20001"
      BY <1>15, <2>1, SetUpRegisters
    <3>. QED  BY <1>16, <3>1 DEF SendWrite
  <2>5. k >= 11 => speaker'.conf = conf[s]
    BY <2>1, <2>3, <2>4 DEF Waits, SettingUp
  <2>6. SettingUp(s, k)'
    BY <1>7, <1>16, <2>1, <2>2, <2>5 DEF SendWrite, SettingUp, Alone, Live, Configured, EmptyQueue
  <2>. QED  BY <2>6 DEF CalmNow
<1>17. CASE EndStream \/ SendChunk
  BY <1>15, <1>17, SetUpRegisters DEF EndStream, SendChunk
<1>18. CASE Count \/ Repost \/ Clear
  <2>1. current.step = "none"
    BY DEF SettingUp, NotRunning
  <2>. QED  BY <1>18, <2>1 DEF Count, Repost, Clear
<1>19. CASE Tick
  <2>1. OneJob(s, SetUp[k].reg) => OneJob(s, SetUp[k].reg)' /\ jobs # <<>>
    BY <1>19, OnlyJob DEF TypeInv
  <2>2. jobs = <<>> => jobs' = <<>>
    BY <1>19, OnlyJob DEF TypeInv
  <2>3. jobs' = <<>> => jobs = <<>>
    <3>1. OneJob(s, SetUp[k].reg)' => jobs' # <<>>
      <4>1. OneJob(s, SetUp[k].reg)' => Len(jobs') = 1
        BY DEF OneJob
      <4>2. jobs' = <<>> => Len(jobs') = 0
        OBVIOUS
      <4>3. 0 # 1
        OBVIOUS
      <4>. QED  BY <4>1, <4>2, <4>3, Zenon
    <3>2. jobs = <<>> \/ OneJob(s, SetUp[k].reg)
      BY DEF SettingUp, EmptyQueue
    <3>. QED  BY <2>1, <3>1, <3>2, Zenon
  <2>4. SettingUp(s, k)'
    BY <1>19, <2>1, <2>2, <2>3 DEF Tick, SettingUp, Alone, Live, Configured, EmptyQueue
  <2>. QED  BY <2>4 DEF CalmNow
<1>. QED
  BY <1>1, <1>2, <1>3, <1>4, <1>8, <1>9, <1>10, <1>11, <1>12, <1>13, <1>14, <1>16, <1>17,
     <1>18, <1>19
     DEF Next, CallStep, JobStep, SetSpeakerRate, SetSpeakerFormat

\* Every step keeps the invariant of a call that is alone.
LEMMA CalmNext ==
  ASSUME TypeInv, CalmInv, [Next]_vars
  PROVE  CalmInv' /\ (calm' => calm)
<1>1. calm' => calm
  BY DEF Next, SetSpeakerRate, SetSpeakerFormat, Change, SpeakerStream, CallStep, JobStep,
         EnableSpeaker, Mute, AddHandler, PostWrite, AwaitAck, ResetNumber, Schedule,
         SendWrite, EndStream, SendChunk, Count, Repost, Clear, Tick, vars
<1>2. calm' => CalmNow'
  BY <1>1, QuietNext, SettingUpNext, PlayingNext DEF CalmInv
<1>. QED
  BY <1>1, <1>2 DEF CalmInv, CalmNow

\* While streams do not overlap and settings are left alone meanwhile, a speaker
\* that can be heard is configured for the stream that is live: the mute reports
\* of speaker_stream() bypass the job queue and the writes go through it, and no
\* interleaving of the two threads, whatever the streams and settings, lets the
\* one overtake the other.
THEOREM Heard == Spec => []HeardAsConfigured
<1>1. TypeInv /\ CalmInv /\ [Next]_vars => CalmInv'
  BY CalmNext
<1>. QED
  BY TypeInit, TypeNext, CalmInit, CalmImplies, <1>1, PTL DEF Spec

-----------------------------------------------------------------------------
(* Pace *)

\* How long the queue waits for its job.
Waiting == IF jobs = <<>> THEN 0 ELSE jobs[1].due

\* A packet is owed what it was sent with, until its delay has been computed; then
\* the time that has passed and the time the next job waits make up for it.
PaceInv ==
  calm =>
    /\ owed \in Nat /\ owed <= MaxSince * Oscillator
    /\ current.step = "count" => owed = Samples(current.size, fmt) * Divisor(rate)
    /\ current.step = "repost" => owed = number * Divisor(rate)
    /\ current.step \in {"none", "clear"} =>
         since = MaxSince \/ owed <= (since + Waiting) * Oscillator

\* Multiplication by a number keeps an order.
LEMMA Monotone ==
  ASSUME NEW x \in Nat, NEW y \in Nat, NEW z \in Nat, x <= y
  PROVE  x * z <= y * z
  OBVIOUS

\* What integer division promises.
LEMMA Quotient ==
  ASSUME NEW x \in Nat, NEW r \in Nat \ {0}
  PROVE  /\ x \div r \in Nat
         /\ (x \div r) * r <= x
         /\ x < (x \div r + 1) * r
  OBVIOUS

\* The delay, computed from the rate in whole milliseconds, is never shorter than
\* what a packet takes with the divisor for that rate.
LEMMA PacketFits ==
  ASSUME NEW n \in Nat, NEW r \in Nat \ {0}
  PROVE  Divisor(r) \in Nat /\ n * Divisor(r) <= Delay(n, r) * Oscillator
<1> DEFINE D == Divisor(r)
           w == 12000000 \div r
           q == (n * 1000) \div r
<1>1. D \in Nat /\ w \in Nat /\ D <= w
  BY DEF Divisor, Oscillator
<1>2. q \in Nat /\ w * r <= 12000000 /\ n * 1000 < (q + 1) * r
  BY Quotient
<1>3. Delay(n, r) = q + 3
  BY DEF Delay, Slack
<1> HIDE DEF D, w, q
<1>4. (n * 1000) * D <= ((q + 1) * r) * D
  BY <1>1, <1>2
<1>5. D * r <= 12000000
  <2>1. D * r <= w * r
    BY <1>1, Monotone
  <2>. QED  BY <1>1, <1>2, <2>1
<1>6. (D * r) * (q + 1) <= 12000000 * (q + 1)
  BY <1>1, <1>2, <1>5
<1>7. ((q + 1) * r) * D = (D * r) * (q + 1)
  BY <1>1, <1>2
<1>8. (n * 1000) * D <= 12000000 * (q + 1)
  BY <1>1, <1>2, <1>4, <1>6, <1>7
<1>9. n * D <= 12000 * (q + 1)
  <2> DEFINE nD == n * D
  <2>1. nD \in Nat /\ (n * 1000) * D = 1000 * nD
    BY <1>1
  <2> HIDE DEF nD
  <2>. QED  BY <1>2, <1>8, <2>1 DEF nD
<1>. QED
  BY <1>1, <1>2, <1>3, <1>9 DEF D, Oscillator

\* The settings are a rate and a format, and a packet is at most 40 samples.
LEMMA PacketSize ==
  ASSUME TypeInv
  PROVE  /\ rate \in Nat \ {0} /\ MaxSince \in Nat /\ since \in 0 .. MaxSince
         /\ \A size \in 1 .. ChunkSize, f \in Formats :
              /\ Samples(size, f) \in Nat
              /\ Samples(size, f) * Divisor(rate) \in Nat
              /\ Samples(size, f) * Divisor(rate) <= MaxSince * Oscillator
<1>1. /\ rate \in Rates /\ rate \in Nat \ {0} /\ MaxSince \in Nat
      /\ since \in 0 .. MaxSince
  BY RatesAssumption, BoundsAssumption DEF TypeInv, TypeOK
<1>2. ASSUME NEW size \in 1 .. ChunkSize, NEW f \in Formats
      PROVE  Samples(size, f) \in 0 .. 40
  BY DEF Samples, ChunkSize
<1>3. Divisor(rate) \in Nat /\ 40 * Divisor(rate) <= MaxSince * Oscillator
  <2>1. Divisor(rate) \in Nat
    BY <1>1, PacketFits
  <2>2. 2 * ChunkSize * Divisor(rate) <= MaxSince * Oscillator
    BY <1>1, SinceAssumption
  <2>. QED  BY <2>1, <2>2 DEF ChunkSize
<1>4. ASSUME NEW n \in 0 .. 40 PROVE n * Divisor(rate) \in Nat /\ n * Divisor(rate) <= 40 * Divisor(rate)
  BY <1>3
<1>5. MaxSince * Oscillator \in Nat
  BY <1>1 DEF Oscillator
<1>6. ASSUME NEW n \in 0 .. 40
      PROVE  n * Divisor(rate) \in Nat /\ n * Divisor(rate) <= MaxSince * Oscillator
  <2> DEFINE d == Divisor(rate)
             m == MaxSince * Oscillator
             nd == n * d
  <2>1. nd \in Nat /\ nd <= 40 * d /\ d \in Nat /\ 40 * d <= m /\ m \in Nat
    BY <1>3, <1>4, <1>5
  <2> HIDE DEF d, m, nd
  <2>2. nd \in Nat /\ nd <= m
    BY <2>1
  <2>. QED  BY <2>2 DEF d, m, nd
<1>. QED
  BY <1>1, <1>2, <1>6

\* A call that takes a step is the only one, and then no packet is being sent.
LEMMA CallAlone ==
  ASSUME TypeInv, CalmNow, NEW s \in Streams, NEW op, Takes(s, op)
  PROVE  /\ current = NotRunning
         /\ op \in {"post", "schedule"} => jobs = <<>>
<1>1. ~Quiet
  BY DEF Takes, Quiet
<1>2. ASSUME NEW o \in Streams, Playing(o) PROVE FALSE
  BY <1>2 DEF Takes, Playing, Alone
<1>3. ASSUME NEW o \in Streams, NEW k \in 1 .. 17, SettingUp(o, k)
      PROVE  /\ current = NotRunning
             /\ op \in {"post", "schedule"} => jobs = <<>>
  <2>1. o = s /\ todo[s] = Rest(k) /\ current = NotRunning
    BY <1>3 DEF Takes, SettingUp, Alone
  <2>2. Head(Rest(k)) = SetUp[k]
    BY SetUpOrder, Zenon
  <2>3. SetUp[k].op = op
    BY <2>1, <2>2, Zenon DEF Takes
  <2>4. op \in {"post", "schedule"} => k \in Posts \/ k = 17
    BY <2>3, SetUpOperations
  <2>5. 17 \notin Posts /\ 17 \notin Waits
    BY DEF Posts, Waits
  <2>. QED  BY <1>3, <2>1, <2>4, <2>5 DEF SettingUp, EmptyQueue
<1>. QED
  BY <1>1, <1>2, <1>3 DEF CalmNow

\* The job that is taken is due and the only one; a stream job is that of a stream
\* the speaker is configured for.
LEMMA JobAlone ==
  ASSUME TypeInv, CalmNow, TakeJob
  PROVE  /\ jobs' = <<>> /\ Waiting = 0
         /\ Head(jobs).reg = "stream" =>
              speaker.conf = [fmt |-> fmt, divisor |-> Divisor(rate)]
<1>1. jobs # <<>> /\ Head(jobs).due = 0 /\ jobs' = Tail(jobs) /\ current = NotRunning
  BY DEF TakeJob
<1>2. Waiting = 0
  <2>1. jobs # <<>> => Head(jobs) = jobs[1]
    <3> HIDE DEF Jobs
    <3>. QED  BY DEF TypeInv
  <2>. QED  BY <1>1, <2>1 DEF Waiting
<1>3. CASE Quiet
  BY <1>1, <1>3 DEF Quiet, EmptyQueue
<1>4. ASSUME NEW s \in Streams, NEW k \in 1 .. 17, SettingUp(s, k)
      PROVE  jobs' = <<>> /\ Head(jobs).reg # "stream"
  <2>1. OneJob(s, SetUp[k].reg)
    BY <1>1, <1>4 DEF SettingUp, EmptyQueue
  <2>2. Head(jobs).reg = SetUp[k].reg /\ Tail(jobs) = <<>>
    BY <2>1, OnlyJob DEF TypeInv
  <2>. QED  BY <1>1, <2>2, SetUpRegisters
<1>5. ASSUME NEW s \in Streams, Playing(s)
      PROVE  jobs' = <<>> /\ speaker.conf = [fmt |-> fmt, divisor |-> Divisor(rate)]
  <2>1. OneJob(s, "stream")
    BY <1>1, <1>5 DEF Playing
  <2>2. Tail(jobs) = <<>>
    BY <2>1, OnlyJob DEF TypeInv
  <2>. QED  BY <1>1, <1>5, <2>2 DEF Playing, Configured
<1>. QED
  BY <1>2, <1>3, <1>4, <1>5 DEF CalmNow

\* Initially nothing is owed.
LEMMA PaceInit == Init => PaceInv
<1> SUFFICES ASSUME Init PROVE PaceInv
  OBVIOUS
<1>1. owed = 0 /\ since = MaxSince /\ current.step = "none" /\ MaxSince \in Nat
  BY BoundsAssumption DEF Init, NotRunning
<1>. QED
  BY <1>1 DEF PaceInv, Oscillator

\* Every step keeps the account of what is owed.
LEMMA PaceNext ==
  ASSUME TypeInv, CalmInv, PaceInv, [Next]_vars, calm, calm'
  PROVE  PaceInv'
<1> USE DEF settings, callVars, remoteVars
<1>n. CalmNow
  BY DEF CalmInv, CalmNow
<1>r. NotRunning.step = "none"
  BY DEF NotRunning
<1>1. CASE UNCHANGED vars
  BY <1>1 DEF vars, PaceInv, Waiting
<1>2. ASSUME NEW f, NEW r, Change(f, r) PROVE PaceInv'
  <2>1. \A s \in Streams : ~Live(s)
    BY <1>2 DEF Change
  <2>2. current = NotRunning
    BY <1>n, <2>1 DEF CalmNow, Quiet, SettingUp, Playing, Alone
  <2>. QED
    BY <1>2, <1>r, <2>2 DEF Change, PaceInv, Waiting
<1>3. ASSUME NEW s \in Streams, SpeakerStream(s) PROVE PaceInv'
  BY <1>3 DEF SpeakerStream, PaceInv, Waiting
<1>4. ASSUME NEW s \in Streams, CallStep(s) PROVE PaceInv'
  <2>1. current = NotRunning
    BY <1>4, <1>n, CallAlone DEF CallStep, EnableSpeaker, Mute, AddHandler, PostWrite,
                                 AwaitAck, ResetNumber, Schedule
  <2>2. CASE PostWrite(s) \/ Schedule(s)
    <3> DEFINE j(reg) == [due |-> 0, stream |-> s, reg |-> reg]
    <3>1. jobs = <<>>
      BY <1>n, <2>2, CallAlone DEF PostWrite, Schedule
    <3>2. PICK reg : jobs' = Insert(j(reg))
      BY <2>2 DEF PostWrite, Schedule
    <3>3. jobs'[1] = j(reg)
      BY <3>1, <3>2 DEF Insert
    <3>4. Waiting = 0 /\ Waiting' = 0
      BY <3>1, <3>3 DEF Waiting
    <3>. QED
      BY <1>r, <2>1, <2>2, <3>4 DEF PostWrite, Schedule, PaceInv
  <2>3. CASE ~(PostWrite(s) \/ Schedule(s))
    BY <1>4, <1>r, <2>1, <2>3 DEF CallStep, EnableSpeaker, Mute, AddHandler, AwaitAck,
                                  ResetNumber, PaceInv, Waiting
  <2>. QED  BY <2>2, <2>3
<1>5. CASE SendWrite \/ EndStream
  <2>1. jobs' = <<>> /\ Waiting = 0 /\ current = NotRunning
    BY <1>5, <1>n, JobAlone DEF SendWrite, EndStream, TakeJob
  <2>2. Waiting' = 0
    BY <2>1 DEF Waiting
  <2>. QED
    BY <1>5, <1>r, <2>1, <2>2 DEF SendWrite, EndStream, PaceInv
<1>6. CASE SendChunk
  <2> DEFINE s == Head(jobs).stream
             size == IF left[s] < ChunkSize THEN left[s] ELSE ChunkSize
  <2>1. TakeJob /\ Head(jobs).reg = "stream" /\ size > 0
    BY <1>6 DEF SendChunk
  <2>2. speaker.conf.fmt = fmt /\ speaker.conf.divisor = Divisor(rate)
    BY <1>n, <2>1, JobAlone
  <2>3. current'.step = "count" /\ current'.size = size
    BY <1>6 DEF SendChunk
  <2>4. owed' = Samples(size, fmt) * Divisor(rate) /\ fmt' = fmt /\ rate' = rate
    BY <1>6, <2>2 DEF SendChunk
  <2>5. size \in 1 .. ChunkSize
    <3>1. s \in Streams
      <4>1. Head(jobs) \in Jobs
        BY <2>1, QueueType DEF TakeJob, TypeInv
      <4>. QED  BY <4>1 DEF Jobs
    <3>2. left[s] \in Nat
      BY <3>1 DEF TypeInv
    <3> HIDE DEF s
    <3>. QED  BY <2>1, <3>2 DEF ChunkSize
  <2> HIDE DEF size
  <2>6. owed' \in Nat /\ owed' <= MaxSince * Oscillator
    BY <2>4, <2>5, PacketSize DEF TypeInv, TypeOK
  <2>. QED
    BY <2>3, <2>4, <2>6 DEF PaceInv
<1>7. CASE Count
  <2>1. current \in Running /\ number = 0 /\ fmt \in Formats
    BY <1>7, <1>r DEF Count, TypeInv, TypeOK, NumberInv
  <2>2. Samples(current.size, fmt) \in Nat
    BY <2>1, PacketSize DEF Running
  <2>3. number' = Samples(current.size, fmt)
    BY <1>7, <2>1, <2>2 DEF Count
  <2>4. current'.step = "repost"
    BY <1>7, <2>1 DEF Count, Running
  <2>. QED
    BY <1>7, <2>3, <2>4 DEF Count, PaceInv
<1>8. CASE Repost
  <2>1. current \in Running /\ number \in Nat
    <3>1. number \in 0 .. 2 * ChunkSize
      BY DEF TypeInv, TypeOK
    <3>2. number \in Nat
      BY <3>1 DEF ChunkSize
    <3>. QED  BY <1>8, <1>r, <3>2 DEF Repost, TypeInv
  <2>2. current'.step = "clear"
    BY <1>8, <2>1 DEF Repost, Running
  <2>3. jobs = <<>>
    BY <1>8, <1>n, <1>r DEF Repost, CalmNow, Quiet, SettingUp, Playing
  <2>4. Waiting' = Delay(number, rate)
    <3> DEFINE j == [due |-> Delay(number, rate), stream |-> current.stream, reg |-> "stream"]
    <3>1. jobs' = Insert(j) /\ j.due = Delay(number, rate)
      BY <1>8 DEF Repost
    <3> HIDE DEF j
    <3>2. jobs'[1] = j /\ Len(jobs') = 1
      BY <2>3, <3>1 DEF Insert
    <3>3. jobs' # <<>>
      BY <3>2
    <3>. QED  BY <3>1, <3>2, <3>3 DEF Waiting
  <2>5. owed' <= (since' + Waiting') * Oscillator
    <3> DEFINE d == Delay(number, rate)
    <3>1. owed' <= d * Oscillator
      BY <1>8, <2>1, PacketFits, PacketSize DEF Repost, PaceInv
    <3>2. since' \in Nat /\ d \in Nat /\ Waiting' = d /\ owed' \in Nat
      BY <1>8, <2>4, PacketSize, DelayType DEF Repost, PaceInv
    <3>3. \A x, y, z \in Nat : x <= y * Oscillator => x <= (z + y) * Oscillator
      BY DEF Oscillator
    <3>4. owed' <= (since' + d) * Oscillator
      <4> HIDE DEF d
      <4>. QED  BY <3>1, <3>2, <3>3
    <3>. QED  BY <3>2, <3>4
  <2>. QED
    BY <1>8, <2>2, <2>5 DEF Repost, PaceInv
<1>9. CASE Clear
  <2>1. current' = NotRunning /\ Waiting' = Waiting
    BY <1>9 DEF Clear, Waiting
  <2>. QED
    BY <1>9, <1>r, <2>1 DEF Clear, PaceInv
<1>10. CASE Tick
  <2>1. /\ since \in 0 .. MaxSince /\ MaxSince \in Nat /\ Waiting \in Nat
        /\ since' = IF since < MaxSince THEN since + 1 ELSE since
    <3>1. jobs # <<>> => jobs[1].due \in Nat
      <4>1. jobs # <<>> => 1 \in DOMAIN jobs
        <5> HIDE DEF Jobs
        <5>. QED  BY DEF TypeInv
      <4>. QED  BY <4>1, QueueType DEF TypeInv
    <3>. QED  BY <1>10, <3>1, PacketSize DEF Tick, Waiting
  <2>2. Waiting' = IF Waiting > 0 THEN Waiting - 1 ELSE 0
    <3>1. CASE jobs = <<>>
      <4>1. jobs' = <<>>
        BY <1>10, <3>1, OnlyJob DEF TypeInv
      <4>. QED  BY <3>1, <4>1 DEF Waiting
    <3>2. CASE jobs # <<>>
      <4> DEFINE later(j) == [j EXCEPT !.due = IF @ > 0 THEN @ - 1 ELSE 0]
      <4>1. \A j \in Jobs : later(j).due = IF j.due > 0 THEN j.due - 1 ELSE 0
        BY DEF Jobs
      <4>2. jobs[1] \in Jobs /\ 1 \in DOMAIN jobs
        <5> HIDE DEF Jobs
        <5>. QED  BY <3>2 DEF TypeInv
      <4>3. jobs'[1] = later(jobs[1]) /\ 1 \in DOMAIN jobs'
        BY <1>10, <4>2 DEF Tick
      <4>4. jobs' # <<>>
        BY <4>3
      <4>. QED  BY <3>2, <4>1, <4>2, <4>3, <4>4 DEF Waiting
    <3>. QED  BY <3>1, <3>2
  <2>3. ASSUME owed \in Nat, owed <= (since + Waiting) * Oscillator
        PROVE  since' = MaxSince \/ owed <= (since' + Waiting') * Oscillator
    BY <2>1, <2>2, <2>3 DEF Oscillator
  <2>. QED
    BY <1>10, <2>1, <2>3 DEF Tick, PaceInv
<1>. QED
  BY <1>1, <1>2, <1>3, <1>4, <1>5, <1>6, <1>7, <1>8, <1>9, <1>10
     DEF Next, JobStep, SetSpeakerRate, SetSpeakerFormat

\* Under the same conditions a data report is sent only when the remote has had
\* the time to play the one before, at every rate: the delay is computed with
\* integer division and in whole milliseconds, and the divisor is cut to 16 bits,
\* but neither makes a packet longer than its delay.
THEOREM PacketsPaced == Spec => Paced
<1>1. TypeInv /\ CalmInv /\ PaceInv /\ [Next]_vars => PaceInv'
  BY CalmNext, PaceNext DEF PaceInv
<1>2. TypeInv /\ CalmInv /\ PaceInv /\ [Next]_vars =>
        [calm /\ left' # left => since * Oscillator >= owed]_vars
  <2> SUFFICES ASSUME TypeInv, CalmInv, PaceInv, [Next]_vars, calm, left' # left
               PROVE  since * Oscillator >= owed
    OBVIOUS
  <2>1. SendChunk
    BY DEF Next, SetSpeakerRate, SetSpeakerFormat, Change, SpeakerStream, CallStep, JobStep,
           EnableSpeaker, Mute, AddHandler, PostWrite, AwaitAck, ResetNumber, Schedule,
           SendWrite, EndStream, Count, Repost, Clear, Tick, vars
  <2>2. TakeJob /\ CalmNow
    BY <2>1 DEF SendChunk, CalmInv, CalmNow
  <2>3. Waiting = 0 /\ current.step = "none"
    BY <2>2, JobAlone DEF TakeJob, NotRunning
  <2>4. owed \in Nat /\ MaxSince \in Nat /\ since \in Nat
    BY PacketSize DEF PaceInv
  <2>5. owed <= MaxSince * Oscillator /\ (since = MaxSince \/ owed <= (since + 0) * Oscillator)
    BY <2>3 DEF PaceInv
  <2>. QED  BY <2>4, <2>5 DEF Oscillator
<1>3. TypeInv /\ CalmInv /\ [Next]_vars => CalmInv'
  BY CalmNext
<1>. QED
  BY TypeInit, TypeNext, CalmInit, PaceInit, <1>1, <1>2, <1>3, PTL DEF Spec, Paced
=============================================================================
