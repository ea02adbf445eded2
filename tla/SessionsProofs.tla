--------------------------- MODULE SessionsProofs ---------------------------
(***************************************************************************)
(* For any number of sessions and jobs: the answer to an authorization     *)
(* goes before all work, and the last difficulty a miner is told is the    *)
(* one its shares are checked with.  A step of one session leaves the      *)
(* others as they are (Same); of its own session it sends, gives the lock  *)
(* away or does both, which the lemmas on Leaving turn into what happens   *)
(* to the sequence of all that is still to reach the miner.                *)
(***************************************************************************)
EXTENDS Sessions, SequenceTheorems, TLAPS

-----------------------------------------------------------------------------
(* Types.                                                                  *)

\* What a coroutine sends is a message.
LEMMA MessageTyped ==
    /\ Ok \in Messages /\ Answer \in Messages
    /\ \A d \in Difficulty \cup {0} : Message("difficulty", d) \in Messages
    /\ \A j \in Job : Message("job", j) \in Messages
BY DEF Ok, Answer, Message, Messages

\* A queue that is put in place of a session's is one, and its head is written.
LEMMA PutTyped ==
    ASSUME TypeOK, NEW s \in Session, NEW q \in Seq(Entries), Put(s, q)
    PROVE  /\ queue' \in [Session -> Seq(Entries)]
           /\ wire' \in [Session -> Seq(Messages)]
<1>1. queue' \in [Session -> Seq(Entries)]
  BY DEF TypeOK, Put
<1>2. wire[s] \in Seq(Messages)
  BY DEF TypeOK
<1>3. q # <<>> => Written(s, q[1].msg) \in Seq(Messages)
  <2>1. q # <<>> => q[1] \in Entries
    OBVIOUS
  <2>2. q # <<>> => q[1].msg \in Messages
    BY <2>1 DEF Entries
  <2> QED
    BY <1>2, <2>2 DEF Written
<1>4. wire' \in [Session -> Seq(Messages)]
  BY <1>2, <1>3 DEF TypeOK, Put
<1> QED
  BY <1>1, <1>4

\* Sending keeps the types of the lock's queue and of the wire,
LEMMA SendTyped ==
    ASSUME TypeOK, NEW s \in Session, NEW p \in Push \cup {Handler},
           NEW m \in Messages, Send(s, p, m)
    PROVE  /\ queue' \in [Session -> Seq(Entries)]
           /\ wire' \in [Session -> Seq(Messages)]
<1> DEFINE e == [task |-> p, msg |-> m]
<1>1. e \in Entries
  BY DEF Entries
<1>2. CASE s \in closed
  BY <1>2 DEF Send, TypeOK
<1>3. CASE s \notin closed /\ queue[s] = <<>>
  <2>1. <<e>> \in Seq(Entries)
    BY <1>1
  <2>2. Put(s, <<e>>)
    BY <1>3 DEF Send
  <2> QED
    BY <2>1, <2>2, PutTyped
<1>4. CASE s \notin closed /\ queue[s] # <<>>
  <2>1. Append(queue[s], e) \in Seq(Entries)
    BY <1>1 DEF TypeOK
  <2> QED
    BY <1>4, <2>1 DEF Send, TypeOK
<1> QED
  BY <1>2, <1>3, <1>4

\* and so does giving the lock away, with or without a next message.
LEMMA ReleaseTyped ==
    ASSUME TypeOK, NEW s \in Session, queue[s] # <<>>, Release(s)
    PROVE  /\ queue' \in [Session -> Seq(Entries)]
           /\ wire' \in [Session -> Seq(Messages)]
<1>1. Tail(queue[s]) \in Seq(Entries)
  BY DEF TypeOK
<1> QED
  BY <1>1, PutTyped DEF Release

\* which may be any.
LEMMA ReleaseAndSendTyped ==
    ASSUME TypeOK, NEW s \in Session, queue[s] # <<>>,
           NEW p \in Push \cup {Handler}, NEW m \in Messages,
           ReleaseAndSend(s, p, m)
    PROVE  /\ queue' \in [Session -> Seq(Entries)]
           /\ wire' \in [Session -> Seq(Messages)]
<1> DEFINE e == [task |-> p, msg |-> m]
<1>1. e \in Entries
  BY DEF Entries
<1>2. Tail(queue[s]) \in Seq(Entries)
  BY DEF TypeOK
<1>3. Append(Tail(queue[s]), e) \in Seq(Entries)
  BY <1>1, <1>2
<1> QED
  BY <1>3, PutTyped DEF ReleaseAndSend

\* Every step of a pushing coroutine keeps the types,
LEMMA PushTyped ==
    ASSUME SessionsAssumption, TypeOK, NEW s \in Session, NEW p \in Push,
           \/ PushDifficulty(s, p) \/ PushJob(s, p)
           \/ PushEnds(s, p) \/ PushFails(s, p)
    PROVE  TypeOK'
<1> USE DEF pushVars, sendVars, stopVars
<1>1. CASE PushDifficulty(s, p)
  <2> DEFINE d == IF p = Work THEN Initial ELSE difficulty[s]
  <2>1. d \in Difficulty \cup {0} /\ Message("difficulty", d) \in Messages
    BY MessageTyped DEF SessionsAssumption, TypeOK
  <2>2. /\ queue' \in [Session -> Seq(Entries)]
        /\ wire' \in [Session -> Seq(Messages)]
    BY <1>1, <2>1, SendTyped DEF PushDifficulty
  <2>3. starting' \in [Session -> Seq(Push)]
    BY <1>1 DEF PushDifficulty, TypeOK
  <2> QED
    BY <1>1, <2>1, <2>2, <2>3 DEF PushDifficulty, TypeOK
<1>2. CASE PushJob(s, p)
  <2> DEFINE j == IF p = Work THEN current ELSE p
  <2>1. j # 0 => Message("job", j) \in Messages
    BY MessageTyped DEF TypeOK, Push, Job, Work, SessionsAssumption
  <2>2. queue[s] # <<>>
    BY <1>2 DEF PushJob, Drained, Holds
  <2>3. /\ queue' \in [Session -> Seq(Entries)]
        /\ wire' \in [Session -> Seq(Messages)]
    BY <1>2, <2>1, <2>2, ReleaseTyped, ReleaseAndSendTyped DEF PushJob
  <2>4. push' \in [Session -> [Push -> {"none", "ready", "difficulty", "job", "failed"}]]
    <3>1. PICK step \in {"none", "job"} : PushStep(s, p, step)
      BY <1>2 DEF PushJob
    <3> QED
      BY <3>1 DEF PushStep, TypeOK
  <2>5. UNCHANGED starting
    BY <1>2 DEF PushJob, PushStep
  <2> QED
    BY <1>2, <2>3, <2>4, <2>5 DEF PushJob, TypeOK
<1>3. CASE PushEnds(s, p)
  <2>1. queue[s] # <<>>
    BY <1>3 DEF PushEnds, Drained, Holds
  <2>2. /\ queue' \in [Session -> Seq(Entries)]
        /\ wire' \in [Session -> Seq(Messages)]
    BY <1>3, <2>1, ReleaseTyped DEF PushEnds
  <2> QED
    BY <1>3, <2>2 DEF PushEnds, PushStep, TypeOK
<1>4. CASE PushFails(s, p)
  <2>1. queue[s] # <<>>
    BY <1>4 DEF PushFails, Raised, Holds
  <2>2. /\ queue' \in [Session -> Seq(Entries)]
        /\ wire' \in [Session -> Seq(Messages)]
    BY <1>4, <2>1, ReleaseTyped DEF PushFails, Freed
  <2> QED
    BY <1>4, <2>2 DEF PushFails, PushStep, TypeOK
<1> QED
  BY <1>1, <1>2, <1>3, <1>4

\* of a handler,
LEMMA HandlerTyped ==
    ASSUME TypeOK, NEW s \in Session, HandlerRuns(s)
    PROVE  TypeOK'
<1> USE DEF pushVars, sendVars, stopVars
<1>1. CASE Authorized(s)
  <2>1. queue[s] # <<>>
    BY <1>1 DEF Authorized, Drained, Holds
  <2>2. /\ queue' \in [Session -> Seq(Entries)]
        /\ wire' \in [Session -> Seq(Messages)]
    BY <1>1, <2>1, ReleaseTyped DEF Authorized
  <2>3. starting' \in [Session -> Seq(Push)]
    BY <1>1 DEF Authorized, TypeOK, Push
  <2> QED
    BY <1>1, <2>2, <2>3 DEF Authorized, Loop, Discarded, TypeOK
<1>2. CASE Answered(s)
  <2>1. queue[s] # <<>>
    BY <1>2 DEF Answered, Drained, Raised, Holds
  <2>2. /\ queue' \in [Session -> Seq(Entries)]
        /\ wire' \in [Session -> Seq(Messages)]
    BY <1>2, <2>1, ReleaseTyped DEF Answered, Freed
  <2> QED
    BY <1>2, <2>2 DEF Answered, Loop, Discarded, TypeOK
<1>3. CASE Checked(s)
  <2>1. /\ queue' \in [Session -> Seq(Entries)]
        /\ wire' \in [Session -> Seq(Messages)]
    BY <1>3, SendTyped, MessageTyped DEF Checked, OkFirst
  <2> QED
    BY <1>3, <2>1 DEF Checked, Loop, Discarded, TypeOK
<1>4. CASE KeepDifficulty(s)
  <2>1. queue[s] # <<>>
    BY <1>4 DEF KeepDifficulty, Drained, Raised, Holds
  <2>2. /\ queue' \in [Session -> Seq(Entries)]
        /\ wire' \in [Session -> Seq(Messages)]
    BY <1>4, <2>1, ReleaseTyped DEF KeepDifficulty, Freed
  <2> QED
    BY <1>4, <2>2 DEF KeepDifficulty, Loop, Discarded, TypeOK
<1>5. CASE \E d \in Difficulty : Retarget(s, d)
  <2>1. PICK d \in Difficulty : Retarget(s, d)
    BY <1>5
  <2>2. queue[s] # <<>>
    BY <2>1 DEF Retarget, Drained, Holds
  <2>3. /\ queue' \in [Session -> Seq(Entries)]
        /\ wire' \in [Session -> Seq(Messages)]
    BY <2>1, <2>2, ReleaseAndSendTyped, MessageTyped DEF Retarget
  <2> QED
    BY <2>1, <2>3 DEF Retarget, Assigned, TypeOK
<1>6. CASE CheckRaises(s)
  BY <1>6 DEF CheckRaises, Discarded, TypeOK
<1>7. CASE AnswerFails(s)
  <2>1. queue[s] # <<>>
    BY <1>7 DEF AnswerFails, Drained, Raised, Holds
  <2>2. /\ queue' \in [Session -> Seq(Entries)]
        /\ wire' \in [Session -> Seq(Messages)]
    BY <1>7, <2>1, ReleaseTyped DEF AnswerFails, Freed
  <2> QED
    BY <1>7, <2>2 DEF AnswerFails, End, Discarded, TypeOK
<1>8. CASE HandlerEnds(s)
  BY <1>8 DEF HandlerEnds, End, Discarded, TypeOK
<1> QED
  BY <1>1, <1>2, <1>3, <1>4, <1>5, <1>6, <1>7, <1>8 DEF HandlerRuns

\* an event is counted,
LEMMA ReadTyped ==
    ASSUME SessionsAssumption, TypeOK, Event
    PROVE  events' \in 0 .. MaxEvents
BY DEF Event, SessionsAssumption, TypeOK

\* and every step of a request, a miner or its connection keeps them.
LEMMA MinerTyped ==
    ASSUME SessionsAssumption, TypeOK, NEW s \in Session,
           \/ Connect(s) \/ ReadAuthorize(s) \/ ReadSubmit(s) \/ ReadOther(s)
           \/ Receive(s) \/ HangUp(s) \/ Flushed(s)
    PROVE  TypeOK'
<1> USE DEF pushVars, sendVars, stopVars
<1>1. CASE Connect(s)
  BY <1>1 DEF Connect, TypeOK
<1>2. CASE ReadAuthorize(s)
  <2>1. /\ queue' \in [Session -> Seq(Entries)]
        /\ wire' \in [Session -> Seq(Messages)]
    BY <1>2, SendTyped, MessageTyped DEF ReadAuthorize, OkFirst
  <2>2. events' \in 0 .. MaxEvents
    BY <1>2, ReadTyped DEF ReadAuthorize, Read
  <2>3. UNCHANGED pushVars
    BY <1>2 DEF ReadAuthorize, OkFirst
  <2> QED
    BY <1>2, <2>1, <2>2, <2>3 DEF ReadAuthorize, Read, TypeOK
<1>3. CASE ReadSubmit(s)
  <2>1. events' \in 0 .. MaxEvents
    BY <1>3, ReadTyped DEF ReadSubmit, Read
  <2> QED
    BY <1>3, <2>1 DEF ReadSubmit, Read, TypeOK
<1>4. CASE ReadOther(s)
  <2>1. /\ queue' \in [Session -> Seq(Entries)]
        /\ wire' \in [Session -> Seq(Messages)]
    BY <1>4, SendTyped, MessageTyped DEF ReadOther, OkFirst
  <2>2. events' \in 0 .. MaxEvents
    BY <1>4, ReadTyped DEF ReadOther, Read
  <2>3. UNCHANGED pushVars
    BY <1>4 DEF ReadOther, OkFirst
  <2> QED
    BY <1>4, <2>1, <2>2, <2>3 DEF ReadOther, Read, TypeOK
<1>5. CASE Receive(s)
  <2>1. wire[s] \in Seq(Messages) /\ wire[s] # <<>>
    BY <1>5 DEF Receive, TypeOK
  <2>2. Head(wire[s]) \in Messages /\ Tail(wire[s]) \in Seq(Messages)
    BY <2>1
  <2>3. wire' \in [Session -> Seq(Messages)]
    BY <1>5, <2>2 DEF Receive, TypeOK
  <2>4. told' \in [Session -> [ok : BOOLEAN, difficulty : Difficulty \cup {0},
                               job : 0 .. MaxJobs]]
    <3> DEFINE m == Head(wire[s])
               t == IF m.kind = "ok" THEN [told[s] EXCEPT !.ok = TRUE]
                    ELSE IF m.kind = "answer" THEN told[s]
                    ELSE [told[s] EXCEPT ![m.kind] = m.value]
    <3>. told[s] \in [ok : BOOLEAN, difficulty : Difficulty \cup {0},
                       job : 0 .. MaxJobs]
      BY DEF TypeOK
    <3>. HIDE DEF m
    <3>. SUFFICES t \in [ok : BOOLEAN, difficulty : Difficulty \cup {0},
                           job : 0 .. MaxJobs]
      BY <1>5 DEF Receive, TypeOK, m
    <3>1. CASE m.kind = "ok"
      BY <3>1
    <3>2. CASE m.kind = "answer"
      BY <3>2
    <3>3. CASE m.kind = "difficulty"
      <4>1. m.value \in Difficulty \cup {0}
        BY <2>2, <3>3 DEF Messages, m
      <4> QED
        BY <3>3, <4>1
    <3>4. CASE m.kind = "job"
      <4>1. m.value \in 0 .. MaxJobs
        BY <2>2, <3>4 DEF Messages, Job, SessionsAssumption, m
      <4> QED
        BY <3>4, <4>1
    <3> QED
      BY <2>2, <3>1, <3>2, <3>3, <3>4 DEF Messages, m
  <2> QED
    BY <1>5, <2>3, <2>4 DEF Receive, TypeOK
<1>6. CASE ConnectionLost(s) /\ (Event \/ UNCHANGED events)
  <2>1. Untold \in [ok : BOOLEAN, difficulty : Difficulty \cup {0},
                    job : 0 .. MaxJobs]
    BY DEF Untold, SessionsAssumption
  <2>2. told' \in [Session -> [ok : BOOLEAN, difficulty : Difficulty \cup {0},
                               job : 0 .. MaxJobs]]
    BY <1>6, <2>1 DEF ConnectionLost, TypeOK
  <2>3. wire' \in [Session -> Seq(Messages)]
    BY <1>6 DEF ConnectionLost, TypeOK
  <2>4. events' \in 0 .. MaxEvents
    BY <1>6, ReadTyped DEF TypeOK
  <2> QED
    BY <1>6, <2>2, <2>3, <2>4 DEF ConnectionLost, TypeOK
<1> QED
  BY <1>1, <1>2, <1>3, <1>4, <1>5, <1>6 DEF HangUp, Flushed

\* So do a job, its broadcast and the stop.
LEMMA ServerTyped ==
    ASSUME SessionsAssumption, TypeOK,
           NewJob \/ StopBegins \/ BroadcastRuns \/ StopRuns
    PROVE  TypeOK'
<1> USE DEF pushVars, sendVars, stopVars
<1>1. CASE NewJob
  <2>1. events' \in 0 .. MaxEvents
    BY <1>1, ReadTyped DEF NewJob
  <2>2. current' \in 0 .. MaxJobs /\ scheduled' \subseteq Job
    BY <1>1 DEF NewJob, Job, SessionsAssumption, TypeOK
  <2> QED
    BY <1>1, <2>1, <2>2 DEF NewJob, TypeOK
<1>2. CASE StopBegins
  <2>1. events' \in 0 .. MaxEvents
    BY <1>2, ReadTyped DEF StopBegins
  <2> QED
    BY <1>2, <2>1 DEF StopBegins, TypeOK
<1>3. ASSUME NEW j \in Job, Broadcast(j)
      PROVE  TypeOK'
  <2>1. j \in Push
    BY DEF Push
  <2>2. starting' \in [Session -> Seq(Push)]
    BY <1>3, <2>1 DEF Broadcast, TypeOK
  <2>3. push' \in [Session -> [Push -> {"none", "ready", "difficulty", "job", "failed"}]]
    BY <1>3, <2>1 DEF Broadcast, TypeOK
  <2> QED
    BY <1>3, <2>2, <2>3 DEF Broadcast, TypeOK
<1>4. ASSUME NEW j \in Job, Gathered(j)
      PROVE  TypeOK'
  <2>1. push' \in [Session -> [Push -> {"none", "ready", "difficulty", "job", "failed"}]]
    BY <1>4 DEF Gathered, Push, TypeOK
  <2> QED
    BY <1>4, <2>1 DEF Gathered, TypeOK
<1>5. CASE StopRuns
  BY <1>5 DEF StopRuns, StopCloses, Closed, StopGoesOn, StopListening,
     StopReturns, TypeOK
<1> QED
  BY <1>1, <1>2, <1>3, <1>4, <1>5 DEF BroadcastRuns

\* Every step of the pool's sessions is one of these.
LEMMA NextTyped ==
    ASSUME SessionsAssumption, TypeOK, [Next]_vars
    PROVE  TypeOK'
<1>1. CASE Next
  <2>1. CASE NewJob \/ StopBegins \/ BroadcastRuns \/ StopRuns
    BY <2>1, ServerTyped
  <2>2. ASSUME NEW s \in Session, HandlerRuns(s)
        PROVE  TypeOK'
    BY <2>2, HandlerTyped
  <2>3. ASSUME NEW s \in Session, PushRuns(s)
        PROVE  TypeOK'
    BY <2>3, PushTyped DEF PushRuns
  <2>4. ASSUME NEW s \in Session,
               \/ Connect(s) \/ ReadAuthorize(s) \/ ReadSubmit(s) \/ ReadOther(s)
               \/ Receive(s) \/ HangUp(s) \/ Flushed(s)
        PROVE  TypeOK'
    BY <2>4, MinerTyped
  <2> QED
    BY <1>1, <2>1, <2>2, <2>3, <2>4 DEF Next, LoopRuns
<1>2. CASE UNCHANGED vars
  BY <1>2 DEF vars, sendVars, pushVars, stopVars, TypeOK
<1> QED
  BY <1>1, <1>2

\* Nothing that is sent, waits or is read is of another kind than the server
\* and its miners know: no step leaves the states the model describes.
THEOREM SessionsTyped == Spec => []TypeOK
<1>1. Init => TypeOK
  BY SessionsAssumption DEF Init, Untold, TypeOK, SessionsAssumption
<1>2. TypeOK /\ [Next]_vars => TypeOK'
  BY SessionsAssumption, NextTyped
<1> QED
  BY <1>1, <1>2, PTL DEF Spec

-----------------------------------------------------------------------------
(* What leaves a connection that is open.                                  *)

Leaving(q, w) == w \o Waiting(q)

\* First what was written, in its order, and then what waits, in its order.
LEMMA LeavingTyped ==
    ASSUME NEW q \in Seq(Entries), NEW w \in Seq(Messages)
    PROVE  /\ Leaving(q, w) \in Seq(Messages)
           /\ Len(Leaving(q, w)) =
                 IF q = <<>> THEN Len(w) ELSE Len(w) + Len(q) - 1
           /\ \A i \in 1 .. Len(w) : Leaving(q, w)[i] = w[i]
           /\ \A i \in 1 .. Len(q) - 1 : Leaving(q, w)[Len(w) + i] = q[i + 1].msg
<1>1. q \in Seq(Entries) /\ w \in Seq(Messages)
  OBVIOUS
<1>2. q = <<>> => Len(Waiting(q)) = 0
  <2>1. q = <<>> => Waiting(q) = <<>>
    BY DEF Waiting
  <2> QED
    BY <2>1
<1>3. ASSUME q # <<>>
      PROVE  /\ Waiting(q) \in Seq(Messages)
             /\ Len(Waiting(q)) = Len(q) - 1
             /\ \A i \in 1 .. Len(Waiting(q)) : Waiting(q)[i] = q[i + 1].msg
  <2>1. Len(q) - 1 \in Nat
    BY <1>1, <1>3
  <2>2. \A i \in 1 .. Len(q) - 1 : q[i + 1].msg \in Messages
    <3>1. \A i \in 1 .. Len(q) - 1 : q[i + 1] \in Entries
      BY <1>1
    <3> QED
      BY <3>1 DEF Entries
  <2>3. Waiting(q) = [i \in 1 .. Len(q) - 1 |-> q[i + 1].msg]
    BY <1>3 DEF Waiting
  <2>4. /\ Waiting(q) \in Seq(Messages)
        /\ Len(Waiting(q)) = Len(q) - 1
        /\ \A i \in 1 .. Len(Waiting(q)) : Waiting(q)[i] = q[i + 1].msg
    BY <2>1, <2>2, <2>3
  <2> QED
    BY <1>3, <2>4
<1>4. /\ Waiting(q) \in Seq(Messages)
      /\ \A i \in 1 .. Len(Waiting(q)) : Waiting(q)[i] = q[i + 1].msg
  <2>1. CASE q = <<>>
    <3>1. Waiting(q) = <<>>
      BY <2>1 DEF Waiting
    <3>2. Waiting(q) \in Seq(Messages) /\ Len(Waiting(q)) = 0
      BY <3>1
    <3> QED
      BY <3>2
  <2> QED
    BY <1>3, <2>1
<1>5. /\ Leaving(q, w) \in Seq(Messages)
      /\ Len(Leaving(q, w)) = Len(w) + Len(Waiting(q))
      /\ \A i \in 1 .. Len(w) + Len(Waiting(q)) : Leaving(q, w)[i] =
            IF i <= Len(w) THEN w[i] ELSE Waiting(q)[i - Len(w)]
  BY <1>1, <1>4, ConcatProperties DEF Leaving
<1>6. Len(w) \in Nat /\ Len(Waiting(q)) \in Nat
  BY <1>1, <1>4, LenProperties
<1>7. ASSUME NEW i \in 1 .. Len(Waiting(q))
      PROVE  Leaving(q, w)[Len(w) + i] = Waiting(q)[i]
  <2> DEFINE k == Len(w) + i
  <2>1. /\ k \in 1 .. Len(w) + Len(Waiting(q))
        /\ ~(k <= Len(w))
        /\ k - Len(w) = i
    BY <1>6
  <2>. HIDE DEF k
  <2>2. Leaving(q, w)[k] = Waiting(q)[k - Len(w)]
    BY <1>5, <2>1
  <2>3. Leaving(q, w)[k] = Waiting(q)[i]
    BY <2>1, <2>2
  <2> QED
    BY <2>3 DEF k
<1>8. \A i \in 1 .. Len(w) : Leaving(q, w)[i] = w[i]
  BY <1>5, <1>6
<1>9. Len(Leaving(q, w)) = IF q = <<>> THEN Len(w) ELSE Len(w) + Len(q) - 1
  <2>1. CASE q = <<>>
    <3>1. Len(w) + Len(Waiting(q)) = Len(w)
      BY <1>2, <1>6, <2>1
    <3> QED
      BY <1>5, <2>1, <3>1, Zenon
  <2>2. CASE q # <<>>
    <3>1. Len(q) \in Nat
      BY <1>1, LenProperties
    <3>2. Len(w) + Len(Waiting(q)) = Len(w) + Len(q) - 1
      BY <1>3, <1>6, <2>2, <3>1
    <3> QED
      BY <1>5, <2>2, <3>2, Zenon
  <2> QED
    BY <2>1, <2>2
<1>10. \A i \in 1 .. Len(q) - 1 : Leaving(q, w)[Len(w) + i] = q[i + 1].msg
  <2>1. q # <<>> => Len(q) - 1 = Len(Waiting(q))
    BY <1>3
  <2>2. CASE q = <<>>
    <3>1. 1 .. Len(q) - 1 = {}
      BY <2>2
    <3> QED
      BY <3>1
  <2>3. CASE q # <<>>
    BY <1>4, <1>7, <2>1, <2>3, Zenon
  <2> QED
    BY <2>2, <2>3
<1> QED
  BY <1>5, <1>8, <1>9, <1>10

\* Who asks for the lock puts a message after all the others,
LEMMA LeavingAppend ==
    ASSUME NEW q \in Seq(Entries), NEW w \in Seq(Messages), NEW e \in Entries
    PROVE  IF q = <<>>
           THEN Leaving(<<e>>, Append(w, e.msg)) = Append(Leaving(q, w), e.msg)
           ELSE Leaving(Append(q, e), w) = Append(Leaving(q, w), e.msg)
<1> DEFINE r == Append(q, e)
           x == IF q = <<>> THEN Append(w, e.msg) ELSE w
<1>1. e.msg \in Messages
  BY DEF Entries
<1>2. /\ r \in Seq(Entries) /\ r # <<>> /\ Len(r) = Len(q) + 1
      /\ r[Len(q) + 1] = e
      /\ \A i \in 1 .. Len(q) : r[i] = q[i]
  BY AppendProperties
<1>3. x \in Seq(Messages)
  BY <1>1
<1>4. q = <<>> => r = <<e>>
  OBVIOUS
<1>5. SUFFICES Leaving(r, x) = Append(Leaving(q, w), e.msg)
  BY <1>4
<1>6. Len(q) \in Nat /\ Len(w) \in Nat /\ (q = <<>> <=> Len(q) = 0)
  OBVIOUS
<1>. HIDE DEF r, x
<1>7. /\ Leaving(r, x) \in Seq(Messages)
      /\ Len(Leaving(r, x)) = Len(x) + Len(q)
      /\ \A i \in 1 .. Len(x) : Leaving(r, x)[i] = x[i]
      /\ \A i \in 1 .. Len(q) : Leaving(r, x)[Len(x) + i] = r[i + 1].msg
  <2>1. Len(r) - 1 = Len(q) /\ Len(x) + Len(r) - 1 = Len(x) + Len(q)
    BY <1>2, <1>3, <1>6, LenProperties
  <2>2. /\ Leaving(r, x) \in Seq(Messages)
        /\ Len(Leaving(r, x)) =
              IF r = <<>> THEN Len(x) ELSE Len(x) + Len(r) - 1
        /\ \A i \in 1 .. Len(x) : Leaving(r, x)[i] = x[i]
        /\ \A i \in 1 .. Len(r) - 1 : Leaving(r, x)[Len(x) + i] = r[i + 1].msg
    BY <1>2, <1>3, LeavingTyped
  <2> QED
    BY <1>2, <2>1, <2>2
<1>8. /\ Leaving(q, w) \in Seq(Messages)
      /\ Len(Leaving(q, w)) = IF q = <<>> THEN Len(w) ELSE Len(w) + Len(q) - 1
      /\ \A i \in 1 .. Len(w) : Leaving(q, w)[i] = w[i]
      /\ \A i \in 1 .. Len(q) - 1 : Leaving(q, w)[Len(w) + i] = q[i + 1].msg
  BY LeavingTyped
<1>9. /\ Append(Leaving(q, w), e.msg) \in Seq(Messages)
      /\ Len(Append(Leaving(q, w), e.msg)) = Len(Leaving(q, w)) + 1
      /\ \A i \in 1 .. Len(Leaving(q, w)) :
            Append(Leaving(q, w), e.msg)[i] = Leaving(q, w)[i]
      /\ Append(Leaving(q, w), e.msg)[Len(Leaving(q, w)) + 1] = e.msg
  BY <1>1, <1>8, AppendProperties
<1>10. CASE q = <<>>
  <2>1. x = Append(w, e.msg) /\ Len(q) = 0
    BY <1>6, <1>10 DEF x
  <2>2. /\ Len(x) = Len(w) + 1 /\ x[Len(w) + 1] = e.msg
        /\ \A i \in 1 .. Len(w) : x[i] = w[i]
    BY <1>1, <2>1, AppendProperties
  <2>3. Len(Leaving(r, x)) = Len(w) + 1 /\ Len(Leaving(q, w)) = Len(w)
    BY <1>6, <1>7, <1>8, <1>10, <2>1, <2>2
  <2>4. ASSUME NEW i \in 1 .. Len(w) + 1
        PROVE  Leaving(r, x)[i] = Append(Leaving(q, w), e.msg)[i]
    <3>1. CASE i = Len(w) + 1
      BY <1>6, <1>7, <1>9, <2>2, <2>3, <3>1
    <3>2. CASE i \in 1 .. Len(w)
      BY <1>6, <1>7, <1>8, <1>9, <2>2, <2>3, <3>2
    <3>3. i = Len(w) + 1 \/ i \in 1 .. Len(w)
      BY <1>6
    <3> QED
      BY <3>1, <3>2, <3>3, Zenon
  <2> QED
    BY <1>7, <1>9, <2>3, <2>4, SeqEqual
<1>11. CASE q # <<>>
  <2>1. x = w /\ Len(q) > 0
    BY <1>6, <1>11 DEF x
  <2>2. /\ Len(Leaving(r, x)) = Len(w) + Len(q)
        /\ Len(Leaving(q, w)) = Len(w) + Len(q) - 1
        /\ Len(Append(Leaving(q, w), e.msg)) = Len(w) + Len(q)
    BY <1>6, <1>7, <1>8, <1>9, <1>11, <2>1
  <2>3. ASSUME NEW i \in 1 .. Len(w) + Len(q)
        PROVE  Leaving(r, x)[i] = Append(Leaving(q, w), e.msg)[i]
    <3>1. CASE i \in 1 .. Len(w)
      BY <1>6, <1>7, <1>8, <1>9, <2>1, <2>2, <3>1
    <3>2. CASE i \in Len(w) + 1 .. Len(w) + Len(q)
      <4> DEFINE k == i - Len(w)
      <4>1. k \in 1 .. Len(q) /\ i = Len(w) + k
        BY <1>6, <3>2
      <4>. HIDE DEF k
      <4>2. Leaving(r, x)[i] = r[k + 1].msg
        BY <1>7, <2>1, <4>1
      <4>3. CASE k = Len(q)
        BY <1>2, <1>6, <1>9, <2>2, <4>1, <4>2, <4>3
      <4>4. CASE k \in 1 .. Len(q) - 1
        <5>1. k + 1 \in 1 .. Len(q) /\ i \in 1 .. Len(Leaving(q, w))
          BY <1>6, <2>2, <4>1, <4>4
        <5>2. Leaving(q, w)[i] = q[k + 1].msg
          BY <1>8, <4>1, <4>4
        <5> QED
          BY <1>2, <1>9, <4>2, <5>1, <5>2
      <4>5. k = Len(q) \/ k \in 1 .. Len(q) - 1
        BY <1>6, <4>1
      <4> QED
        BY <4>3, <4>4, <4>5, Zenon
    <3>3. i \in 1 .. Len(w) \/ i \in Len(w) + 1 .. Len(w) + Len(q)
      BY <1>6
    <3> QED
      BY <3>1, <3>2, <3>3, Zenon
  <2> QED
    BY <1>7, <1>9, <2>2, <2>3, SeqEqual
<1> QED
  BY <1>10, <1>11

\* who gives it away leaves them as they are,
LEMMA LeavingRelease ==
    ASSUME NEW q \in Seq(Entries), NEW w \in Seq(Messages), q # <<>>
    PROVE  IF Tail(q) = <<>> THEN Leaving(Tail(q), w) = Leaving(q, w)
           ELSE Leaving(Tail(q), Append(w, Tail(q)[1].msg)) = Leaving(q, w)
<1> DEFINE r == Tail(q)
           n == Len(q)
           o == Leaving(q, w)
<1>1. /\ r \in Seq(Entries) /\ Len(r) = n - 1
      /\ \A i \in 1 .. n - 1 : r[i] = q[i + 1]
  BY HeadTailProperties
<1>2. n \in Nat /\ n > 0 /\ Len(w) \in Nat
  OBVIOUS
<1>3. /\ o \in Seq(Messages) /\ Len(o) = Len(w) + n - 1
      /\ \A i \in 1 .. Len(w) : o[i] = w[i]
      /\ \A i \in 1 .. n - 1 : o[Len(w) + i] = q[i + 1].msg
  BY LeavingTyped
<1>4. r = <<>> <=> n = 1
  <2>. HIDE DEF r, n
  <2>1. r = <<>> <=> Len(r) = 0
    BY <1>1, EmptySeq
  <2> QED
    BY <1>1, <1>2, <2>1
<1>. HIDE DEF r, n, o
<1>5. CASE r = <<>>
  <2>1. /\ Leaving(r, w) \in Seq(Messages) /\ Len(Leaving(r, w)) = Len(w)
        /\ \A i \in 1 .. Len(w) : Leaving(r, w)[i] = w[i]
    BY <1>1, <1>5, LeavingTyped
  <2>2. Len(o) = Len(w)
    BY <1>2, <1>3, <1>4, <1>5
  <2>3. Leaving(r, w) = o
    BY <1>3, <2>1, <2>2, SeqEqual
  <2> QED
    BY <1>5, <2>3 DEF r, o
<1>6. CASE r # <<>>
  <2> DEFINE m == r[1].msg
             x == Append(w, m)
             l == Leaving(r, x)
  <2>1. 1 \in 1 .. n - 1 /\ Len(r) - 1 = n - 2
    BY <1>1, <1>2, <1>4, <1>6
  <2>2. r[1] = q[2] /\ r[1] \in Entries
    BY <1>1, <1>6, <2>1
  <2>3. m \in Messages
    BY <2>2 DEF Entries
  <2>. HIDE DEF m
  <2>4. /\ x \in Seq(Messages) /\ Len(x) = Len(w) + 1 /\ x[Len(w) + 1] = m
        /\ \A i \in 1 .. Len(w) : x[i] = w[i]
    BY <2>3, AppendProperties
  <2>. HIDE DEF x
  <2>5. /\ l \in Seq(Messages) /\ Len(l) = Len(x) + Len(r) - 1
        /\ \A i \in 1 .. Len(x) : l[i] = x[i]
        /\ \A i \in 1 .. Len(r) - 1 : l[Len(x) + i] = r[i + 1].msg
    BY <1>1, <1>6, <2>4, LeavingTyped
  <2>. HIDE DEF l
  <2>6. Len(l) = Len(o)
    BY <1>1, <1>2, <1>3, <2>4, <2>5
  <2>7. ASSUME NEW i \in 1 .. Len(o)
        PROVE  l[i] = o[i]
    <3>1. CASE i \in 1 .. Len(w)
      <4>1. i \in 1 .. Len(x)
        BY <1>2, <2>4, <3>1
      <4> QED
        BY <1>3, <2>4, <2>5, <3>1, <4>1, Zenon
    <3>2. CASE i = Len(w) + 1
      <4>1. i \in 1 .. Len(x)
        BY <1>2, <2>4, <3>2
      <4>2. l[i] = m
        BY <2>4, <2>5, <3>2, <4>1, Zenon
      <4>3. o[i] = q[1 + 1].msg
        BY <1>3, <2>1, <3>2, Zenon
      <4> QED
        BY <2>2, <4>2, <4>3 DEF m
    <3>3. CASE i \in Len(w) + 2 .. Len(o)
      <4> DEFINE k == i - Len(w) - 1
      <4>1. /\ k \in 1 .. n - 2 /\ i = Len(x) + k
            /\ k + 1 \in 1 .. n - 1 /\ i = Len(w) + (k + 1)
        BY <1>2, <1>3, <2>4, <3>3
      <4>. HIDE DEF k
      <4>2. l[i] = r[k + 1].msg
        BY <2>1, <2>5, <4>1, Zenon
      <4>3. o[i] = q[k + 1 + 1].msg
        BY <1>3, <4>1, Zenon
      <4>4. r[k + 1] = q[k + 1 + 1]
        BY <1>1, <4>1, Zenon
      <4> QED
        BY <4>2, <4>3, <4>4
    <3>4. i \in 1 .. Len(w) \/ i = Len(w) + 1 \/ i \in Len(w) + 2 .. Len(o)
      BY <1>2, <1>3
    <3> QED
      BY <3>1, <3>2, <3>3, <3>4, Zenon
  <2>8. l = o
    BY <1>3, <2>5, <2>6, <2>7, SeqEqual
  <2> QED
    BY <1>6, <2>8 DEF r, o, l, x, m
<1> QED
  BY <1>5, <1>6 DEF r

\* and who gives it away and asks for it again puts one after the others.
LEMMA LeavingReleaseAndSend ==
    ASSUME NEW q \in Seq(Entries), NEW w \in Seq(Messages), q # <<>>,
           NEW e \in Entries
    PROVE  LET r == Append(Tail(q), e)
           IN  Leaving(r, Append(w, r[1].msg)) = Append(Leaving(q, w), e.msg)
<1> DEFINE t == Tail(q)
           r == Append(t, e)
<1>1. t \in Seq(Entries)
  BY HeadTailProperties
<1>2. CASE t = <<>>
  <2>1. r = <<e>> /\ <<e>>[1] = e
    <3>. HIDE DEF t
    <3> QED
      BY <1>2 DEF r
  <2>2. Leaving(r, Append(w, e.msg)) = Append(Leaving(t, w), e.msg)
    BY <1>1, <1>2, <2>1, LeavingAppend
  <2>3. Leaving(t, w) = Leaving(q, w)
    BY <1>2, LeavingRelease
  <2> QED
    BY <2>1, <2>2, <2>3
<1>3. CASE t # <<>>
  <2> DEFINE x == Append(w, t[1].msg)
  <2>1. Len(t) \in Nat /\ 1 \in 1 .. Len(t)
    BY <1>1, <1>3
  <2>2. r[1] = t[1] /\ t[1] \in Entries
    BY <1>1, <2>1, AppendProperties
  <2>3. x \in Seq(Messages)
    <3>1. t[1].msg \in Messages
      BY <2>2, Zenon DEF Entries
    <3> QED
      BY <3>1, AppendProperties
  <2>4. Leaving(r, x) = Append(Leaving(t, x), e.msg)
    BY <1>1, <1>3, <2>3, LeavingAppend
  <2>5. Leaving(t, x) = Leaving(q, w)
    BY <1>3, LeavingRelease
  <2> QED
    BY <2>2, <2>4, <2>5
<1> QED
  BY <1>2, <1>3

\* The miner reads the oldest message.
LEMMA LeavingReceive ==
    ASSUME NEW q \in Seq(Entries), NEW w \in Seq(Messages), w # <<>>
    PROVE  /\ Leaving(q, w) # <<>>
           /\ Head(Leaving(q, w)) = Head(w)
           /\ Leaving(q, Tail(w)) = Tail(Leaving(q, w))
<1> DEFINE o == Leaving(q, w)
           x == Tail(w)
           l == Leaving(q, x)
           n == IF q = <<>> THEN 0 ELSE Len(q) - 1
<1>1. /\ x \in Seq(Messages) /\ Len(x) = Len(w) - 1
      /\ \A i \in 1 .. Len(w) - 1 : x[i] = w[i + 1]
  BY HeadTailProperties
<1>2. Len(w) \in Nat /\ Len(w) > 0 /\ n \in Nat
  OBVIOUS
<1>3. n \in Nat /\ (q = <<>> => Len(q) = 0) /\ (q # <<>> => n = Len(q) - 1)
  OBVIOUS
<1>. HIDE DEF n
<1>4. /\ o \in Seq(Messages) /\ Len(o) = Len(w) + n
      /\ \A i \in 1 .. Len(w) : o[i] = w[i]
      /\ \A i \in 1 .. Len(q) - 1 : o[Len(w) + i] = q[i + 1].msg
  BY <1>2, LeavingTyped DEF n
<1>5. /\ l \in Seq(Messages) /\ Len(l) = Len(x) + n
      /\ \A i \in 1 .. Len(x) : l[i] = x[i]
      /\ \A i \in 1 .. Len(q) - 1 : l[Len(x) + i] = q[i + 1].msg
  <2>. HIDE DEF x
  <2>1. /\ l \in Seq(Messages)
        /\ Len(l) = IF q = <<>> THEN Len(x) ELSE Len(x) + Len(q) - 1
        /\ \A i \in 1 .. Len(x) : l[i] = x[i]
        /\ \A i \in 1 .. Len(q) - 1 : l[Len(x) + i] = q[i + 1].msg
    BY <1>1, LeavingTyped
  <2>. HIDE DEF l
  <2>2. Len(x) \in Nat /\ Len(q) \in Nat
    BY <1>1, <1>2
  <2> QED
    BY <2>1, <2>2 DEF n
<1>. HIDE DEF o, l, x
<1>6. o # <<>> /\ Head(o) = Head(w)
  BY <1>2, <1>4
<1>7. /\ Tail(o) \in Seq(Messages) /\ Len(Tail(o)) = Len(o) - 1
      /\ \A i \in 1 .. Len(Tail(o)) : Tail(o)[i] = o[i + 1]
  BY <1>4, <1>6, HeadTailProperties
<1>8. Len(l) = Len(Tail(o))
  BY <1>1, <1>2, <1>4, <1>5, <1>7
<1>9. ASSUME NEW i \in 1 .. Len(l)
      PROVE  l[i] = o[i + 1]
  <2>1. CASE i \in 1 .. Len(x)
    <3>1. i + 1 \in 1 .. Len(w) /\ i \in 1 .. Len(w) - 1
      BY <1>1, <1>2, <2>1
    <3> QED
      BY <1>1, <1>4, <1>5, <2>1, <3>1, Zenon
  <2>2. CASE i \in Len(x) + 1 .. Len(l)
    <3> DEFINE k == i - Len(x)
    <3>1. Len(q) \in Nat /\ n > 0 /\ n = Len(q) - 1
      <4>1. Len(x) \in Nat /\ Len(l) = Len(x) + n
        BY <1>1, <1>2, <1>5
      <4>2. n > 0
        BY <1>2, <2>2, <4>1
      <4>3. q # <<>>
        BY <4>2 DEF n
      <4> QED
        BY <1>3, <4>2, <4>3, LenProperties
    <3>2. k \in 1 .. Len(q) - 1 /\ i = Len(x) + k /\ i + 1 = Len(w) + k
      BY <1>1, <1>2, <1>5, <2>2, <3>1
    <3>. HIDE DEF k
    <3> QED
      BY <1>4, <1>5, <3>2, Zenon
  <2>3. i \in 1 .. Len(x) \/ i \in Len(x) + 1 .. Len(l)
    BY <1>1, <1>2
  <2> QED
    BY <2>1, <2>2, <2>3, Zenon
<1>10. l = Tail(o)
  BY <1>5, <1>7, <1>8, <1>9, SeqEqual
<1> QED
  BY <1>6, <1>10 DEF o, l, x

-----------------------------------------------------------------------------
(* One session at a time.                                                  *)

Open(s) == s \notin closed /\ s \notin lost

\* What was written to an open connection and what waits to be, in a step.
LEMMA SendLeaves ==
    ASSUME TypeOK, NEW s \in Session, s \notin closed, s \notin lost,
           NEW p \in Push \cup {Handler}, NEW m \in Messages, Send(s, p, m)
    PROVE  Leaving(queue'[s], wire'[s]) = Append(Leaving(queue[s], wire[s]), m)
<1> DEFINE e == [task |-> p, msg |-> m]
<1>1. queue[s] \in Seq(Entries) /\ wire[s] \in Seq(Messages)
  BY DEF TypeOK
<1>2. e \in Entries /\ e.msg = m
  BY DEF Entries
<1>3. CASE queue[s] = <<>>
  <2>1. Put(s, <<e>>)
    BY <1>3 DEF Send
  <2>2. queue'[s] = <<e>> /\ wire'[s] = Append(wire[s], m)
    BY <1>1, <2>1 DEF Put, Written, TypeOK
  <2>. HIDE DEF e
  <2>3. Leaving(<<e>>, Append(wire[s], e.msg))
           = Append(Leaving(queue[s], wire[s]), e.msg)
    BY <1>1, <1>2, <1>3, LeavingAppend
  <2> QED
    BY <1>2, <2>2, <2>3
<1>4. CASE queue[s] # <<>>
  <2>1. queue'[s] = Append(queue[s], e) /\ wire'[s] = wire[s]
    BY <1>4 DEF Send, TypeOK
  <2> QED
    BY <1>1, <1>2, <1>4, <2>1, LeavingAppend
<1> QED
  BY <1>3, <1>4

\* Giving the lock away writes the next message, which was waiting,
LEMMA ReleaseLeaves ==
    ASSUME TypeOK, NEW s \in Session, s \notin closed, s \notin lost,
           queue[s] # <<>>, Release(s)
    PROVE  Leaving(queue'[s], wire'[s]) = Leaving(queue[s], wire[s])
<1> DEFINE r == Tail(queue[s])
<1>1. queue[s] \in Seq(Entries) /\ wire[s] \in Seq(Messages)
  BY DEF TypeOK
<1>. HIDE DEF r
<1>2. /\ queue'[s] = r
      /\ wire'[s] = IF r = <<>> THEN wire[s] ELSE Append(wire[s], r[1].msg)
  BY DEF Release, Put, Written, TypeOK, r
<1> QED
  BY <1>1, <1>2, LeavingRelease DEF r

\* and asking for it again puts a message after the others.
LEMMA ReleaseAndSendLeaves ==
    ASSUME TypeOK, NEW s \in Session, s \notin closed, s \notin lost,
           queue[s] # <<>>, NEW p \in Push \cup {Handler}, NEW m \in Messages,
           ReleaseAndSend(s, p, m)
    PROVE  Leaving(queue'[s], wire'[s]) = Append(Leaving(queue[s], wire[s]), m)
<1> DEFINE e == [task |-> p, msg |-> m]
           r == Append(Tail(queue[s]), e)
<1>1. queue[s] \in Seq(Entries) /\ wire[s] \in Seq(Messages)
  BY DEF TypeOK
<1>2. e \in Entries /\ e.msg = m
  BY DEF Entries
<1>3. r # <<>>
  BY <1>1, <1>2, HeadTailProperties, AppendProperties
<1>4. Put(s, r)
  BY DEF ReleaseAndSend
<1>. HIDE DEF r
<1>5. queue'[s] = r /\ wire'[s] = Append(wire[s], r[1].msg)
  BY <1>3, <1>4 DEF Put, Written, TypeOK
<1> QED
  BY <1>1, <1>2, <1>5, LeavingReleaseAndSend DEF r

\* A step of one session changes nothing of another.
Same(t) ==
    /\ queue'[t] = queue[t] /\ wire'[t] = wire[t] /\ told'[t] = told[t]
    /\ difficulty'[t] = difficulty[t] /\ handler'[t] = handler[t]
    /\ push'[t] = push[t] /\ starting'[t] = starting[t]
    /\ (t \in connected' <=> t \in connected)
    /\ (t \in authorized' <=> t \in authorized)
    /\ (t \in closed' <=> t \in closed) /\ (t \in lost' <=> t \in lost)

\* Each session has its own lock and connection,
LEMMA QueueElsewhere ==
    ASSUME TypeOK, NEW s \in Session, NEW t \in Session, s # t, NEW p, NEW m,
           \/ Send(s, p, m) \/ Release(s) \/ ReleaseAndSend(s, p, m)
    PROVE  queue'[t] = queue[t] /\ wire'[t] = wire[t]
BY DEF Send, Release, ReleaseAndSend, Put, TypeOK

\* so a push,
LEMMA PushElsewhere ==
    ASSUME TypeOK, NEW s \in Session, NEW t \in Session, s # t, NEW p \in Push,
           \/ PushDifficulty(s, p) \/ PushJob(s, p)
           \/ PushEnds(s, p) \/ PushFails(s, p)
    PROVE  Same(t)
<1>1. queue'[t] = queue[t] /\ wire'[t] = wire[t]
  BY QueueElsewhere DEF PushDifficulty, PushJob, PushEnds, PushFails, Freed
<1>2. /\ push'[t] = push[t] /\ starting'[t] = starting[t]
      /\ difficulty'[t] = difficulty[t]
  BY DEF PushDifficulty, PushJob, PushEnds, PushFails, PushStep, TypeOK
<1> QED
  BY <1>1, <1>2 DEF PushDifficulty, PushJob, PushEnds, PushFails, Same

\* a handler,
LEMMA HandlerElsewhere ==
    ASSUME TypeOK, NEW s \in Session, NEW t \in Session, s # t, HandlerRuns(s)
    PROVE  Same(t)
<1> USE DEF pushVars, sendVars
<1>1. queue'[t] = queue[t] /\ wire'[t] = wire[t]
  BY QueueElsewhere DEF HandlerRuns, Authorized, Answered, Checked,
     KeepDifficulty, Retarget, CheckRaises, AnswerFails, HandlerEnds, Freed
<1>2. /\ push'[t] = push[t] /\ starting'[t] = starting[t]
      /\ difficulty'[t] = difficulty[t] /\ handler'[t] = handler[t]
  BY DEF HandlerRuns, Authorized, Answered, Checked, KeepDifficulty, Retarget,
     Assigned, CheckRaises, AnswerFails, HandlerEnds, End, Loop, TypeOK
<1> QED
  BY <1>1, <1>2 DEF HandlerRuns, Authorized, Answered, Checked, KeepDifficulty,
     Retarget, CheckRaises, AnswerFails, HandlerEnds, End, Same

\* a request, a miner and its connection touch one session.
LEMMA MinerElsewhere ==
    ASSUME TypeOK, NEW s \in Session, NEW t \in Session, s # t,
           \/ Connect(s) \/ ReadAuthorize(s) \/ ReadSubmit(s) \/ ReadOther(s)
           \/ Receive(s) \/ HangUp(s) \/ Flushed(s)
    PROVE  Same(t)
<1> USE DEF pushVars, sendVars
<1>1. queue'[t] = queue[t] /\ wire'[t] = wire[t]
  BY QueueElsewhere DEF Connect, ReadAuthorize, OkFirst, ReadSubmit, ReadOther,
     Receive, HangUp, Flushed, ConnectionLost, TypeOK
<1>2. push'[t] = push[t] /\ starting'[t] = starting[t]
  BY DEF Connect, ReadAuthorize, OkFirst, ReadSubmit, ReadOther, Receive, HangUp,
     Flushed, ConnectionLost
<1>3. handler'[t] = handler[t]
  BY DEF Connect, ReadAuthorize, ReadSubmit, ReadOther, Receive, HangUp, Flushed,
     ConnectionLost, TypeOK
<1>4. told'[t] = told[t]
  BY DEF Connect, ReadAuthorize, ReadSubmit, ReadOther, Read, Receive, HangUp,
     Flushed, ConnectionLost, TypeOK
<1> QED
  BY <1>1, <1>2, <1>3, <1>4
     DEF Connect, ReadAuthorize, ReadSubmit, ReadOther, Read, Receive,
     HangUp, Flushed, ConnectionLost, Same

\* A connection that is closed or lost stays so.
LEMMA NextCloses ==
    ASSUME [Next]_vars
    PROVE  closed \subseteq closed' /\ lost \subseteq lost'
<1>1. CASE LoopRuns
  <2>1. CASE BroadcastRuns \/ StopRuns
    BY <2>1 DEF BroadcastRuns, Broadcast, Gathered, StopRuns, StopCloses, Closed,
       StopGoesOn, StopListening, StopReturns
  <2>2. ASSUME NEW s \in Session, HandlerRuns(s)
        PROVE  closed \subseteq closed' /\ lost \subseteq lost'
    BY <2>2 DEF HandlerRuns, Authorized, Answered, Checked, KeepDifficulty,
       Retarget, CheckRaises, AnswerFails, HandlerEnds, End
  <2>3. ASSUME NEW s \in Session, PushRuns(s) \/ Flushed(s)
        PROVE  closed \subseteq closed' /\ lost \subseteq lost'
    BY <2>3 DEF PushRuns, PushDifficulty, PushJob, PushEnds, PushFails, Flushed,
       ConnectionLost
  <2> QED
    BY <1>1, <2>1, <2>2, <2>3 DEF LoopRuns
<1>2. CASE Next /\ ~LoopRuns
  BY <1>2 DEF Next, NewJob, StopBegins, Connect, ReadAuthorize, ReadSubmit,
     ReadOther, Read, Receive, HangUp, ConnectionLost
<1>3. CASE UNCHANGED vars
  BY <1>3 DEF vars
<1> QED
  BY <1>1, <1>2, <1>3

-----------------------------------------------------------------------------
(* The last difficulty of all that leaves is the one of the session.       *)

\* The last difficulty in out is v; there is none, and v is what was told.
Settled(out, t, v) ==
    \/ v = t /\ \A i \in 1 .. Len(out) : out[i].kind # "difficulty"
    \/ \E i \in 1 .. Len(out) :
          /\ out[i].kind = "difficulty" /\ out[i].value = v
          /\ \A k \in 1 .. Len(out) : out[k].kind = "difficulty" => k <= i

\* A difficulty at the end settles it; another message changes nothing.
LEMMA SettledAppend ==
    ASSUME NEW out \in Seq(Messages), NEW m \in Messages, NEW t, NEW v
    PROVE  /\ m.kind = "difficulty" => Settled(Append(out, m), t, m.value)
           /\ m.kind # "difficulty" /\ Settled(out, t, v) =>
                 Settled(Append(out, m), t, v)
<1> DEFINE x == Append(out, m)
           n == Len(out)
<1>1. /\ Len(x) = n + 1 /\ x[n + 1] = m
      /\ \A i \in 1 .. n : x[i] = out[i]
  BY AppendProperties
<1>2. n \in Nat
  OBVIOUS
<1>. HIDE DEF x, n
<1>3. n + 1 \in 1 .. n + 1 /\ \A k \in 1 .. n + 1 : k <= n + 1
  BY <1>2
<1>4. \A k \in 1 .. n + 1 : k \in 1 .. n \/ k = n + 1
  BY <1>2
<1>5. \A k \in 1 .. n : k \in 1 .. n + 1
  BY <1>2
<1>6. m.kind = "difficulty" => Settled(x, t, m.value)
  BY <1>1, <1>3 DEF Settled
<1>7. ASSUME m.kind # "difficulty", Settled(out, t, v)
      PROVE  Settled(x, t, v)
  <2>1. CASE v = t /\ \A i \in 1 .. n : out[i].kind # "difficulty"
    BY <1>1, <1>4, <1>7, <2>1 DEF Settled
  <2>2. CASE \E i \in 1 .. n :
               /\ out[i].kind = "difficulty" /\ out[i].value = v
               /\ \A k \in 1 .. n : out[k].kind = "difficulty" => k <= i
    BY <1>1, <1>4, <1>5, <1>7, <2>2 DEF Settled
  <2> QED
    BY <1>7, <2>1, <2>2 DEF Settled, n
<1> QED
  BY <1>6, <1>7 DEF x

\* The miner that reads a difficulty is told it.
LEMMA SettledTail ==
    ASSUME NEW out \in Seq(Messages), out # <<>>, NEW t, NEW v, Settled(out, t, v)
    PROVE  Settled(Tail(out),
              IF Head(out).kind = "difficulty" THEN Head(out).value ELSE t, v)
<1> DEFINE x == Tail(out)
           n == Len(out)
<1>1. /\ Len(x) = n - 1 /\ Head(out) = out[1]
      /\ \A i \in 1 .. n - 1 : x[i] = out[i + 1]
  BY HeadTailProperties
<1>2. n \in Nat /\ n > 0
  OBVIOUS
<1>. HIDE DEF x, n
<1>3. \A i \in 1 .. n - 1 : i + 1 \in 1 .. n
  BY <1>2
<1>4. CASE v = t /\ \A i \in 1 .. n : out[i].kind # "difficulty"
  <2>1. Head(out).kind # "difficulty"
    BY <1>1, <1>2, <1>4
  <2> QED
    BY <1>1, <1>3, <1>4, <2>1 DEF Settled, x
<1>5. ASSUME NEW i \in 1 .. n, out[i].kind = "difficulty", out[i].value = v,
             \A k \in 1 .. n : out[k].kind = "difficulty" => k <= i
      PROVE  Settled(x, IF Head(out).kind = "difficulty" THEN Head(out).value ELSE t, v)
  <2>1. CASE i = 1
    <3>1. ASSUME NEW k \in 1 .. n - 1
          PROVE  x[k].kind # "difficulty"
      <4>1. k + 1 \in 1 .. n /\ ~(k + 1 <= i)
        BY <1>2, <2>1
      <4> QED
        BY <1>1, <1>5, <4>1
    <3> QED
      BY <1>1, <1>5, <2>1, <3>1 DEF Settled
  <2>2. CASE i # 1
    <3> DEFINE j == i - 1
    <3>1. j \in 1 .. n - 1 /\ i = j + 1
      BY <1>2, <2>2
    <3>. HIDE DEF j
    <3>2. x[j].kind = "difficulty" /\ x[j].value = v
      BY <1>1, <1>5, <3>1
    <3>3. ASSUME NEW k \in 1 .. n - 1, x[k].kind = "difficulty"
          PROVE  k <= j
      <4>1. k + 1 \in 1 .. n /\ out[k + 1].kind = "difficulty"
        BY <1>1, <1>3, <3>3
      <4>2. k + 1 <= i
        BY <1>5, <4>1
      <4> QED
        BY <1>2, <3>1, <4>2
    <3> QED
      BY <1>1, <3>1, <3>2, <3>3 DEF Settled
  <2> QED
    BY <2>1, <2>2
<1> QED
  BY <1>4, <1>5 DEF Settled, n, x

\* Settled says it as Last does.
LEMMA SettledLast ==
    ASSUME TypeOK, NEW s \in Session, NEW v,
           Settled(Leaving(queue[s], wire[s]), told[s].difficulty, v)
    PROVE  Last(s) = v
<1> DEFINE out == Outgoing(s)
           ds == {i \in 1 .. Len(out) : out[i].kind = "difficulty"}
<1>1. out = Leaving(queue[s], wire[s])
  BY DEF Outgoing, Leaving
<1>2. Len(out) \in Nat
  <2>1. queue[s] \in Seq(Entries) /\ wire[s] \in Seq(Messages)
    BY DEF TypeOK
  <2> QED
    BY <1>1, <2>1, LeavingTyped, LenProperties
<1>. HIDE DEF out
<1>3. Settled(out, told[s].difficulty, v)
  BY <1>1
<1>4. CASE ds = {}
  BY <1>3, <1>4 DEF Settled, Last, out
<1>5. CASE ds # {}
  <2>1. PICK i \in ds : out[i].value = v /\ \A k \in ds : k <= i
    BY <1>3, <1>5 DEF Settled
  <2> DEFINE j == CHOOSE j \in ds : \A k \in ds : k <= j
  <2>2. j \in ds /\ \A k \in ds : k <= j
    BY <2>1
  <2>3. i <= j /\ j <= i /\ i \in Int /\ j \in Int
    BY <2>1, <2>2
  <2>. HIDE DEF j
  <2>4. i = j
    BY <2>3
  <2> QED
    BY <1>5, <2>1, <2>4 DEF Last, j, out
<1> QED
  BY <1>4, <1>5

\* Whatever the miner has read, the last difficulty is the session's.
Heard(s) ==
    Open(s) => Settled(Leaving(queue[s], wire[s]), told[s].difficulty, difficulty[s])

\* A message of another kind at the end, or none, changes nothing of this,
LEMMA HeardKept ==
    ASSUME TypeOK, NEW s \in Session, Open(s), Heard(s),
           NEW m \in Messages, m.kind # "difficulty",
           told'[s] = told[s], difficulty'[s] = difficulty[s],
           \/ Leaving(queue'[s], wire'[s]) = Leaving(queue[s], wire[s])
           \/ Leaving(queue'[s], wire'[s]) = Append(Leaving(queue[s], wire[s]), m)
    PROVE  Heard(s)'
<1>1. queue[s] \in Seq(Entries) /\ wire[s] \in Seq(Messages)
  BY DEF TypeOK
<1>2. Leaving(queue[s], wire[s]) \in Seq(Messages)
  BY <1>1, LeavingTyped
<1> QED
  BY <1>2, SettledAppend DEF Heard

\* and a difficulty at the end is the new one.
LEMMA HeardChanged ==
    ASSUME TypeOK, NEW s \in Session, NEW d \in Difficulty \cup {0},
           difficulty'[s] = d,
           Leaving(queue'[s], wire'[s]) =
              Append(Leaving(queue[s], wire[s]), Message("difficulty", d))
    PROVE  Heard(s)'
<1>1. queue[s] \in Seq(Entries) /\ wire[s] \in Seq(Messages)
  BY DEF TypeOK
<1>2. Leaving(queue[s], wire[s]) \in Seq(Messages)
  BY <1>1, LeavingTyped
<1>3. /\ Message("difficulty", d) \in Messages
      /\ Message("difficulty", d).kind = "difficulty"
      /\ Message("difficulty", d).value = d
  BY DEF Message, Messages
<1> QED
  BY <1>2, <1>3, SettledAppend DEF Heard

\* A push sends the difficulty it has just assigned, and then the job;
LEMMA PushHeard ==
    ASSUME SessionsAssumption, TypeOK, NEW s \in Session, Open(s), Heard(s),
           NEW p \in Push,
           \/ PushDifficulty(s, p) \/ PushJob(s, p)
           \/ PushEnds(s, p) \/ PushFails(s, p)
    PROVE  Heard(s)'
<1>1. CASE PushDifficulty(s, p)
  <2> DEFINE d == IF p = Work THEN Initial ELSE difficulty[s]
  <2>1. d \in Difficulty \cup {0} /\ Message("difficulty", d) \in Messages
    BY MessageTyped DEF SessionsAssumption, TypeOK
  <2>2. Send(s, p, Message("difficulty", d)) /\ difficulty'[s] = d
    BY <1>1 DEF PushDifficulty, TypeOK
  <2>. HIDE DEF d
  <2>3. Leaving(queue'[s], wire'[s]) =
           Append(Leaving(queue[s], wire[s]), Message("difficulty", d))
    BY <2>1, <2>2, SendLeaves DEF Open
  <2> QED
    BY <2>1, <2>2, <2>3, HeardChanged
<1>2. CASE PushJob(s, p)
  <2> DEFINE j == IF p = Work THEN current ELSE p
  <2>1. queue[s] # <<>> /\ told'[s] = told[s] /\ difficulty'[s] = difficulty[s]
    BY <1>2 DEF PushJob, Drained, Holds
  <2>2. CASE j = 0 \/ s \in closed
    <3>1. Leaving(queue'[s], wire'[s]) = Leaving(queue[s], wire[s])
      BY <1>2, <2>1, <2>2, ReleaseLeaves DEF PushJob, Open
    <3> QED
      BY <2>1, <3>1, HeardKept, MessageTyped DEF Ok, Message
  <2>3. CASE ~(j = 0 \/ s \in closed)
    <3>1. /\ Message("job", j) \in Messages
          /\ Message("job", j).kind # "difficulty"
      BY <2>3, MessageTyped DEF Message, TypeOK, Push, Job, Work, SessionsAssumption
    <3>2. ReleaseAndSend(s, p, Message("job", j))
      BY <1>2, <2>3 DEF PushJob
    <3>. HIDE DEF j
    <3>3. Leaving(queue'[s], wire'[s]) =
             Append(Leaving(queue[s], wire[s]), Message("job", j))
      BY <2>1, <3>1, <3>2, ReleaseAndSendLeaves DEF Open
    <3> QED
      BY <2>1, <3>1, <3>3, HeardKept
  <2> QED
    BY <2>2, <2>3
<1>3. CASE PushEnds(s, p)
  <2>1. queue[s] # <<>> /\ told'[s] = told[s] /\ difficulty'[s] = difficulty[s]
    BY <1>3 DEF PushEnds, Drained, Holds
  <2>2. Leaving(queue'[s], wire'[s]) = Leaving(queue[s], wire[s])
    BY <1>3, <2>1, ReleaseLeaves DEF PushEnds, Open
  <2> QED
    BY <2>1, <2>2, HeardKept, MessageTyped DEF Ok, Message
<1>4. CASE PushFails(s, p)
  BY <1>4 DEF PushFails, Raised, Open
<1> QED
  BY <1>1, <1>2, <1>3, <1>4

\* vardiff assigns and sends one; answers have none;
LEMMA HandlerHeard ==
    ASSUME TypeOK, NEW s \in Session, Open(s), Heard(s), HandlerRuns(s)
    PROVE  Heard(s)'
<1>1. CASE Authorized(s)
  <2>1. queue[s] # <<>> /\ told'[s] = told[s] /\ difficulty'[s] = difficulty[s]
    BY <1>1 DEF Authorized, Drained, Holds
  <2>2. Leaving(queue'[s], wire'[s]) = Leaving(queue[s], wire[s])
    BY <1>1, <2>1, ReleaseLeaves DEF Authorized, Open
  <2> QED
    BY <2>1, <2>2, HeardKept, MessageTyped DEF Ok, Message
<1>2. CASE Answered(s)
  <2>1. queue[s] # <<>> /\ told'[s] = told[s] /\ difficulty'[s] = difficulty[s]
    BY <1>2 DEF Answered, Drained, Holds
  <2>2. Leaving(queue'[s], wire'[s]) = Leaving(queue[s], wire[s])
    BY <1>2, <2>1, ReleaseLeaves DEF Answered, Open
  <2> QED
    BY <2>1, <2>2, HeardKept, MessageTyped DEF Ok, Message
<1>3. CASE Checked(s)
  <2>1. /\ Send(s, Handler, Answer)
        /\ told'[s] = told[s] /\ difficulty'[s] = difficulty[s]
    BY <1>3 DEF Checked
  <2>2. Leaving(queue'[s], wire'[s]) = Append(Leaving(queue[s], wire[s]), Answer)
    BY <2>1, SendLeaves, MessageTyped DEF Open
  <2> QED
    BY <2>1, <2>2, HeardKept, MessageTyped DEF Answer, Message
<1>4. CASE KeepDifficulty(s)
  <2>1. queue[s] # <<>> /\ told'[s] = told[s] /\ difficulty'[s] = difficulty[s]
    BY <1>4 DEF KeepDifficulty, Drained, Holds
  <2>2. Leaving(queue'[s], wire'[s]) = Leaving(queue[s], wire[s])
    BY <1>4, <2>1, ReleaseLeaves DEF KeepDifficulty, Open
  <2> QED
    BY <2>1, <2>2, HeardKept, MessageTyped DEF Ok, Message
<1>5. ASSUME NEW d \in Difficulty, Retarget(s, d)
      PROVE  Heard(s)'
  <2>1. /\ queue[s] # <<>> /\ difficulty'[s] = d
        /\ ReleaseAndSend(s, Handler, Message("difficulty", d))
    BY <1>5 DEF Retarget, Drained, Holds, Assigned, TypeOK
  <2>2. Leaving(queue'[s], wire'[s]) =
           Append(Leaving(queue[s], wire[s]), Message("difficulty", d))
    BY <2>1, ReleaseAndSendLeaves, MessageTyped DEF Open
  <2> QED
    BY <2>1, <2>2, HeardChanged
<1>6. CASE CheckRaises(s) \/ AnswerFails(s) \/ HandlerEnds(s)
  BY <1>6 DEF CheckRaises, AnswerFails, Raised, HandlerEnds, Heard, Open
<1> QED
  BY <1>1, <1>2, <1>3, <1>4, <1>5, <1>6 DEF HandlerRuns

\* and reading a message moves it from the wire to what was told.
LEMMA MinerHeard ==
    ASSUME TypeOK, NEW s \in Session, Open(s), Heard(s),
           \/ Connect(s) \/ ReadAuthorize(s) \/ ReadSubmit(s) \/ ReadOther(s)
           \/ Receive(s) \/ HangUp(s) \/ Flushed(s)
    PROVE  Heard(s)'
<1> USE DEF sendVars
<1>1. CASE Connect(s) \/ ReadSubmit(s)
  BY <1>1 DEF Connect, ReadSubmit, Read, Heard, Open
<1>2. CASE ReadAuthorize(s)
  <2>1. /\ Send(s, Handler, Ok)
        /\ told'[s] = told[s] /\ difficulty'[s] = difficulty[s]
    BY <1>2 DEF ReadAuthorize, OkFirst, Read
  <2>2. Leaving(queue'[s], wire'[s]) = Append(Leaving(queue[s], wire[s]), Ok)
    BY <2>1, SendLeaves, MessageTyped DEF Open
  <2> QED
    BY <2>1, <2>2, HeardKept, MessageTyped DEF Ok, Message
<1>3. CASE ReadOther(s)
  <2>1. /\ Send(s, Handler, Answer)
        /\ told'[s] = told[s] /\ difficulty'[s] = difficulty[s]
    BY <1>3 DEF ReadOther, Read
  <2>2. Leaving(queue'[s], wire'[s]) = Append(Leaving(queue[s], wire[s]), Answer)
    BY <2>1, SendLeaves, MessageTyped DEF Open
  <2> QED
    BY <2>1, <2>2, HeardKept, MessageTyped DEF Answer, Message
<1>4. CASE Receive(s)
  <2>1. queue[s] \in Seq(Entries) /\ wire[s] \in Seq(Messages) /\ wire[s] # <<>>
    BY <1>4 DEF Receive, TypeOK
  <2> DEFINE m == Head(wire[s])
             o == Leaving(queue[s], wire[s])
             d == IF m.kind = "difficulty" THEN m.value ELSE told[s].difficulty
  <2>2. m \in Messages
    BY <2>1
  <2>3. o \in Seq(Messages) /\ o # <<>> /\ Head(o) = m
    BY <2>1, LeavingTyped, LeavingReceive
  <2>4. Leaving(queue'[s], wire'[s]) = Tail(o) /\ difficulty'[s] = difficulty[s]
    <3>1. queue'[s] = queue[s] /\ wire'[s] = Tail(wire[s])
      BY <1>4 DEF Receive, TypeOK
    <3> QED
      BY <1>4, <2>1, <3>1, LeavingReceive DEF Receive
  <2>5. told'[s].difficulty = d
    <3>1. /\ told[s] \in [ok : BOOLEAN, difficulty : Difficulty \cup {0},
                          job : 0 .. MaxJobs]
          /\ told'[s] = IF m.kind = "ok" THEN [told[s] EXCEPT !.ok = TRUE]
                        ELSE IF m.kind = "answer" THEN told[s]
                        ELSE [told[s] EXCEPT ![m.kind] = m.value]
      BY <1>4 DEF Receive, TypeOK
    <3>2. m.kind \in {"ok", "answer", "difficulty", "job"}
      BY <2>2 DEF Messages
    <3>. HIDE DEF m
    <3> QED
      BY <3>1, <3>2
  <2>6. Settled(o, told[s].difficulty, difficulty[s])
    BY DEF Heard
  <2>. HIDE DEF m, o
  <2>7. Settled(Tail(o), d, difficulty[s])
    BY <2>3, <2>6, SettledTail
  <2> QED
    BY <2>4, <2>5, <2>7 DEF Heard
<1>5. CASE HangUp(s) \/ Flushed(s)
  BY <1>5 DEF HangUp, Flushed, ConnectionLost, Heard, Open
<1> QED
  BY <1>1, <1>2, <1>3, <1>4, <1>5

\* The last difficulty a miner on an open connection was or will be told is
\* the one its shares are checked with, in whatever order its handler, its
\* pushes and the broadcasts took the lock.
THEOREM DifficultyTold == Spec => []ToldDifficulty
<1> DEFINE Inv == \A t \in Session : Heard(t)
<1>1. Init => Inv
  <2> SUFFICES ASSUME Init, NEW t \in Session
               PROVE  Heard(t)
    OBVIOUS
  <2>1. queue[t] = <<>> /\ wire[t] = <<>> /\ told[t].difficulty = 0 /\ difficulty[t] = 0
    BY DEF Init, Untold
  <2>2. Len(Leaving(<<>>, <<>>)) = 0
    BY EmptySeq, LeavingTyped
  <2> QED
    BY <2>1, <2>2 DEF Heard, Settled
<1>2. TypeOK /\ Inv /\ [Next]_vars => Inv'
  <2> SUFFICES ASSUME TypeOK, Inv, [Next]_vars, NEW t \in Session
               PROVE  Heard(t)'
    OBVIOUS
  <2>1. ASSUME Same(t)
        PROVE  Heard(t)'
    BY <2>1 DEF Same, Heard, Open
  <2>2. CASE UNCHANGED vars
    BY <2>2 DEF vars, sendVars, Heard, Open
  <2>3. CASE NewJob \/ StopBegins \/ BroadcastRuns \/ StopRuns
    BY <2>3 DEF NewJob, StopBegins, BroadcastRuns, Broadcast, Gathered, StopRuns,
       StopCloses, Closed, StopGoesOn, StopListening, StopReturns, sendVars,
       Heard, Open
  <2>4. CASE ~Open(t)
    BY <2>4, NextCloses DEF Heard, Open
  <2>5. ASSUME NEW s \in Session, Open(t), PushRuns(s)
        PROVE  Heard(t)'
    BY <2>1, <2>5, SessionsAssumption, PushElsewhere, PushHeard DEF PushRuns
  <2>6. ASSUME NEW s \in Session, Open(t), HandlerRuns(s)
        PROVE  Heard(t)'
    BY <2>1, <2>6, HandlerElsewhere, HandlerHeard
  <2>7. ASSUME NEW s \in Session, Open(t),
               \/ Connect(s) \/ ReadAuthorize(s) \/ ReadSubmit(s) \/ ReadOther(s)
               \/ Receive(s) \/ HangUp(s) \/ Flushed(s)
        PROVE  Heard(t)'
    BY <2>1, <2>7, MinerElsewhere, MinerHeard
  <2> QED
    BY <2>2, <2>3, <2>4, <2>5, <2>6, <2>7 DEF Next, LoopRuns
<1>3. TypeOK /\ Inv => ToldDifficulty
  BY SettledLast DEF ToldDifficulty, Heard, Open
<1> QED
  BY <1>1, <1>2, <1>3, SessionsTyped, PTL DEF Spec

-----------------------------------------------------------------------------
(* Who waits for the lock: at most one message of the handler, and pushes  *)
(* of authorized sessions.                                                 *)

\* No message of the handler waits or is being drained.
NoHandler(q) == \A i \in 1 .. Len(q) : q[i].task # Handler

\* The handler waits for its own message, and only then has one in the queue;
\* that of an authorization is its answer.
Sending == {"authorize", "answer", "share"}

Ordered(q, h) ==
    /\ \A i, j \in 1 .. Len(q) : q[i].task = Handler /\ q[j].task = Handler => i = j
    /\ h \notin Sending => NoHandler(q)
    /\ h = "authorize" => \A i \in 1 .. Len(q) : q[i].task = Handler => q[i].msg = Ok

\* Work starts, and shares are read, after the authorization.
Started(s) ==
    /\ \A p \in Push : push[s][p] = "difficulty" => s \in authorized
    /\ starting[s] # <<>> => s \in authorized
    /\ handler[s] \in {"submit", "share"} => s \in authorized
    /\ s \notin connected => handler[s] = "none"

\* A handler's message is told from a push's by its task.
LEMMA HandlerNotPush ==
    ASSUME SessionsAssumption
    PROVE  Handler \notin Push
BY DEF SessionsAssumption, Handler, Push, Work, Job

\* Nothing of the handler waits: then it may be about to do anything.
LEMMA NoneOrdered ==
    ASSUME NEW q \in Seq(Entries), NoHandler(q), NEW h
    PROVE  Ordered(q, h)
BY DEF NoHandler, Ordered

\* A push that waits leaves the handler's message as it is,
LEMMA AppendOrdered ==
    ASSUME NEW q \in Seq(Entries), NEW h, Ordered(q, h),
           NEW e \in Entries, e.task # Handler
    PROVE  Ordered(Append(q, e), h)
<1> DEFINE r == Append(q, e)
           n == Len(q)
<1>1. n \in Nat /\ Len(r) = n + 1 /\ r[n + 1] = e /\ \A i \in 1 .. n : r[i] = q[i]
  BY AppendProperties
<1>. HIDE DEF r
<1>2. \A i \in 1 .. n + 1 : i \in 1 .. n \/ i = n + 1
  BY <1>1
<1>3. ASSUME NEW i \in 1 .. Len(r), r[i].task = Handler
      PROVE  i \in 1 .. n /\ r[i] = q[i] /\ q[i].task = Handler
  <2>1. i \in 1 .. n \/ i = n + 1
    BY <1>1, <1>2
  <2> QED
    BY <1>1, <1>3, <2>1
<1>. HIDE DEF n
<1>4. \A i, j \in 1 .. Len(r) : r[i].task = Handler /\ r[j].task = Handler => i = j
  BY <1>3 DEF Ordered, n
<1>5. h \notin Sending => NoHandler(r)
  BY <1>3 DEF Ordered, NoHandler, n
<1>6. h = "authorize" => \A i \in 1 .. Len(r) : r[i].task = Handler => r[i].msg = Ok
  BY <1>3 DEF Ordered, n
<1> QED
  BY <1>4, <1>5, <1>6 DEF Ordered, r

\* and a handler whose other messages have all left waits with one.
LEMMA HandlerOrdered ==
    ASSUME NEW q \in Seq(Entries), NoHandler(q), NEW h \in Sending,
           NEW e \in Entries, h = "authorize" => e.msg = Ok
    PROVE  Ordered(Append(q, e), h)
<1> DEFINE r == Append(q, e)
           n == Len(q)
<1>1. n \in Nat /\ Len(r) = n + 1 /\ r[n + 1] = e /\ \A i \in 1 .. n : r[i] = q[i]
  BY AppendProperties
<1>. HIDE DEF r
<1>2. \A i \in 1 .. n + 1 : i \in 1 .. n \/ i = n + 1
  BY <1>1
<1>3. ASSUME NEW i \in 1 .. Len(r), r[i].task = Handler
      PROVE  i = n + 1 /\ r[i] = e
  <2>1. i \in 1 .. n \/ i = n + 1
    BY <1>1, <1>2
  <2> QED
    BY <1>1, <1>3, <2>1 DEF NoHandler
<1> QED
  BY <1>3 DEF Ordered, r

\* The lock given away, the rest waits as before; after the handler's own
\* message there is no other.
LEMMA TailOrdered ==
    ASSUME NEW q \in Seq(Entries), q # <<>>, NEW h, Ordered(q, h)
    PROVE  /\ Tail(q) \in Seq(Entries)
           /\ Ordered(Tail(q), h)
           /\ q[1].task = Handler => NoHandler(Tail(q))
<1> DEFINE r == Tail(q)
           n == Len(q)
<1>1. /\ r \in Seq(Entries) /\ Len(r) = n - 1
      /\ \A i \in 1 .. n - 1 : r[i] = q[i + 1]
  BY HeadTailProperties
<1>2. n \in Nat /\ n > 0
  OBVIOUS
<1>. HIDE DEF r
<1>3. ASSUME NEW i \in 1 .. Len(r)
      PROVE  i + 1 \in 1 .. n /\ r[i] = q[i + 1] /\ 1 \in 1 .. n /\ 1 # i + 1
  BY <1>1, <1>2
<1>4. \A i, j \in 1 .. Len(r) : i + 1 = j + 1 => i = j
  BY <1>1, <1>2
<1>. HIDE DEF n
<1>5. \A i, j \in 1 .. Len(r) : r[i].task = Handler /\ r[j].task = Handler => i = j
  <2> SUFFICES ASSUME NEW i \in 1 .. Len(r), NEW j \in 1 .. Len(r),
                      r[i].task = Handler, r[j].task = Handler
               PROVE  i + 1 = j + 1
    BY <1>4
  <2> QED
    BY <1>3 DEF Ordered, n
<1>6. h \notin Sending => NoHandler(r)
  BY <1>3 DEF Ordered, NoHandler, n
<1>7. h = "authorize" => \A i \in 1 .. Len(r) : r[i].task = Handler => r[i].msg = Ok
  BY <1>3 DEF Ordered, n
<1>8. q[1].task = Handler => NoHandler(r)
  BY <1>3 DEF Ordered, NoHandler, n
<1> QED
  BY <1>1, <1>5, <1>6, <1>7, <1>8 DEF Ordered, r

\* The queue after a step.
LEMMA QueueAfter ==
    ASSUME TypeOK, NEW s \in Session, NEW p \in Push \cup {Handler},
           NEW m \in Messages
    PROVE  /\ [task |-> p, msg |-> m] \in Entries
           /\ Send(s, p, m) => queue'[s] =
                 IF s \in closed THEN queue[s]
                 ELSE Append(queue[s], [task |-> p, msg |-> m])
           /\ Release(s) => queue'[s] = Tail(queue[s])
           /\ ReleaseAndSend(s, p, m) =>
                 queue'[s] = Append(Tail(queue[s]), [task |-> p, msg |-> m])
<1> DEFINE e == [task |-> p, msg |-> m]
<1>1. e \in Entries
  BY DEF Entries
<1>2. Send(s, p, m) =>
         queue'[s] = IF s \in closed THEN queue[s] ELSE Append(queue[s], e)
  <2>1. queue[s] = <<>> => Append(queue[s], e) = <<e>>
    OBVIOUS
  <2> QED
    BY <2>1 DEF Send, Put, TypeOK
<1>3. Release(s) => queue'[s] = Tail(queue[s])
  BY DEF Release, Put, TypeOK
<1>4. ReleaseAndSend(s, p, m) => queue'[s] = Append(Tail(queue[s]), e)
  BY DEF ReleaseAndSend, Put, TypeOK
<1> QED
  BY <1>1, <1>2, <1>3, <1>4

\* What the invariant says of a session's coroutines.
Orderly(s) == Ordered(queue[s], handler[s]) /\ Started(s)

\* A push has nothing of the handler's,
LEMMA PushOrderly ==
    ASSUME SessionsAssumption, TypeOK, NEW s \in Session, Orderly(s), NEW p \in Push,
           \/ PushDifficulty(s, p) \/ PushJob(s, p)
           \/ PushEnds(s, p) \/ PushFails(s, p)
    PROVE  Orderly(s)'
<1>1. queue[s] \in Seq(Entries) /\ Ordered(queue[s], handler[s])
  BY DEF TypeOK, Orderly
<1>2. UNCHANGED <<connected, handler, authorized>>
  BY DEF PushDifficulty, PushJob, PushEnds, PushFails
<1>3. ASSUME NEW q \in Seq(Entries), Ordered(q, handler[s]), NEW m \in Messages
      PROVE  LET e == [task |-> p, msg |-> m]
             IN  e \in Entries /\ Ordered(Append(q, e), handler[s])
  BY <1>3, QueueAfter, AppendOrdered, HandlerNotPush
<1>4. queue[s] # <<>> =>
         Tail(queue[s]) \in Seq(Entries) /\ Ordered(Tail(queue[s]), handler[s])
  BY <1>1, TailOrdered
<1>5. CASE PushDifficulty(s, p)
  <2> DEFINE d == IF p = Work THEN Initial ELSE difficulty[s]
  <2>1. Message("difficulty", d) \in Messages
    BY MessageTyped DEF SessionsAssumption, TypeOK
  <2>2. Send(s, p, Message("difficulty", d))
    BY <1>5 DEF PushDifficulty
  <2>. HIDE DEF d
  <2>3. Ordered(queue'[s], handler[s])
    BY <1>1, <1>3, <2>1, <2>2, QueueAfter
  <2>4. starting[s] # <<>>
    BY <1>5 DEF PushDifficulty
  <2> QED
    BY <1>2, <2>3, <2>4 DEF Orderly, Started
<1>6. CASE PushJob(s, p)
  <2> DEFINE j == IF p = Work THEN current ELSE p
  <2>1. /\ queue[s] # <<>> /\ push[s][p] = "difficulty"
        /\ s \in authorized /\ UNCHANGED starting
    BY <1>6 DEF PushJob, PushStep, Drained, Holds, Orderly, Started
  <2>2. CASE Release(s)
    BY <1>2, <1>4, <2>1, <2>2, QueueAfter, MessageTyped DEF Orderly, Started
  <2>3. CASE j # 0 /\ ReleaseAndSend(s, p, Message("job", j))
    <3>1. Message("job", j) \in Messages
      BY <2>3, MessageTyped DEF TypeOK, Push, Job, Work, SessionsAssumption
    <3>. HIDE DEF j
    <3>2. Ordered(queue'[s], handler[s])
      BY <1>3, <1>4, <2>1, <2>3, <3>1, QueueAfter
    <3> QED
      BY <1>2, <2>1, <3>2 DEF Orderly, Started
  <2> QED
    BY <1>6, <2>2, <2>3 DEF PushJob
<1>7. CASE PushEnds(s, p) \/ PushFails(s, p)
  <2>1. /\ queue[s] # <<>> /\ Release(s)
        /\ PushStep(s, p, "none") \/ PushStep(s, p, "failed")
    BY <1>7 DEF PushEnds, PushFails, Freed, Drained, Raised, Holds
  <2>2. Ordered(queue'[s], handler[s])
    BY <1>4, <2>1, QueueAfter, MessageTyped
  <2>3. Started(s)'
    <3>1. CASE PushStep(s, p, "none")
      BY <1>2, <3>1 DEF PushStep, Orderly, Started, TypeOK
    <3>2. CASE PushStep(s, p, "failed")
      BY <1>2, <3>2 DEF PushStep, Orderly, Started, TypeOK
    <3> QED
      BY <2>1, <3>1, <3>2
  <2> QED
    BY <1>2, <2>2, <2>3 DEF Orderly
<1> QED
  BY <1>5, <1>6, <1>7

\* a handler sends its next message when the last has left,
LEMMA HandlerOrderly ==
    ASSUME TypeOK, NEW s \in Session, Orderly(s), HandlerRuns(s)
    PROVE  Orderly(s)'
<1> USE DEF pushVars, sendVars
<1>1. CASE Authorized(s)
  <2>1. queue[s] # <<>> /\ queue[s][1].task = Handler
    BY <1>1 DEF Authorized, Drained, Raised, Holds
  <2>2. queue'[s] = Tail(queue[s])
    BY <1>1, QueueAfter, MessageTyped DEF Authorized, Freed
  <2>3. NoHandler(queue'[s]) /\ queue'[s] \in Seq(Entries)
    BY <2>1, <2>2, TailOrdered DEF Orderly, TypeOK
  <2>4. Ordered(queue'[s], handler'[s])
    BY <2>3, NoneOrdered
  <2>5. Started(s)'
    BY <1>1 DEF Authorized, Loop, Orderly, Started, TypeOK
  <2> QED
    BY <2>4, <2>5 DEF Orderly
<1>2. CASE Answered(s)
  <2>1. queue[s] # <<>> /\ queue[s][1].task = Handler
    BY <1>2 DEF Answered, Drained, Raised, Holds
  <2>2. queue'[s] = Tail(queue[s])
    BY <1>2, QueueAfter, MessageTyped DEF Answered, Freed
  <2>3. NoHandler(queue'[s]) /\ queue'[s] \in Seq(Entries)
    BY <2>1, <2>2, TailOrdered DEF Orderly, TypeOK
  <2>4. Ordered(queue'[s], handler'[s])
    BY <2>3, NoneOrdered
  <2>5. Started(s)'
    BY <1>2 DEF Answered, Loop, Orderly, Started, TypeOK
  <2> QED
    BY <2>4, <2>5 DEF Orderly
<1>3. CASE Checked(s)
  <2>1. NoHandler(queue[s]) /\ queue[s] \in Seq(Entries)
    BY <1>3 DEF Checked, Orderly, Ordered, Sending, TypeOK
  <2>2. Started(s)'
    BY <1>3 DEF Checked, Loop, Orderly, Started, TypeOK
  <2>3. /\ Answer \in Messages /\ Send(s, Handler, Answer)
        /\ [task |-> Handler, msg |-> Answer] \in Entries
        /\ queue'[s] = IF s \in closed THEN queue[s]
                       ELSE Append(queue[s], [task |-> Handler, msg |-> Answer])
    BY <1>3, QueueAfter, MessageTyped DEF Checked
  <2>4. s \notin closed => handler'[s] \in {"share", "answer"}
    BY <1>3 DEF Checked, TypeOK
  <2>5. Ordered(queue'[s], handler'[s])
    BY <2>1, <2>3, <2>4, NoneOrdered, HandlerOrdered DEF Sending
  <2> QED
    BY <2>2, <2>5 DEF Orderly
<1>4. CASE KeepDifficulty(s)
  <2>1. queue[s] # <<>> /\ queue[s][1].task = Handler
    BY <1>4 DEF KeepDifficulty, Drained, Raised, Holds
  <2>2. queue'[s] = Tail(queue[s])
    BY <1>4, QueueAfter, MessageTyped DEF KeepDifficulty, Freed
  <2>3. NoHandler(queue'[s]) /\ queue'[s] \in Seq(Entries)
    BY <2>1, <2>2, TailOrdered DEF Orderly, TypeOK
  <2>4. Ordered(queue'[s], handler'[s])
    BY <2>3, NoneOrdered
  <2>5. Started(s)'
    BY <1>4 DEF KeepDifficulty, Loop, Orderly, Started, TypeOK
  <2> QED
    BY <2>4, <2>5 DEF Orderly
<1>5. ASSUME NEW d \in Difficulty, Retarget(s, d)
      PROVE  Orderly(s)'
  <2> DEFINE m == Message("difficulty", d)
  <2>1. /\ queue[s] # <<>> /\ queue[s][1].task = Handler /\ m \in Messages
        /\ handler'[s] = "answer" /\ ReleaseAndSend(s, Handler, m)
    BY <1>5, MessageTyped DEF Retarget, Drained, Holds, TypeOK
  <2>. HIDE DEF m
  <2>2. /\ [task |-> Handler, msg |-> m] \in Entries
        /\ queue'[s] = Append(Tail(queue[s]), [task |-> Handler, msg |-> m])
    BY <2>1, QueueAfter
  <2>3. NoHandler(Tail(queue[s])) /\ Tail(queue[s]) \in Seq(Entries)
    BY <2>1, TailOrdered DEF Orderly, TypeOK
  <2>4. Ordered(queue'[s], handler'[s])
    BY <2>1, <2>2, <2>3, HandlerOrdered DEF Sending
  <2>5. Started(s)'
    BY <1>5, <2>1 DEF Retarget, Orderly, Started
  <2> QED
    BY <2>4, <2>5 DEF Orderly
<1>6. CASE CheckRaises(s) \/ HandlerEnds(s)
  <2>1. NoHandler(queue[s]) /\ queue[s] \in Seq(Entries) /\ queue'[s] = queue[s]
    BY <1>6 DEF CheckRaises, HandlerEnds, Orderly, Ordered, Sending, TypeOK
  <2>2. Ordered(queue'[s], handler'[s])
    BY <2>1, NoneOrdered
  <2>3. Started(s)'
    BY <1>6 DEF CheckRaises, HandlerEnds, End, Orderly, Started, TypeOK
  <2> QED
    BY <2>2, <2>3 DEF Orderly
<1>7. CASE AnswerFails(s)
  <2>1. queue[s] # <<>> /\ queue[s][1].task = Handler
    BY <1>7 DEF AnswerFails, Drained, Raised, Holds
  <2>2. queue'[s] = Tail(queue[s])
    BY <1>7, QueueAfter, MessageTyped DEF AnswerFails, Freed
  <2>3. NoHandler(queue'[s]) /\ queue'[s] \in Seq(Entries)
    BY <2>1, <2>2, TailOrdered DEF Orderly, TypeOK
  <2>4. Ordered(queue'[s], handler'[s])
    BY <2>3, NoneOrdered
  <2>5. handler[s] \in Sending
    <3>1. queue[s] \in Seq(Entries) /\ 1 \in 1 .. Len(queue[s])
      BY <2>1 DEF TypeOK
    <3> QED
      BY <2>1, <3>1 DEF Orderly, Ordered, NoHandler
  <2>6. Started(s)'
    BY <1>7, <2>5 DEF AnswerFails, End, Orderly, Started, Sending, TypeOK
  <2> QED
    BY <2>4, <2>6 DEF Orderly
<1> QED
  BY <1>1, <1>2, <1>3, <1>4, <1>5, <1>6, <1>7 DEF HandlerRuns

\* and a request is read when none is waiting.
LEMMA MinerOrderly ==
    ASSUME TypeOK, NEW s \in Session, Orderly(s),
           \/ Connect(s) \/ ReadAuthorize(s) \/ ReadSubmit(s) \/ ReadOther(s)
           \/ Receive(s) \/ HangUp(s) \/ Flushed(s)
    PROVE  Orderly(s)'
<1>1. CASE ReadAuthorize(s)
  <2>1. /\ Send(s, Handler, Ok) /\ s \notin closed
        /\ handler[s] = "reading" /\ handler'[s] = "authorize"
    BY <1>1 DEF ReadAuthorize, Read, OkFirst, TypeOK
  <2>2. /\ [task |-> Handler, msg |-> Ok] \in Entries
        /\ queue'[s] = Append(queue[s], [task |-> Handler, msg |-> Ok])
    BY <2>1, QueueAfter, MessageTyped
  <2>3. NoHandler(queue[s]) /\ queue[s] \in Seq(Entries)
    BY <2>1 DEF Orderly, Ordered, Sending, TypeOK
  <2>4. Ordered(queue'[s], handler'[s])
    BY <2>1, <2>2, <2>3, HandlerOrdered DEF Sending
  <2>5. Started(s)'
    BY <1>1, <2>1 DEF ReadAuthorize, Read, OkFirst, pushVars, Orderly, Started
  <2> QED
    BY <2>4, <2>5 DEF Orderly
<1>2. CASE ReadOther(s)
  <2>1. /\ Send(s, Handler, Answer) /\ s \notin closed
        /\ handler[s] = "reading" /\ handler'[s] = "answer"
    BY <1>2 DEF ReadOther, Read, OkFirst, TypeOK
  <2>2. /\ [task |-> Handler, msg |-> Answer] \in Entries
        /\ queue'[s] = Append(queue[s], [task |-> Handler, msg |-> Answer])
    BY <2>1, QueueAfter, MessageTyped
  <2>3. NoHandler(queue[s]) /\ queue[s] \in Seq(Entries)
    BY <2>1 DEF Orderly, Ordered, Sending, TypeOK
  <2>4. Ordered(queue'[s], handler'[s])
    BY <2>1, <2>2, <2>3, HandlerOrdered DEF Sending
  <2>5. Started(s)'
    BY <1>2, <2>1 DEF ReadOther, Read, OkFirst, pushVars, Orderly, Started
  <2> QED
    BY <2>4, <2>5 DEF Orderly
<1>3. CASE ReadSubmit(s)
  <2>1. /\ handler[s] = "reading" /\ handler'[s] = "submit" /\ queue'[s] = queue[s]
        /\ s \in authorized /\ UNCHANGED <<connected, authorized, push, starting>>
    BY <1>3 DEF ReadSubmit, Read, pushVars, TypeOK
  <2> QED
    BY <2>1 DEF Orderly, Ordered, Sending, Started
<1>4. CASE Connect(s)
  <2>1. /\ handler'[s] = "reading" /\ queue'[s] = queue[s]
        /\ UNCHANGED <<authorized, push, starting>>
    BY <1>4 DEF Connect, sendVars, pushVars, TypeOK
  <2>2. handler[s] = "none"
    BY <1>4 DEF Connect, Orderly, Started
  <2>3. s \in connected'
    BY <1>4 DEF Connect
  <2> QED
    BY <2>1, <2>2, <2>3 DEF Orderly, Ordered, Sending, Started
<1>5. CASE Receive(s) \/ HangUp(s) \/ Flushed(s)
  BY <1>5 DEF Receive, HangUp, Flushed, ConnectionLost, pushVars, Orderly, Started
<1> QED
  BY <1>1, <1>2, <1>3, <1>4, <1>5

-----------------------------------------------------------------------------
(* Work waits, or is on the wire, only behind the authorization's answer.  *)

IsWork(m) == m.kind \in {"difficulty", "job"}

\* The answer was read or is on the wire.
Assured(w, ok) == ok \/ \E k \in 1 .. Len(w) : w[k] = Ok

\* All work on the wire is behind it.
WireSound(w, ok) ==
    \A i \in 1 .. Len(w) : IsWork(w[i]) => ok \/ \E k \in 1 .. i - 1 : w[k] = Ok

\* Work waits, and a session is authorized, only when the answer has been
\* written; the answer at the head of the queue has been.
Sound(s) ==
    s \notin lost =>
       /\ WireSound(wire[s], told[s].ok)
       /\ \A i \in 1 .. Len(queue[s]) :
             IsWork(queue[s][i].msg) => Assured(wire[s], told[s].ok)
       /\ s \in authorized /\ s \notin closed => Assured(wire[s], told[s].ok)
       /\ queue[s] # <<>> /\ queue[s][1].msg = Ok /\ s \notin closed =>
             Assured(wire[s], told[s].ok)

\* What is written later leaves the answer where it is,
LEMMA AppendSound ==
    ASSUME NEW w \in Seq(Messages), NEW ok, NEW m \in Messages
    PROVE  /\ Assured(w, ok) \/ m = Ok => Assured(Append(w, m), ok)
           /\ WireSound(w, ok) /\ (IsWork(m) => Assured(w, ok)) =>
                 WireSound(Append(w, m), ok)
<1> DEFINE x == Append(w, m)
           n == Len(w)
<1>1. n \in Nat /\ Len(x) = n + 1 /\ x[n + 1] = m /\ \A i \in 1 .. n : x[i] = w[i]
  BY AppendProperties
<1>. HIDE DEF x, n
<1>2. /\ n + 1 \in 1 .. n + 1 /\ \A i \in 1 .. n + 1 : i \in 1 .. n \/ i = n + 1
      /\ \A i \in 1 .. n : i \in 1 .. n + 1 /\ i \in 1 .. (n + 1) - 1
      /\ \A i \in 1 .. n : \A k \in 1 .. i - 1 : k \in 1 .. n
  BY <1>1
<1>3. Assured(w, ok) \/ m = Ok => Assured(x, ok)
  BY <1>1, <1>2 DEF Assured, n
<1>4. ASSUME WireSound(w, ok), IsWork(m) => Assured(w, ok),
             NEW i \in 1 .. n + 1, IsWork(x[i]), ~ok
      PROVE  \E k \in 1 .. i - 1 : x[k] = Ok
  <2>1. CASE i \in 1 .. n
    <3>1. PICK k \in 1 .. i - 1 : w[k] = Ok
      BY <1>1, <1>4, <2>1 DEF WireSound, n
    <3>2. x[k] = Ok
      BY <1>1, <1>2, <2>1, <3>1
    <3> QED
      BY <3>2
  <2>2. CASE i = n + 1
    <3>1. PICK k \in 1 .. n : w[k] = Ok
      BY <1>1, <1>4, <2>2 DEF Assured, n
    <3> QED
      BY <1>1, <1>2, <2>2, <3>1
  <2> QED
    BY <1>2, <2>1, <2>2
<1> QED
  BY <1>1, <1>3, <1>4 DEF WireSound, x

\* and once it is read, it is told.
LEMMA TailSound ==
    ASSUME NEW w \in Seq(Messages), w # <<>>, NEW ok,
           NEW okAfter, okAfter <=> ok \/ Head(w) = Ok
    PROVE  /\ Assured(w, ok) => Assured(Tail(w), okAfter)
           /\ WireSound(w, ok) => WireSound(Tail(w), okAfter)
<1> DEFINE x == Tail(w)
           n == Len(w)
<1>1. /\ n \in Nat /\ Len(x) = n - 1 /\ Head(w) = w[1]
      /\ \A i \in 1 .. n - 1 : x[i] = w[i + 1]
  BY HeadTailProperties
<1>. HIDE DEF x, n
<1>2. ASSUME NEW i \in Int, NEW k \in 1 .. i, w[k] = Ok, i <= n, ~okAfter
      PROVE  \E j \in 1 .. i - 1 : x[j] = Ok
  <2>1. k # 1
    BY <1>1, <1>2
  <2>2. k - 1 \in 1 .. i - 1 /\ k - 1 \in 1 .. n - 1 /\ (k - 1) + 1 = k
    BY <1>1, <1>2, <2>1
  <2>3. x[k - 1] = w[(k - 1) + 1]
    BY <1>1, <2>2
  <2> QED
    BY <1>2, <2>2, <2>3
<1>3. Assured(w, ok) => Assured(x, okAfter)
  BY <1>1, <1>2 DEF Assured, n
<1>4. ASSUME WireSound(w, ok), NEW i \in 1 .. n - 1, IsWork(x[i]), ~okAfter
      PROVE  \E j \in 1 .. i - 1 : x[j] = Ok
  <2>1. i + 1 \in 1 .. n /\ x[i] = w[i + 1] /\ (i + 1) - 1 = i /\ i <= n
    BY <1>1
  <2>2. PICK k \in 1 .. (i + 1) - 1 : w[k] = Ok
    BY <1>4, <2>1 DEF WireSound, n
  <2> QED
    BY <1>2, <1>4, <2>1, <2>2
<1> QED
  BY <1>1, <1>3, <1>4 DEF WireSound, x

\* A queue of messages that may leave, put in place of a session's.
LEMMA PutSound ==
    ASSUME TypeOK, NEW s \in Session, s \notin lost, Sound(s),
           NEW q \in Seq(Entries), Put(s, q),
           \A i \in 1 .. Len(q) :
              IsWork(q[i].msg) => Assured(wire[s], told[s].ok),
           told'[s] = told[s], s \in closed' <=> s \in closed,
           s \in authorized' /\ s \notin closed => Assured(wire[s], told[s].ok)
    PROVE  Sound(s)'
<1>1. wire[s] \in Seq(Messages) /\ queue'[s] = q
  BY DEF TypeOK, Put
<1>2. CASE q = <<>>
  BY <1>1, <1>2 DEF Put, Sound, TypeOK
<1>3. CASE q # <<>>
  <2> DEFINE m == q[1].msg
  <2>1. 1 \in 1 .. Len(q) /\ q[1] \in Entries
    BY <1>3
  <2>2. m \in Messages /\ (IsWork(m) => Assured(wire[s], told[s].ok))
    BY <2>1 DEF Entries
  <2>3. wire'[s] = wire[s] \/ wire'[s] = Append(wire[s], m)
    BY <1>3 DEF Put, Written, TypeOK
  <2>4. s \notin closed => wire'[s] = Append(wire[s], m)
    BY <1>3 DEF Put, Written, TypeOK
  <2>. HIDE DEF m
  <2>5. /\ Assured(wire[s], told[s].ok) => Assured(wire'[s], told'[s].ok)
        /\ WireSound(wire'[s], told'[s].ok)
        /\ m = Ok /\ s \notin closed => Assured(wire'[s], told'[s].ok)
    <3> DEFINE ok == told[s].ok
               x == Append(wire[s], m)
    <3>1. WireSound(wire[s], ok) /\ told'[s].ok = ok
      BY DEF Sound
    <3>. HIDE DEF ok
    <3>2. /\ Assured(wire[s], ok) \/ m = Ok => Assured(x, ok)
          /\ WireSound(wire[s], ok) /\ (IsWork(m) => Assured(wire[s], ok)) =>
                WireSound(x, ok)
      BY <1>1, <2>2, AppendSound
    <3>. HIDE DEF x
    <3>3. IsWork(m) => Assured(wire[s], ok)
      BY <2>2 DEF ok
    <3>4. /\ wire'[s] = wire[s] \/ wire'[s] = x
          /\ s \notin closed => wire'[s] = x
      BY <2>3, <2>4 DEF x
    <3>5. /\ Assured(wire[s], ok) => Assured(wire'[s], ok)
          /\ WireSound(wire'[s], ok)
          /\ m = Ok /\ s \notin closed => Assured(wire'[s], ok)
      BY <3>1, <3>2, <3>3, <3>4
    <3> QED
      BY <3>1, <3>5 DEF ok
  <2> QED
    BY <1>1, <2>5 DEF Sound, m
<1> QED
  BY <1>2, <1>3

\* A message that is sent: work only when the answer has been written.
LEMMA SendSound ==
    ASSUME TypeOK, NEW s \in Session, s \notin lost, Sound(s),
           NEW p \in Push \cup {Handler}, NEW m \in Messages, Send(s, p, m),
           IsWork(m) /\ s \notin closed => Assured(wire[s], told[s].ok),
           told'[s] = told[s], s \in closed' <=> s \in closed,
           s \in authorized' => s \in authorized
    PROVE  Sound(s)'
<1> DEFINE e == [task |-> p, msg |-> m]
<1>1. queue[s] \in Seq(Entries) /\ e \in Entries /\ e.msg = m
  BY DEF TypeOK, Entries
<1>2. CASE s \in closed
  BY <1>2 DEF Send, Sound
<1>3. CASE s \notin closed /\ queue[s] = <<>>
  <2>1. Put(s, <<e>>) /\ <<e>> \in Seq(Entries) /\ Len(<<e>>) = 1 /\ <<e>>[1] = e
    BY <1>1, <1>3 DEF Send
  <2>. HIDE DEF e
  <2>2. \A i \in 1 .. Len(<<e>>) : i = 1
    BY <2>1
  <2>3. \A i \in 1 .. Len(<<e>>) :
           IsWork(<<e>>[i].msg) => Assured(wire[s], told[s].ok)
    BY <1>1, <1>3, <2>1, <2>2
  <2>4. s \in authorized' /\ s \notin closed => Assured(wire[s], told[s].ok)
    BY DEF Sound
  <2> QED
    BY <2>1, <2>3, <2>4, PutSound
<1>4. CASE s \notin closed /\ queue[s] # <<>>
  <2> DEFINE r == Append(queue[s], e)
             n == Len(queue[s])
  <2>1. queue'[s] = r /\ wire'[s] = wire[s]
    BY <1>4 DEF Send, TypeOK
  <2>2. /\ n \in Nat /\ n > 0 /\ Len(r) = n + 1 /\ r[n + 1] = e
        /\ \A i \in 1 .. n : r[i] = queue[s][i]
    BY <1>1, <1>4, AppendProperties
  <2>. HIDE DEF r, e
  <2>3. 1 \in 1 .. n /\ \A i \in 1 .. n + 1 : i \in 1 .. n \/ i = n + 1
    BY <2>2
  <2>4. r[1] = queue[s][1]
    BY <2>2, <2>3
  <2>5. \A i \in 1 .. Len(r) : IsWork(r[i].msg) => Assured(wire[s], told[s].ok)
    BY <1>1, <1>4, <2>2, <2>3 DEF Sound
  <2> QED
    BY <1>4, <2>1, <2>4, <2>5 DEF Sound
<1> QED
  BY <1>2, <1>3, <1>4

\* The lock given away, what waited is written;
LEMMA ReleaseSound ==
    ASSUME TypeOK, NEW s \in Session, s \notin lost, Sound(s),
           queue[s] # <<>>, Release(s),
           told'[s] = told[s], s \in closed' <=> s \in closed,
           s \in authorized' /\ s \notin closed => Assured(wire[s], told[s].ok)
    PROVE  Sound(s)'
<1> DEFINE r == Tail(queue[s])
           n == Len(queue[s])
<1>1. /\ r \in Seq(Entries) /\ Len(r) = n - 1 /\ n \in Nat
      /\ \A i \in 1 .. n - 1 : r[i] = queue[s][i + 1]
  BY HeadTailProperties DEF TypeOK
<1>2. Put(s, r)
  BY DEF Release
<1>. HIDE DEF r
<1>3. \A i \in 1 .. n - 1 : i + 1 \in 1 .. n
  BY <1>1
<1>4. \A i \in 1 .. Len(r) : IsWork(r[i].msg) => Assured(wire[s], told[s].ok)
  BY <1>1, <1>3 DEF Sound
<1> QED
  BY <1>1, <1>2, <1>4, PutSound

\* an authorized session may ask for it again with work.
LEMMA ReleaseAndSendSound ==
    ASSUME TypeOK, NEW s \in Session, s \notin lost, Sound(s),
           queue[s] # <<>>, NEW p \in Push \cup {Handler}, NEW m \in Messages,
           ReleaseAndSend(s, p, m),
           s \in authorized /\ s \notin closed,
           told'[s] = told[s], s \in closed' <=> s \in closed
    PROVE  Sound(s)'
<1> DEFINE t == Tail(queue[s])
           e == [task |-> p, msg |-> m]
           r == Append(t, e)
           n == Len(queue[s])
<1>1. /\ t \in Seq(Entries) /\ Len(t) = n - 1 /\ n \in Nat /\ n > 0
      /\ \A i \in 1 .. n - 1 : t[i] = queue[s][i + 1]
  BY HeadTailProperties DEF TypeOK
<1>2. e \in Entries
  BY DEF Entries
<1>3. Put(s, r)
  BY DEF ReleaseAndSend
<1>. HIDE DEF t, e
<1>4. /\ r \in Seq(Entries) /\ Len(r) = n
      /\ \A i \in 1 .. n - 1 : r[i] = queue[s][i + 1]
  BY <1>1, <1>2, AppendProperties
<1>. HIDE DEF r
<1>5. \A i \in 1 .. n - 1 : i + 1 \in 1 .. n
  BY <1>1
<1>6. Assured(wire[s], told[s].ok)
  BY DEF Sound
<1> QED
  BY <1>3, <1>4, <1>6, PutSound

\* Pushes are of authorized sessions.
LEMMA PushSound ==
    ASSUME SessionsAssumption, TypeOK, NEW s \in Session, Sound(s), Orderly(s),
           s \notin lost, NEW p \in Push,
           \/ PushDifficulty(s, p) \/ PushJob(s, p)
           \/ PushEnds(s, p) \/ PushFails(s, p)
    PROVE  Sound(s)'
<1>1. UNCHANGED <<authorized, closed, lost, told>>
  BY DEF PushDifficulty, PushJob, PushEnds, PushFails
<1>2. s \in authorized /\ s \notin closed => Assured(wire[s], told[s].ok)
  BY DEF Sound
<1>3. CASE PushDifficulty(s, p)
  <2> DEFINE d == IF p = Work THEN Initial ELSE difficulty[s]
  <2>1. Message("difficulty", d) \in Messages
    BY MessageTyped DEF SessionsAssumption, TypeOK
  <2>2. Send(s, p, Message("difficulty", d)) /\ s \in authorized
    BY <1>3 DEF PushDifficulty, Orderly, Started
  <2>. HIDE DEF d
  <2> QED
    BY <1>1, <1>2, <2>1, <2>2, SendSound
<1>4. CASE PushJob(s, p)
  <2> DEFINE j == IF p = Work THEN current ELSE p
  <2>1. queue[s] # <<>> /\ push[s][p] = "difficulty" /\ s \in authorized
    BY <1>4 DEF PushJob, Drained, Holds, Orderly, Started
  <2>2. CASE Release(s)
    BY <1>1, <1>2, <2>1, <2>2, ReleaseSound
  <2>3. CASE j # 0 /\ s \notin closed /\ ReleaseAndSend(s, p, Message("job", j))
    <3>1. Message("job", j) \in Messages
      BY <2>3, MessageTyped DEF TypeOK, Push, Job, Work, SessionsAssumption
    <3>. HIDE DEF j
    <3> QED
      BY <1>1, <2>1, <2>3, <3>1, ReleaseAndSendSound
  <2> QED
    BY <1>4, <2>2, <2>3 DEF PushJob
<1>5. CASE PushEnds(s, p) \/ PushFails(s, p)
  <2>1. queue[s] # <<>> /\ Release(s)
    BY <1>5 DEF PushEnds, PushFails, Freed, Drained, Raised, Holds
  <2> QED
    BY <1>1, <1>2, <2>1, ReleaseSound
<1> QED
  BY <1>3, <1>4, <1>5

\* The authorization counts once its answer has been written and drained.
LEMMA HandlerSound ==
    ASSUME TypeOK, NEW s \in Session, Sound(s), Orderly(s), s \notin lost,
           HandlerRuns(s)
    PROVE  Sound(s)'
<1>1. UNCHANGED <<lost, told>>
  BY DEF HandlerRuns, Authorized, Answered, Checked, KeepDifficulty, Retarget,
     CheckRaises, AnswerFails, HandlerEnds, End
<1>2. s \in authorized /\ s \notin closed => Assured(wire[s], told[s].ok)
  BY DEF Sound
<1>3. CASE Authorized(s)
  <2>1. /\ queue[s] # <<>> /\ queue[s][1].task = Handler /\ handler[s] = "authorize"
        /\ Release(s) /\ UNCHANGED closed
    BY <1>3 DEF Authorized, Drained, Holds
  <2>2. 1 \in 1 .. Len(queue[s])
    BY <2>1 DEF TypeOK
  <2>3. queue[s][1].msg = Ok
    BY <2>1, <2>2 DEF Orderly, Ordered
  <2>4. s \notin closed => Assured(wire[s], told[s].ok)
    BY <2>1, <2>3 DEF Sound
  <2> QED
    BY <1>1, <2>1, <2>4, ReleaseSound
<1>4. CASE Answered(s) \/ KeepDifficulty(s)
  <2>1. queue[s] # <<>> /\ Release(s) /\ UNCHANGED <<authorized, closed>>
    BY <1>4 DEF Answered, KeepDifficulty, Drained, Holds
  <2> QED
    BY <1>1, <1>2, <2>1, ReleaseSound
<1>5. CASE Checked(s)
  <2>1. Send(s, Handler, Answer) /\ UNCHANGED <<authorized, closed>>
    BY <1>5 DEF Checked
  <2>2. Answer \in Messages /\ ~IsWork(Answer)
    BY MessageTyped DEF Answer, Message, IsWork
  <2> QED
    BY <1>1, <2>1, <2>2, SendSound
<1>6. ASSUME NEW d \in Difficulty, Retarget(s, d)
      PROVE  Sound(s)'
  <2>1. /\ ReleaseAndSend(s, Handler, Message("difficulty", d)) /\ queue[s] # <<>>
        /\ s \in authorized /\ s \notin closed /\ UNCHANGED <<authorized, closed>>
    BY <1>6 DEF Retarget, Drained, Holds, Orderly, Started
  <2> QED
    BY <1>1, <2>1, MessageTyped, ReleaseAndSendSound
<1>7. CASE CheckRaises(s) \/ HandlerEnds(s)
  BY <1>1, <1>7 DEF CheckRaises, HandlerEnds, End, sendVars, Sound
<1>8. CASE AnswerFails(s)
  BY <1>8 DEF AnswerFails, Raised
<1> QED
  BY <1>3, <1>4, <1>5, <1>6, <1>7, <1>8 DEF HandlerRuns

\* A miner that reads the answer has been told; requests send no work.
LEMMA MinerSound ==
    ASSUME TypeOK, NEW s \in Session, Sound(s), s \notin lost,
           \/ Connect(s) \/ ReadAuthorize(s) \/ ReadSubmit(s) \/ ReadOther(s)
           \/ Receive(s) \/ HangUp(s) \/ Flushed(s)
    PROVE  Sound(s)'
<1>1. CASE Connect(s) \/ ReadSubmit(s)
  BY <1>1 DEF Connect, ReadSubmit, Read, sendVars, Sound
<1>2. CASE ReadAuthorize(s) \/ ReadOther(s)
  <2>1. PICK m \in {Ok, Answer} : Send(s, Handler, m)
    BY <1>2 DEF ReadAuthorize, OkFirst, ReadOther
  <2>2. m \in Messages /\ ~IsWork(m)
    BY MessageTyped DEF Ok, Answer, Message, IsWork
  <2>3. UNCHANGED <<authorized, closed, lost, told>>
    BY <1>2 DEF ReadAuthorize, ReadOther, Read
  <2> QED
    BY <2>1, <2>2, <2>3, SendSound
<1>3. CASE Receive(s)
  <2> DEFINE m == Head(wire[s])
  <2>1. /\ wire[s] \in Seq(Messages) /\ wire[s] # <<>>
        /\ queue'[s] = queue[s] /\ wire'[s] = Tail(wire[s])
        /\ UNCHANGED <<authorized, closed, lost>>
    BY <1>3 DEF Receive, TypeOK
  <2>2. m \in Messages
    BY <2>1
  <2>3. told'[s].ok <=> told[s].ok \/ m = Ok
    <3>1. /\ told[s] \in [ok : BOOLEAN, difficulty : Difficulty \cup {0},
                          job : 0 .. MaxJobs]
          /\ told'[s] = IF m.kind = "ok" THEN [told[s] EXCEPT !.ok = TRUE]
                        ELSE IF m.kind = "answer" THEN told[s]
                        ELSE [told[s] EXCEPT ![m.kind] = m.value]
      BY <1>3 DEF Receive, TypeOK
    <3>2. m.kind = "ok" <=> m = Ok
      BY <2>2 DEF Messages, Ok, Message
    <3>3. m.kind \in {"ok", "answer", "difficulty", "job"}
      BY <2>2 DEF Messages
    <3>. HIDE DEF m
    <3> QED
      BY <3>1, <3>2, <3>3
  <2>4. /\ Assured(wire[s], told[s].ok) => Assured(wire'[s], told'[s].ok)
        /\ WireSound(wire[s], told[s].ok) => WireSound(wire'[s], told'[s].ok)
    <3> DEFINE ok == told[s].ok
               after == told'[s].ok
               w == wire[s]
    <3>. HIDE DEF ok, after, w
    <3>1. w \in Seq(Messages) /\ w # <<>> /\ (after <=> ok \/ Head(w) = Ok)
      BY <2>1, <2>3 DEF ok, after, w
    <3>2. /\ Assured(w, ok) => Assured(Tail(w), after)
          /\ WireSound(w, ok) => WireSound(Tail(w), after)
      BY <3>1, TailSound
    <3> QED
      BY <2>1, <3>2, Zenon DEF ok, after, w
  <2> QED
    BY <2>1, <2>4 DEF Sound
<1>4. CASE HangUp(s) \/ Flushed(s)
  BY <1>4 DEF HangUp, Flushed, ConnectionLost, Sound
<1> QED
  BY <1>1, <1>2, <1>3, <1>4

\* A broadcast starts pushes of authorized sessions only; nothing else of the
\* server changes what waits or is on the wire.
LEMMA ServerOrderly ==
    ASSUME TypeOK, NEW t \in Session, Orderly(t), Sound(t),
           NewJob \/ StopBegins \/ BroadcastRuns \/ StopRuns
    PROVE  Orderly(t)' /\ Sound(t)'
<1> USE DEF sendVars, pushVars
<1>1. CASE NewJob \/ StopBegins \/ StopRuns
  BY <1>1 DEF NewJob, StopBegins, StopRuns, StopCloses, Closed, StopGoesOn,
     StopListening, StopReturns, Orderly, Started, Sound
<1>2. ASSUME NEW j \in Job, Broadcast(j)
      PROVE  Orderly(t)' /\ Sound(t)'
  <2>1. UNCHANGED <<connected, handler, authorized, closed, lost, queue, wire, told>>
    BY <1>2 DEF Broadcast
  <2>2. \A p \in Push : push'[t][p] = "difficulty" => push[t][p] = "difficulty"
    BY <1>2 DEF Broadcast, TypeOK
  <2>3. starting'[t] # starting[t] => t \in authorized
    BY <1>2 DEF Broadcast, TypeOK
  <2> QED
    BY <2>1, <2>2, <2>3 DEF Orderly, Started, Sound
<1>3. ASSUME NEW j \in Job, Gathered(j)
      PROVE  Orderly(t)' /\ Sound(t)'
  <2>1. UNCHANGED <<connected, handler, authorized, closed, lost, queue, wire, told,
                    starting>>
    BY <1>3 DEF Gathered
  <2>2. \A p \in Push : push'[t][p] = "difficulty" => push[t][p] = "difficulty"
    BY <1>3 DEF Gathered, TypeOK
  <2> QED
    BY <2>1, <2>2 DEF Orderly, Started, Sound
<1> QED
  BY <1>1, <1>2, <1>3 DEF BroadcastRuns

\* No work leaves in front of an answer.
LEMMA SoundAnswer ==
    ASSUME TypeOK, NEW s \in Session, s \notin lost, Sound(s),
           NEW i \in 1 .. Len(Outgoing(s)), IsWork(Outgoing(s)[i])
    PROVE  told[s].ok \/ \E k \in 1 .. i - 1 : Outgoing(s)[k] = Ok
<1> DEFINE o == Outgoing(s)
           w == wire[s]
           q == queue[s]
<1>1. q \in Seq(Entries) /\ w \in Seq(Messages)
  BY DEF TypeOK
<1>2. o = Leaving(q, w)
  BY DEF Outgoing, Leaving
<1>. HIDE DEF o, w, q
<1>3. /\ Len(o) = IF q = <<>> THEN Len(w) ELSE Len(w) + Len(q) - 1
      /\ \A k \in 1 .. Len(w) : o[k] = w[k]
      /\ \A k \in 1 .. Len(q) - 1 : o[Len(w) + k] = q[k + 1].msg
  BY <1>1, <1>2, LeavingTyped
<1>4. Len(w) \in Nat /\ Len(q) \in Nat
  BY <1>1, LenProperties
<1>5. CASE i \in 1 .. Len(w)
  <2>1. IsWork(w[i])
    BY <1>3, <1>5 DEF o
  <2>2. told[s].ok \/ \E k \in 1 .. i - 1 : w[k] = Ok
    BY <1>5, <2>1 DEF Sound, WireSound, w
  <2>3. \A k \in 1 .. i - 1 : k \in 1 .. Len(w)
    BY <1>4, <1>5
  <2> QED
    BY <1>3, <2>2, <2>3 DEF o
<1>6. CASE i \in Len(w) + 1 .. Len(o)
  <2> DEFINE j == i - Len(w)
  <2>1. q # <<>>
    BY <1>3, <1>4, <1>6
  <2>2. j \in 1 .. Len(q) - 1 /\ i = Len(w) + j /\ j + 1 \in 1 .. Len(q)
    BY <1>3, <1>4, <1>6, <2>1
  <2>. HIDE DEF j
  <2>3. IsWork(q[j + 1].msg)
    BY <1>3, <2>2 DEF o
  <2>4. Assured(w, told[s].ok)
    BY <2>2, <2>3 DEF Sound, w, q
  <2>5. \A k \in 1 .. Len(w) : k \in 1 .. i - 1
    BY <1>4, <1>6
  <2> QED
    BY <1>3, <2>4, <2>5 DEF Assured, o
<1>7. i \in 1 .. Len(w) \/ i \in Len(w) + 1 .. Len(o)
  BY <1>3, <1>4 DEF o
<1> QED
  BY <1>5, <1>6, <1>7

\* No difficulty and no job, of a broadcast, of _push_work or of vardiff,
\* reaches a miner before the answer to its authorization.
THEOREM AnsweredFirst == Spec => []AnswerBeforeWork
<1> DEFINE Inv == \A t \in Session : Orderly(t) /\ Sound(t)
<1>1. Init => Inv
  <2> SUFFICES ASSUME Init, NEW t \in Session
               PROVE  Orderly(t) /\ Sound(t)
    OBVIOUS
  <2>1. /\ queue[t] = <<>> /\ wire[t] = <<>> /\ starting[t] = <<>>
        /\ handler[t] = "none" /\ t \notin authorized
        /\ \A p \in Push : push[t][p] = "none"
    BY DEF Init
  <2>2. Len(<<>>) = 0
    OBVIOUS
  <2> QED
    BY <2>1, <2>2 DEF Orderly, Ordered, NoHandler, Started, Sound, WireSound
<1>2. TypeOK /\ Inv /\ [Next]_vars => Inv'
  <2> SUFFICES ASSUME TypeOK, Inv, [Next]_vars, NEW t \in Session
               PROVE  Orderly(t)' /\ Sound(t)'
    OBVIOUS
  <2>1. ASSUME Same(t)
        PROVE  Orderly(t)' /\ Sound(t)'
    BY <2>1 DEF Same, Orderly, Started, Sound
  <2>2. CASE UNCHANGED vars
    BY <2>2 DEF vars, sendVars, pushVars, Orderly, Started, Sound
  <2>3. CASE NewJob \/ StopBegins \/ BroadcastRuns \/ StopRuns
    BY <2>3, ServerOrderly
  <2>4. t \in lost => Sound(t)'
    BY NextCloses DEF Sound
  <2>5. ASSUME NEW s \in Session, PushRuns(s)
        PROVE  Orderly(t)' /\ Sound(t)'
    BY <2>1, <2>4, <2>5, SessionsAssumption, PushElsewhere, PushOrderly, PushSound
       DEF PushRuns
  <2>6. ASSUME NEW s \in Session, HandlerRuns(s)
        PROVE  Orderly(t)' /\ Sound(t)'
    BY <2>1, <2>4, <2>6, HandlerElsewhere, HandlerOrderly, HandlerSound
  <2>7. ASSUME NEW s \in Session,
               \/ Connect(s) \/ ReadAuthorize(s) \/ ReadSubmit(s) \/ ReadOther(s)
               \/ Receive(s) \/ HangUp(s) \/ Flushed(s)
        PROVE  Orderly(t)' /\ Sound(t)'
    BY <2>1, <2>4, <2>7, MinerElsewhere, MinerOrderly, MinerSound
  <2> QED
    BY <2>2, <2>3, <2>5, <2>6, <2>7 DEF Next, LoopRuns
<1>3. TypeOK /\ Inv => AnswerBeforeWork
  BY SoundAnswer DEF AnswerBeforeWork, IsWork
<1> QED
  BY <1>1, <1>2, <1>3, SessionsTyped, PTL DEF Spec

=============================================================================
