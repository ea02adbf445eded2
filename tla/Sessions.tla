------------------------------ MODULE Sessions ------------------------------
(***************************************************************************)
(* What is written to the miners' connections, in which order and who      *)
(* waits for whom (stratum/session.py; broadcast_job, _handle_client and   *)
(* stop in stratum/server.py).  One event loop runs, per session, the      *)
(* handler that reads requests, the _push_work of each authorization and   *)
(* the _push_job of each broadcast.  Each sends one message at a time:     *)
(* under the session's asyncio.Lock it writes and then drains, which waits *)
(* while the miner leaves more than HighWater unread.  An action is what   *)
(* a coroutine does between two waits.                                     *)
(***************************************************************************)
EXTENDS Integers, Sequences

CONSTANTS
    Session,        \* connections of miners
    Reader,         \* those whose miner reads; the others never do
    Difficulty,     \* difficulties vardiff may choose
    Initial,        \* jobs.difficulty
    HighWater,      \* messages a connection buffers before drain waits
    MaxEvents,      \* bound on what others do: requests, hang-ups, jobs, the stop
    MaxJobs,        \* bound on the jobs that are broadcast
    Nobody          \* no session

ASSUME SessionsAssumption ==
    /\ Reader \subseteq Session
    /\ Initial \in Difficulty /\ 0 \notin Difficulty
    /\ HighWater \in Nat /\ MaxEvents \in Nat
    /\ MaxJobs \in Nat
    /\ Nobody \notin Session

\* The coroutines of a session: its handler, the _push_work of its last
\* authorization and the _push_job of each broadcast.
Job == 1 .. MaxJobs
Work == 0
Handler == -1
Push == {Work} \cup Job

VARIABLES
    connected,  \* sessions the server has accepted
    handler,    \* what the coroutine of a session does
    events,     \* how many events so far
    authorized, \* _authorized
    closed,     \* _closed
    lost,       \* the transport has called connection_lost
    difficulty, \* _session_difficulty
    push,       \* the next message of each pushing coroutine
    starting,   \* those that have not started, the oldest first
    queue,      \* who holds the lock and who waits for it, with the message
    wire,       \* written and not read by the miner
    told,       \* what the miner has read: an answer, a difficulty, a job
    current,    \* the newest job
    scheduled,  \* broadcasts that have not started
    registered, \* _sessions
    stopping,   \* server.stop: "no", "closing", "listening", "done"
    toClose,    \* the sessions it still has to close
    closing     \* the one it waits for

pushVars == <<push, starting>>
sendVars == <<difficulty, pushVars, queue, wire>>
stopVars == <<stopping, toClose, closing>>
vars == <<connected, handler, events, authorized, closed, lost, sendVars,
          told, current, scheduled, registered, stopVars>>

Untold == [ok |-> FALSE, difficulty |-> 0, job |-> 0]

Init ==
    /\ connected = {}
    /\ handler = [s \in Session |-> "none"]
    /\ events = 0
    /\ authorized = {} /\ closed = {} /\ lost = {}
    /\ difficulty = [s \in Session |-> 0]
    /\ push = [s \in Session |-> [p \in Push |-> "none"]]
    /\ starting = [s \in Session |-> <<>>]
    /\ queue = [s \in Session |-> <<>>] /\ wire = [s \in Session |-> <<>>]
    /\ told = [s \in Session |-> Untold]
    /\ current = 0 /\ scheduled = {}
    /\ registered = {}
    /\ stopping = "no" /\ toClose = {} /\ closing = Nobody

-----------------------------------------------------------------------------
(* send: write and drain under a lock that is given away in the order in   *)
(* which it was asked for.  Who is at the head of the queue has written.   *)

Message(kind, value) == [kind |-> kind, value |-> value]
Ok == Message("ok", 0)
Answer == Message("answer", 0)

\* Nothing reaches a connection that is lost, or closed and flushed.
Written(s, msg) ==
    IF s \in lost \/ (s \in closed /\ wire[s] = <<>>) THEN wire[s]
    ELSE Append(wire[s], msg)

\* The queue becomes q, whose head writes.
Put(s, q) ==
    /\ queue' = [queue EXCEPT ![s] = q]
    /\ wire' = [wire EXCEPT ![s] = IF q = <<>> THEN @ ELSE Written(s, q[1].msg)]

\* Ask for the lock; send does nothing on a session that is closed.
Send(s, task, msg) ==
    IF s \in closed THEN UNCHANGED <<queue, wire>>
    ELSE IF queue[s] = <<>> THEN Put(s, <<[task |-> task, msg |-> msg]>>)
    ELSE /\ queue' = [queue EXCEPT ![s] = Append(@, [task |-> task, msg |-> msg])]
         /\ UNCHANGED wire

\* Give the lock away, and ask for it again with the next message.
Release(s) == Put(s, Tail(queue[s]))
ReleaseAndSend(s, task, msg) ==
    Put(s, Append(Tail(queue[s]), [task |-> task, msg |-> msg]))

\* The task that holds the lock has drained its message, or drain raises.
Holds(s, task) == queue[s] # <<>> /\ queue[s][1].task = task
Drained(s, task) == Holds(s, task) /\ s \notin lost /\ Len(wire[s]) <= HighWater
Raised(s, task) == Holds(s, task) /\ s \in lost

\* async with gives the lock away when drain raises, too.
StillHeld(s) == UNCHANGED <<queue, wire>>
Freed(s) == Release(s)

-----------------------------------------------------------------------------
(* _push_work and _push_job: the difficulty, then the job.                 *)

PushStep(s, p, step) ==
    push' = [push EXCEPT ![s][p] = step] /\ UNCHANGED starting

\* gather starts the pushes of a broadcast together.
OneByOne(s, p) ==
    \A t \in Session \ {s} : push[t][p] \notin {"difficulty", "job"}
Together(s, p) == TRUE

\* The loop starts new tasks in the order in which they were made.
PushDifficulty(s, p) ==
    LET d == IF p = Work THEN Initial ELSE difficulty[s]
    IN  /\ starting[s] # <<>> /\ p = Head(starting[s])
        /\ Together(s, p)
        /\ starting' = [starting EXCEPT ![s] = Tail(@)]
        /\ difficulty' = [difficulty EXCEPT ![s] = d]
        /\ Send(s, p, Message("difficulty", d))
        /\ push' = [push EXCEPT ![s][p] = IF s \in closed THEN "none" ELSE "difficulty"]
        /\ UNCHANGED <<connected, handler, events, authorized, closed, lost,
                       told, current, scheduled, registered, stopVars>>

\* _push_work reads the job only now; without one, or on a session that was
\* closed meanwhile, there is nothing more to send.
PushJob(s, p) ==
    LET j == IF p = Work THEN current ELSE p
    IN  /\ push[s][p] = "difficulty" /\ Drained(s, p)
        /\ IF j = 0 \/ s \in closed
           THEN Release(s) /\ PushStep(s, p, "none")
           ELSE ReleaseAndSend(s, p, Message("job", j)) /\ PushStep(s, p, "job")
        /\ UNCHANGED <<connected, handler, events, authorized, closed, lost,
                       difficulty, told, current, scheduled, registered, stopVars>>

PushEnds(s, p) ==
    /\ push[s][p] = "job" /\ Drained(s, p)
    /\ Release(s)
    /\ PushStep(s, p, "none")
    /\ UNCHANGED <<connected, handler, events, authorized, closed, lost,
                   difficulty, told, current, scheduled, registered, stopVars>>

\* _push_work logs the error; a broadcast keeps it until all its pushes ended.
PushFails(s, p) ==
    /\ Raised(s, p)
    /\ Freed(s)
    /\ PushStep(s, p, IF p = Work THEN "none" ELSE "failed")
    /\ UNCHANGED <<connected, handler, events, authorized, closed, lost,
                   difficulty, told, current, scheduled, registered, stopVars>>

\* What a miner, the operator or the job manager does of itself.
Event == events < MaxEvents /\ events' = events + 1

NewJob ==
    /\ stopping = "no" /\ current < MaxJobs
    /\ Event
    /\ current' = current + 1
    /\ scheduled' = scheduled \cup {current'}
    /\ UNCHANGED <<connected, handler, authorized, closed, lost,
                   sendVars, told, registered, stopVars>>

Broadcast(j) ==
    /\ j \in scheduled /\ \A k \in scheduled : j <= k
    /\ scheduled' = scheduled \ {j}
    /\ LET known == registered \cap authorized
       IN  /\ push' = [s \in Session |->
                 IF s \in known THEN [push[s] EXCEPT ![j] = "ready"] ELSE push[s]]
           /\ starting' = [s \in Session |->
                 IF s \in known THEN Append(starting[s], j) ELSE starting[s]]
    /\ UNCHANGED <<connected, handler, events, authorized, closed, lost,
                   difficulty, queue, wire, told, current, registered, stopVars>>

\* The sessions a broadcast failed for are forgotten.
Failed(j) == {s \in Session : push[s][j] = "failed"}
Gathered(j) ==
    /\ Failed(j) # {} /\ \A s \in Session : push[s][j] \in {"none", "failed"}
    /\ registered' = registered \ Failed(j)
    /\ push' = [s \in Session |-> [push[s] EXCEPT ![j] = "none"]]
    /\ UNCHANGED <<connected, handler, events, authorized, closed, lost,
                   difficulty, starting, queue, wire, told, current, scheduled,
                   stopVars>>

-----------------------------------------------------------------------------
(* handle: a request is read when the one before it has been answered.     *)

Connect(s) ==
    /\ s \notin connected /\ stopping \in {"no", "closing"}
    /\ connected' = connected \cup {s} /\ registered' = registered \cup {s}
    /\ handler' = [handler EXCEPT ![s] = "reading"]
    /\ UNCHANGED <<events, authorized, closed, lost, sendVars, told, current,
                   scheduled, stopVars>>

Read(s) ==
    /\ handler[s] = "reading" /\ s \notin closed \cup lost
    /\ Event
    /\ UNCHANGED <<connected, closed, lost, difficulty, told, current,
                   scheduled, registered, stopVars>>

\* The answer to mining.authorize goes before everything it starts.
WorkFirst(s) ==
    /\ Put(s, <<[task |-> Work, msg |-> Message("difficulty", Initial)],
                [task |-> Handler, msg |-> Ok]>>)
    /\ PushStep(s, Work, "difficulty")
OkFirst(s) == Send(s, Handler, Ok) /\ UNCHANGED pushVars

ReadAuthorize(s) ==
    /\ push[s][Work] = "none"
    /\ Read(s)
    /\ OkFirst(s)
    /\ handler' = [handler EXCEPT ![s] = "authorize"]
    /\ UNCHANGED authorized

\* on_submit runs in other threads.
ReadSubmit(s) ==
    /\ s \in authorized
    /\ Read(s)
    /\ handler' = [handler EXCEPT ![s] = "submit"]
    /\ UNCHANGED <<authorized, pushVars, queue, wire>>

\* mining.subscribe, an unknown or a malformed request, a submit before the
\* authorization: one answer.
ReadOther(s) ==
    /\ Read(s)
    /\ Send(s, Handler, Answer)
    /\ handler' = [handler EXCEPT ![s] = "answer"]
    /\ UNCHANGED <<authorized, pushVars>>

\* _handle_client forgets the session when its handler ends, however it ends.
Discarded(s) == registered \ {s}

\* The handler is back at the top of its loop, which ends on a closed session.
Loop(s) ==
    /\ handler' = [handler EXCEPT ![s] = IF s \in closed THEN "ended" ELSE "reading"]
    /\ registered' = IF s \in closed THEN Discarded(s) ELSE registered

Authorized(s) ==
    /\ handler[s] = "authorize" /\ Drained(s, Handler)
    /\ authorized' = authorized \cup {s}
    /\ push' = [push EXCEPT ![s][Work] = "ready"]
    /\ starting' = [starting EXCEPT ![s] = Append(@, Work)]
    /\ Release(s)
    /\ Loop(s)
    /\ UNCHANGED <<connected, events, closed, lost, difficulty, told, current,
                   scheduled, stopVars>>

Answered(s) ==
    /\ handler[s] = "answer" /\ Drained(s, Handler)
    /\ Release(s)
    /\ Loop(s)
    /\ UNCHANGED <<connected, events, authorized, closed, lost, difficulty,
                   pushVars, told, current, scheduled, stopVars>>

\* An accepted share may change the difficulty once it is answered.
Checked(s) ==
    /\ handler[s] = "submit"
    /\ Send(s, Handler, Answer)
    /\ IF s \in closed THEN Loop(s)
       ELSE /\ \E step \in {"share", "answer"} : handler' = [handler EXCEPT ![s] = step]
            /\ UNCHANGED registered
    /\ UNCHANGED <<connected, events, authorized, closed, lost, difficulty,
                   pushVars, told, current, scheduled, stopVars>>

KeepDifficulty(s) ==
    /\ handler[s] = "share" /\ Drained(s, Handler)
    /\ Release(s)
    /\ Loop(s)
    /\ UNCHANGED <<connected, events, authorized, closed, lost, difficulty,
                   pushVars, told, current, scheduled, stopVars>>

\* _session_difficulty is assigned before the lock is asked for.
NotAssigned(s, d) == UNCHANGED difficulty
Assigned(s, d) == difficulty' = [difficulty EXCEPT ![s] = d]

Retarget(s, d) ==
    /\ handler[s] = "share" /\ Drained(s, Handler)
    /\ d # difficulty[s] /\ s \notin closed
    /\ Assigned(s, d)
    /\ ReleaseAndSend(s, Handler, Message("difficulty", d))
    /\ handler' = [handler EXCEPT ![s] = "answer"]
    /\ UNCHANGED <<connected, events, authorized, closed, lost, pushVars, told,
                   current, scheduled, registered, stopVars>>

\* on_submit raises: the handler closes the session and waits for the rest of
\* the messages to leave.
CheckRaises(s) ==
    /\ handler[s] = "submit"
    /\ closed' = closed \cup {s}
    /\ handler' = [handler EXCEPT ![s] = IF s \in closed THEN "ended" ELSE "closing"]
    /\ registered' = IF s \in closed THEN Discarded(s) ELSE registered
    /\ UNCHANGED <<connected, events, authorized, lost, sendVars, told,
                   current, scheduled, stopVars>>

End(s) ==
    /\ closed' = closed \cup {s}
    /\ handler' = [handler EXCEPT ![s] = "ended"]
    /\ registered' = Discarded(s)
    /\ UNCHANGED <<connected, events, authorized, lost, difficulty, pushVars,
                   told, current, scheduled, stopVars>>

\* drain raises,
AnswerFails(s) == Raised(s, Handler) /\ Freed(s) /\ End(s)

\* or the connection ends while the handler waits for a request or for that.
HandlerEnds(s) ==
    /\ handler[s] \in {"reading", "closing"} /\ s \in lost
    /\ End(s)
    /\ UNCHANGED <<queue, wire>>

-----------------------------------------------------------------------------
(* The miner and its connection.                                           *)

Receive(s) ==
    /\ s \in Reader \ lost /\ wire[s] # <<>>
    /\ LET m == Head(wire[s])
       IN  told' = [told EXCEPT ![s] =
              IF m.kind = "ok" THEN [@ EXCEPT !.ok = TRUE]
              ELSE IF m.kind = "answer" THEN @
              ELSE [@ EXCEPT ![m.kind] = m.value]]
    /\ wire' = [wire EXCEPT ![s] = Tail(@)]
    /\ UNCHANGED <<connected, handler, events, authorized, closed, lost,
                   difficulty, pushVars, queue, current, scheduled, registered, stopVars>>

\* The miner hangs up, or a closed connection has nothing left to send.
ConnectionLost(s) ==
    /\ s \in connected \ lost
    /\ lost' = lost \cup {s}
    /\ wire' = [wire EXCEPT ![s] = <<>>]
    /\ told' = [told EXCEPT ![s] = Untold]
    /\ UNCHANGED <<connected, handler, authorized, closed, difficulty,
                   pushVars, queue, current, scheduled, registered, stopVars>>

HangUp(s) == Event /\ ConnectionLost(s)
Flushed(s) ==
    s \in closed /\ wire[s] = <<>> /\ ConnectionLost(s) /\ UNCHANGED events

-----------------------------------------------------------------------------
(* stop: the sessions known now are closed one after the other, and then   *)
(* the server waits for all the connections it accepted.                   *)

StopBegins ==
    /\ stopping = "no"
    /\ Event
    /\ stopping' = "closing" /\ toClose' = registered
    /\ UNCHANGED <<connected, handler, authorized, closed, lost,
                   sendVars, told, current, scheduled, registered, closing>>

\* close calls writer.close and waits for wait_closed, which returns when the
\* connection is lost; on a session that is closed already it does nothing.
LeftOpen(s) == closed
Closed(s) == closed \cup {s}

StopCloses(s) ==
    /\ stopping = "closing" /\ closing = Nobody /\ s \in toClose
    /\ toClose' = toClose \ {s}
    /\ closed' = Closed(s)
    /\ closing' = IF s \in closed THEN Nobody ELSE s
    /\ UNCHANGED <<connected, handler, events, authorized, lost, sendVars,
                   told, current, scheduled, registered, stopping>>

StopGoesOn ==
    /\ closing # Nobody /\ closing \in lost
    /\ closing' = Nobody
    /\ UNCHANGED <<connected, handler, events, authorized, closed, lost,
                   sendVars, told, current, scheduled, registered, stopping, toClose>>

StopListening ==
    /\ stopping = "closing" /\ toClose = {} /\ closing = Nobody
    /\ stopping' = "listening"
    /\ UNCHANGED <<connected, handler, events, authorized, closed, lost,
                   sendVars, told, current, scheduled, registered, toClose, closing>>

StopReturns ==
    /\ stopping = "listening" /\ connected \subseteq lost
    /\ stopping' = "done"
    /\ UNCHANGED <<connected, handler, events, authorized, closed, lost,
                   sendVars, told, current, scheduled, registered, toClose, closing>>

-----------------------------------------------------------------------------

PushRuns(s) ==
    \E p \in Push :
        PushDifficulty(s, p) \/ PushJob(s, p) \/ PushEnds(s, p) \/ PushFails(s, p)

HandlerRuns(s) ==
    \/ Authorized(s) \/ Answered(s) \/ Checked(s) \/ KeepDifficulty(s)
    \/ (\E d \in Difficulty : Retarget(s, d))
    \/ CheckRaises(s) \/ AnswerFails(s) \/ HandlerEnds(s)

BroadcastRuns == \E j \in Job : Broadcast(j) \/ Gathered(j)

StopRuns ==
    \/ (\E s \in Session : StopCloses(s))
    \/ StopGoesOn \/ StopListening \/ StopReturns

\* What the event loop runs.
LoopRuns ==
    \/ BroadcastRuns \/ StopRuns
    \/ \E s \in Session : HandlerRuns(s) \/ PushRuns(s) \/ Flushed(s)

Next ==
    \/ LoopRuns
    \/ NewJob \/ StopBegins
    \/ \E s \in Session :
          \/ Connect(s) \/ ReadAuthorize(s) \/ ReadSubmit(s) \/ ReadOther(s)
          \/ Receive(s) \/ HangUp(s)

Spec == Init /\ [][Next]_vars

\* The event loop does not stand still while a coroutine can go on, and the
\* miners in Reader read.
Fairness ==
    /\ WF_vars(LoopRuns)
    /\ \A s \in Reader : WF_vars(Receive(s))

FairSpec == Spec /\ Fairness

-----------------------------------------------------------------------------
(* Properties *)

Messages ==
    [kind : {"ok", "answer"}, value : {0}]
        \cup [kind : {"difficulty"}, value : Difficulty \cup {0}]
        \cup [kind : {"job"}, value : Job]

Entries == [task : Push \cup {Handler}, msg : Messages]

TypeOK ==
    /\ connected \subseteq Session /\ authorized \subseteq Session
    /\ closed \subseteq Session /\ lost \subseteq Session
    /\ registered \subseteq Session /\ toClose \subseteq Session
    /\ handler \in [Session -> {"none", "reading", "authorize", "submit", "share",
                                "answer", "closing", "ended"}]
    /\ events \in 0 .. MaxEvents
    /\ difficulty \in [Session -> Difficulty \cup {0}]
    /\ push \in [Session -> [Push -> {"none", "ready", "difficulty", "job", "failed"}]]
    /\ starting \in [Session -> Seq(Push)]
    /\ queue \in [Session -> Seq(Entries)]
    /\ wire \in [Session -> Seq(Messages)]
    /\ told \in [Session -> [ok : BOOLEAN, difficulty : Difficulty \cup {0},
                             job : 0 .. MaxJobs]]
    /\ current \in 0 .. MaxJobs /\ scheduled \subseteq Job
    /\ stopping \in {"no", "closing", "listening", "done"}
    /\ closing \in Session \cup {Nobody}

\* What was written to the miner, and then what waits for the lock.
Waiting(q) ==
    IF q = <<>> THEN <<>> ELSE [i \in 1 .. Len(q) - 1 |-> q[i + 1].msg]
Outgoing(s) == wire[s] \o Waiting(queue[s])

\* No difficulty and no job is on its way before the miner's authorization is
\* answered: a miner whose handshake is open drops what it does not expect.
AnswerBeforeWork ==
    \A s \in Session \ lost : \A i \in 1 .. Len(Outgoing(s)) :
        Outgoing(s)[i].kind \in {"difficulty", "job"} =>
            told[s].ok \/ \E k \in 1 .. i - 1 : Outgoing(s)[k] = Ok

\* The last difficulty the miner was or will be told is the one its shares are
\* checked with, in whatever order its coroutines got the lock.
Last(s) ==
    LET ds == {i \in 1 .. Len(Outgoing(s)) : Outgoing(s)[i].kind = "difficulty"}
    IN  IF ds = {} THEN told[s].difficulty
        ELSE Outgoing(s)[CHOOSE i \in ds : \A k \in ds : k <= i].value
ToldDifficulty ==
    \A s \in Session \ (closed \cup lost) : Last(s) = difficulty[s]

\* A miner that reads gets the newest job, whatever the other miners do.
Gone(s) == s \notin authorized \/ s \in closed \cup lost \/ stopping # "no"
ReadersGetNewest ==
    \A s \in Reader : <>[](Gone(s) \/ told[s].job = current)

\* No handler waits for ever for the lock of its session or to drain, but for
\* a miner that neither reads nor hangs up.
HandlersGoOn ==
    \A s \in Session :
        []<>(handler[s] \in {"none", "reading", "ended"}
                \/ s \notin Reader \cup lost)

\* stop returns, but for a miner that neither reads nor hangs up and for one
\* that connected while the sessions were being closed.
Stalls(s) == s \notin Reader
Late(s) == stopping = "listening" /\ s \notin closed
StopEnds ==
    stopping = "closing" ~>
        (stopping = "done" \/ \E s \in connected \ lost : Stalls(s) \/ Late(s))

=============================================================================
