-------------------------------- MODULE Shares --------------------------------
(***************************************************************************)
(* How a share is verified and recorded (_on_submit and _vardiff in        *)
(* stratum/server.py, _handle_submit in stratum/session.py,                *)
(* share_validator.py).  Actors:                                           *)
(*   - the sessions, coroutines of one event loop; each answers one        *)
(*     submission before it reads the next;                                *)
(*   - the threads of the default executor, which verify shares and submit *)
(*     blocks; those that verify take turns at the lock of the validator;  *)
(*   - the solver, a process that reads requests from one pipe and writes  *)
(*     its replies to another, and may exit.                               *)
(* A submission for a job that is not in the table is answered at once and *)
(* changes nothing; JobFlow says which jobs the table holds.  A share is   *)
(* a job, and a nonce and time the miner chose; shares of different jobs   *)
(* may have both in common.                                                *)
(***************************************************************************)
EXTENDS Integers, Sequences, FiniteSets

CONSTANTS
    Session, Worker,
    WorkerOf,       \* the canonical name a session authorizes
    Share, Job,
    JobOf,          \* of a share
    Attempt,        \* its nonce and time
    Digest,         \* of the header of its job with its nonce and time
    ShareTarget, BlockTarget, \* of a job: share_target, block_target
    Threads,        \* of the executor
    PoolDifficulty, \* default_difficulty, in millionths as all difficulties
    Fresh,          \* the difficulty of a session object, 0.01
    VardiffMin, VardiffMax,
    Target,         \* vardiff_target_seconds, in tenths of a second
    Elapsed,        \* times between two shares of a worker, in tenths
    NoOne,          \* holds the lock when nobody does
    MaxSubmits,     \* bound on the submissions of a behaviour
    MaxFaults       \* bound on timeouts, exits and failed starts

ASSUME SharesAssumption ==
    /\ WorkerOf \in [Session -> Worker]
    /\ Share # {} /\ JobOf \in [Share -> Job] /\ Digest \in [Share -> Nat]
    /\ ShareTarget \in [Job -> Nat] /\ BlockTarget \in [Job -> Nat]
    /\ Threads \in Nat \ {0} /\ NoOne \notin Session
    /\ Target \in Nat \ {0} /\ Elapsed \subseteq Nat
    /\ VardiffMin \in Nat /\ VardiffMax \in Nat
    /\ PoolDifficulty \in VardiffMin .. VardiffMax
    /\ Fresh \in VardiffMin .. VardiffMax
    /\ MaxSubmits \in Nat /\ MaxFaults \in Nat

\* A share is what its job, nonce and time make it.
ASSUME AttemptAssumption ==
    /\ DOMAIN Attempt = Share
    /\ \A x, y \in Share : JobOf[x] = JobOf[y] /\ Attempt[x] = Attempt[y] => x = y

VARIABLES
    \* the sessions
    authorized, pushing, \* sessions; those whose _push_work has not started
    difficulty,     \* _session_difficulty
    seen,           \* workers with a _last_share_time
    pc, share, offered, \* step of a submission; its share and difficulty
    verdict,        \* what verify returned or raised
    \* the executor and the validator
    tasks,          \* submissions whose next call no thread has taken yet
    holder,         \* who holds the lock
    daemon,         \* the process: "none", "up", or "down" after it exited
    requests, replies, \* the pipes
    late, asked,    \* how many calls gave up on it and which shares it was asked
                    \* about; read by properties only
    \* what lasts
    rows,           \* the table of shares, as a set; late, which is no column,
                    \* is read by properties only
    submitted,      \* shares handed to submitblock
    submits, faults

linkVars == <<authorized, pushing, difficulty, seen>>
callVars == <<share, offered>>
pipeVars == <<holder, daemon, requests, replies, late, asked>>
lastVars == <<rows, submitted>>
vars == <<linkVars, pc, callVars, verdict, tasks, pipeVars, lastVars, submits, faults>>

NoVerdict == [says |-> "none", late |-> 0]
Failed == [says |-> "error", late |-> 0]

Init ==
    /\ authorized = {} /\ pushing = {}
    /\ difficulty = [s \in Session |-> Fresh] /\ seen = {}
    /\ pc = [s \in Session |-> "idle"]
    /\ share = [s \in Session |-> CHOOSE x \in Share : TRUE]
    /\ offered = [s \in Session |-> Fresh]
    /\ verdict = [s \in Session |-> NoVerdict]
    /\ tasks = <<>>
    /\ holder = NoOne /\ daemon = "none" /\ requests = <<>> /\ replies = <<>>
    /\ late = 0 /\ asked = {}
    /\ rows = {} /\ submitted = {}
    /\ submits = 0 /\ faults = 0

Fault == faults < MaxFaults /\ faults' = faults + 1
Goto(s, next) == pc' = [pc EXCEPT ![s] = next]

-----------------------------------------------------------------------------
(* The sessions *)

Authorize(s) ==
    /\ pc[s] = "idle" /\ s \notin pushing
    /\ authorized' = authorized \cup {s}
    /\ pushing' = pushing \cup {s}
    /\ UNCHANGED <<difficulty, seen, pc, callVars, verdict, tasks, pipeVars,
                   lastVars, submits, faults>>

PushWork(s) ==
    /\ s \in pushing
    /\ pushing' = pushing \ {s}
    /\ difficulty' = [difficulty EXCEPT ![s] = PoolDifficulty]
    /\ UNCHANGED <<authorized, seen, pc, callVars, verdict, tasks, pipeVars,
                   lastVars, submits, faults>>

\* A connection that ends during a submission ends after it; the next one has
\* a session object of its own.
Disconnect(s) ==
    /\ s \in authorized /\ pc[s] = "idle"
    /\ authorized' = authorized \ {s}
    /\ pushing' = pushing \ {s}
    /\ difficulty' = [difficulty EXCEPT ![s] = Fresh]
    /\ UNCHANGED <<seen, pc, callVars, verdict, tasks, pipeVars, lastVars,
                   submits, faults>>

\* A miner may submit what another miner submitted, or the same share again.
Submit(s, x) ==
    /\ s \in authorized /\ pc[s] = "idle"
    /\ submits < MaxSubmits /\ submits' = submits + 1
    /\ share' = [share EXCEPT ![s] = x]
    /\ offered' = [offered EXCEPT ![s] = difficulty[s]]
    /\ tasks' = Append(tasks, s)
    /\ Goto(s, "queued")
    /\ UNCHANGED <<linkVars, verdict, pipeVars, lastVars, faults>>

-----------------------------------------------------------------------------
(* The executor *)

Busy == {s \in Session : pc[s] \in {"waiting", "reading", "submitting"}}

Take(s) ==
    /\ tasks # <<>> /\ s = Head(tasks)
    /\ Cardinality(Busy) < Threads
    /\ tasks' = Tail(tasks)
    /\ \/ pc[s] = "queued" /\ Goto(s, "waiting")
       \/ pc[s] = "won" /\ Goto(s, "submitting")
    /\ UNCHANGED <<linkVars, callVars, verdict, pipeVars, lastVars, submits, faults>>

\* _solve, with a daemon that runs: the request is written under the lock.
Write(s) ==
    /\ pc[s] = "waiting" /\ holder = NoOne /\ daemon = "up"
    /\ holder' = s
    /\ requests' = Append(requests, share[s]) /\ asked' = asked \cup {share[s]}
    /\ Goto(s, "reading")
    /\ UNCHANGED <<linkVars, callVars, verdict, tasks, daemon, replies, late,
                   lastVars, submits, faults>>

\* A new process has pipes of its own.
OldPipe == replies
NewPipe == <<>>

\* _ensure_daemon replaces a daemon that is not running.
Restart(s) ==
    /\ pc[s] = "waiting" /\ holder = NoOne /\ daemon # "up"
    /\ holder' = s /\ daemon' = "up"
    /\ requests' = <<share[s]>> /\ replies' = NewPipe
    /\ late' = 0 /\ asked' = {share[s]}
    /\ Goto(s, "reading")
    /\ UNCHANGED <<linkVars, callVars, verdict, tasks, lastVars, submits, faults>>

Fail(s) ==
    /\ verdict' = [verdict EXCEPT ![s] = Failed]
    /\ Goto(s, "judged")

StartFails(s) ==
    /\ pc[s] = "waiting" /\ holder = NoOne /\ daemon # "up" /\ Fault
    /\ daemon' = "none"
    /\ Fail(s)
    /\ UNCHANGED <<linkVars, callVars, tasks, holder, requests, replies, late, asked,
                   lastVars, submits>>

\* The lock is released when _solve returns, and when it raises.
Held(s) == s
Released(s) == NoOne

\* The solver: a digest is reported when it reaches the share target of the
\* request, and is a block when it reaches the target in its bits.
Found(y) == Digest[y] <= ShareTarget[JobOf[y]]
IsBlock(y) == Digest[y] <= BlockTarget[JobOf[y]]

\* verify: what the result of y is taken for when x was asked.  The nonce and
\* the time are compared, and the digest with the targets of x; the job is not
\* in the reply.
Sized(y, x) ==
    IF ~Found(y) \/ Digest[y] > ShareTarget[JobOf[x]] THEN "miss"
    ELSE IF IsBlock(y) \/ Digest[y] <= BlockTarget[JobOf[x]] THEN "block" ELSE "share"
ResultFor(y, x) == IF Attempt[y] = Attempt[x] THEN Sized(y, x) ELSE "miss"

\* The first line that is a result is taken for the reply.
Read(s) ==
    /\ pc[s] = "reading" /\ replies # <<>>
    /\ verdict' = [verdict EXCEPT ![s] =
                     [says |-> ResultFor(Head(replies), share[s]), late |-> late]]
    /\ replies' = Tail(replies)
    /\ holder' = NoOne
    /\ Goto(s, "judged")
    /\ UNCHANGED <<linkVars, callVars, tasks, daemon, requests, late, asked, lastVars,
                   submits, faults>>

\* The deadline is tested after each line the solver writes: a log line after
\* it ends the wait.  The daemon and the request stay.
TimeOut(s) ==
    /\ pc[s] = "reading" /\ daemon = "up" /\ Fault
    /\ late' = late + 1
    /\ holder' = Released(s)
    /\ Fail(s)
    /\ UNCHANGED <<linkVars, callVars, tasks, daemon, requests, replies, asked,
                   lastVars, submits>>

ReadEnd(s) ==
    /\ pc[s] = "reading" /\ daemon = "down" /\ replies = <<>>
    /\ daemon' = "none"
    /\ holder' = Released(s)
    /\ Fail(s)
    /\ UNCHANGED <<linkVars, callVars, tasks, requests, replies, late, asked, lastVars,
                   submits, faults>>

SubmitBlock(s) ==
    /\ pc[s] = "submitting"
    /\ submitted' = submitted \cup {share[s]}
    /\ Goto(s, "accepted")
    /\ UNCHANGED <<linkVars, callVars, verdict, tasks, pipeVars, rows, submits, faults>>

-----------------------------------------------------------------------------
(* The solver (external) *)

Answer ==
    /\ daemon = "up" /\ requests # <<>>
    /\ requests' = Tail(requests)
    /\ replies' = Append(replies, Head(requests))
    /\ UNCHANGED <<linkVars, pc, callVars, verdict, tasks, holder, daemon, late,
                   asked, lastVars, submits, faults>>

\* What it has written can still be read.
Exit ==
    /\ daemon = "up" /\ Fault
    /\ daemon' = "down" /\ requests' = <<>>
    /\ UNCHANGED <<linkVars, pc, callVars, verdict, tasks, holder, replies, late,
                   asked, lastVars, submits>>

-----------------------------------------------------------------------------
(* The answer *)

Reject(s) ==
    /\ pc[s] = "judged" /\ verdict[s].says \in {"error", "miss"}
    /\ verdict' = [verdict EXCEPT ![s] = NoVerdict]
    /\ Goto(s, "idle")
    /\ UNCHANGED <<linkVars, callVars, tasks, pipeVars, lastVars, submits, faults>>

Row(s) == [worker |-> WorkerOf[s], share |-> share[s], work |-> offered[s],
           block |-> verdict[s].says = "block", late |-> verdict[s].late > 0]

\* The coroutine goes on behind _push_work, which was queued before it.
RecordShare(s) ==
    /\ pc[s] = "judged" /\ verdict[s].says \in {"share", "block"} /\ s \notin pushing
    /\ rows' = rows \cup {Row(s)}
    /\ verdict' = [verdict EXCEPT ![s] = NoVerdict]
    /\ IF verdict[s].says = "block"
         THEN Goto(s, "won") /\ tasks' = Append(tasks, s)
         ELSE Goto(s, "accepted") /\ UNCHANGED tasks
    /\ UNCHANGED <<linkVars, callVars, pipeVars, submitted, submits, faults>>

\* record_share raises: nothing catches it before the handler of the session,
\* which closes the connection; a block is not submitted.  The row is lost, or
\* left to the next commit.
RecordRaises(s) ==
    /\ pc[s] = "judged" /\ s \notin pushing /\ Fault
    /\ \/ rows' = rows
       \/ verdict[s].says \in {"share", "block"} /\ rows' = rows \cup {Row(s)}
    /\ verdict' = [verdict EXCEPT ![s] = NoVerdict]
    /\ authorized' = authorized \ {s}
    /\ difficulty' = [difficulty EXCEPT ![s] = Fresh]
    /\ Goto(s, "idle")
    /\ UNCHANGED <<pushing, seen, callVars, tasks, pipeVars, submitted, submits>>

\* round(num / den, 6) on millionths: either neighbour of a tie.
Rounded(num, den) ==
    {n \in {num \div den, num \div den + 1} :
        2 * n * den - 2 * num <= den /\ 2 * num - 2 * n * den <= den}

Uncapped(n) == n
Capped(n) == IF n > VardiffMax THEN VardiffMax ELSE n
Floored(n) == IF n < VardiffMin THEN VardiffMin ELSE n

IsSlow(elapsed) == 2 * elapsed > 3 * Target
IsFast(elapsed) == 2 * elapsed < Target

\* A worker that takes too long gets a higher difficulty, one that is too fast
\* a lower one.
Vardiff(current, elapsed) ==
    IF IsSlow(elapsed)
      THEN {Capped(n) : n \in Rounded(current * elapsed * 8, Target * 10)}
      ELSE IF IsFast(elapsed) THEN {Floored(n) : n \in Rounded(current * 7, 10)}
      ELSE {current}

\* Without a last share, elapsed is the least there is, a tenth of a second.
SinceLast(s) == IF WorkerOf[s] \in seen THEN Elapsed ELSE {1}

Accept(s) ==
    /\ pc[s] = "accepted"
    /\ \E elapsed \in SinceLast(s) : \E new \in Vardiff(difficulty[s], elapsed) :
         difficulty' = [difficulty EXCEPT ![s] = new]
    /\ seen' = seen \cup {WorkerOf[s]}
    /\ Goto(s, "idle")
    /\ UNCHANGED <<authorized, pushing, callVars, verdict, tasks, pipeVars,
                   lastVars, submits, faults>>

Next ==
    \/ \E s \in Session :
         \/ Authorize(s) \/ PushWork(s) \/ Disconnect(s)
         \/ \E x \in Share : Submit(s, x)
         \/ Take(s) \/ Write(s) \/ Restart(s) \/ StartFails(s)
         \/ Read(s) \/ TimeOut(s) \/ ReadEnd(s) \/ SubmitBlock(s)
         \/ Reject(s) \/ RecordShare(s) \/ RecordRaises(s) \/ Accept(s)
    \/ Answer \/ Exit

Spec == Init /\ [][Next]_vars

\* The event loop and the threads are scheduled; the solver answers, or exits.
\* At most one thread per session waits for the lock, and only new submissions
\* could overtake it.
Fairness ==
    /\ WF_vars(Answer)
    /\ \A s \in Session :
         /\ WF_vars(PushWork(s)) /\ WF_vars(Take(s))
         /\ WF_vars(Write(s)) /\ WF_vars(Restart(s))
         /\ WF_vars(Read(s)) /\ WF_vars(ReadEnd(s)) /\ WF_vars(SubmitBlock(s))
         /\ WF_vars(Reject(s)) /\ WF_vars(RecordShare(s)) /\ WF_vars(Accept(s))

FairSpec == Spec /\ Fairness

-----------------------------------------------------------------------------
(* Properties *)

Verdicts == [says : {"none", "error", "miss", "share", "block"}, late : Nat]
Rows == [worker : Worker, share : Share, work : Nat, block : BOOLEAN, late : BOOLEAN]
Steps == {"idle", "queued", "waiting", "reading", "judged", "won", "submitting",
          "accepted"}
\* Difficulties are within the bounds of the configuration however often they
\* are raised and lowered (each branch of _vardiff caps one side only).
DifficultyInBounds ==
    /\ \A s \in Session : difficulty[s] \in VardiffMin .. VardiffMax
    /\ \A row \in rows : row.work \in VardiffMin .. VardiffMax

TypeOK ==
    /\ authorized \subseteq Session /\ pushing \subseteq Session
    /\ difficulty \in [Session -> Nat] /\ offered \in [Session -> Nat]
    /\ seen \subseteq Worker
    /\ pc \in [Session -> Steps] /\ share \in [Session -> Share]
    /\ verdict \in [Session -> Verdicts]
    /\ tasks \in Seq(Session)
    /\ holder \in Session \cup {NoOne} /\ daemon \in {"none", "up", "down"}
    /\ requests \in Seq(Share) /\ replies \in Seq(Share)
    /\ late \in Nat /\ asked \subseteq Share
    /\ rows \subseteq Rows
    /\ submitted \subseteq Share
    /\ submits \in Nat /\ faults \in Nat

\* What the digest of a share is worth against the targets of its own job.
Quality(x) == IF ~Found(x) THEN "miss" ELSE IF IsBlock(x) THEN "block" ELSE "share"

\* Shares of other jobs with the same nonce and time.
Twins(x) == {y \in Share \ {x} : Attempt[y] = Attempt[x]}

\* A share is recorded, and a block submitted, for more or less than its digest
\* is worth only after a call gave up on the solver, and then only for what a
\* twin is worth (share_validator.py compares nonce and time of a late reply);
\* and no block is submitted that is not recorded as one.
FalseOnlyByTwin ==
    /\ \A r \in rows :
         LET says == IF r.block THEN "block" ELSE "share"
         IN  says # Quality(r.share) =>
               r.late /\ \E y \in Twins(r.share) : says = ResultFor(y, r.share)
    /\ \A x \in submitted : \E r \in rows : r.share = x /\ r.block

\* A good share is taken for a miss, or a bad one for good, only after a call on
\* the same daemon gave up: exits, restarts and threads that take turns never
\* shift the replies.
TrueInStep ==
    \A s \in Session :
        verdict[s].says \in {"miss", "share", "block"} /\ verdict[s].late = 0
            => verdict[s].says = Quality(share[s])

\* The lock, the pipes, the threads and the solver together are the verifier
\* that Verifier describes: only a call that gave up shifts the results, and only
\* to those of shares the same solver was asked about.
Stage(step) ==
    CASE step \in {"queued", "waiting"} -> "waiting"
      [] step = "reading" -> "asked"
      [] step \in {"won", "submitting"} -> "won"
      [] step = "judged" -> "judged"
      [] step \in {"idle", "accepted"} -> "idle"

Paid(row) == [worker |-> row.worker, share |-> row.share, block |-> row.block]

Abstract == INSTANCE Verifier WITH
    Says     <- [y \in Share |-> [x \in Share |-> ResultFor(y, x)]],
    stage    <- [s \in Session |-> Stage(pc[s])],
    verdict  <- [s \in Session |-> verdict[s].says],
    behind   <- late > 0,
    recorded <- {Paid(row) : row \in rows}

ImplementsVerifier == Abstract!Spec

\* Every submission is answered, whatever else waits for the lock or a thread,
\* and whichever daemon dies or fails to start.
EveryShareAnswered == \A s \in Session : (pc[s] # "idle") ~> (pc[s] = "idle")

-----------------------------------------------------------------------------
(* What the repository says of the code, and the code does not keep.        *)

\* share_validator.py:1, "Verify submitted Stratum shares by recomputing MatMul
\* digest": a share is refused as a miss only when its digest is one.
MissIsTrue ==
    \A s \in Session : verdict[s].says = "miss" => Quality(share[s]) = "miss"

\* README.md:114, "share_work / window_work": the work a share is recorded with
\* is that of the target it was verified against, the pool's.
WorkIsVerified == \A row \in rows : row.work = PoolDifficulty

=============================================================================
