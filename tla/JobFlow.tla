------------------------------- MODULE JobFlow -------------------------------
(***************************************************************************)
(* How a template of btxd becomes a job and reaches the miners             *)
(* (job_manager.py; poll_jobs in __main__.py; broadcast_job and _push_work *)
(* in stratum/).  Actors:                                                  *)
(*   - the refreshers: the poller thread, the long-poll thread and the     *)
(*     coroutine of a found block, each making three calls to btxd before  *)
(*     it takes the lock of the job manager;                               *)
(*   - the job-broadcast thread, which polls a flag and schedules a        *)
(*     broadcast on the event loop;                                        *)
(*   - the event loop, which pushes jobs to the sessions;                  *)
(*   - btxd, whose tip and template change between any two calls.          *)
(***************************************************************************)
EXTENDS Integers, FiniteSets, Sequences, SequencesExt

CONSTANTS
    Session,    \* connections of miners
    Refresher,  \* those of "poller", "longpoll" and "block" that run
    Limit,      \* how many jobs a new block leaves in the table: 64
    MaxTip,     \* bound on the blocks of a behaviour
    MaxVar,     \* bound on the changes of the template of one tip
    MaxJobs,    \* bound on the jobs of a behaviour
    MaxQueue,   \* bound on broadcasts that wait for the event loop, and on
                \* notifications that wait for one session
    MaxFaults   \* bound on failing calls, syncing phases and closed sessions

ASSUME JobFlowAssumption ==
    /\ Refresher \subseteq {"poller", "longpoll", "block"}
    /\ Limit \in Nat \ {0} /\ MaxTip \in Nat /\ MaxVar \in Nat
    /\ MaxJobs \in Nat /\ MaxQueue \in Nat /\ MaxFaults \in Nat

NoJob == 0
NoTemplate == [tip |-> 0, var |-> 0]
Template == [tip : 0 .. MaxTip, var : 0 .. MaxVar]

VARIABLES
    \* btxd
    node,       \* the template it would return now
    ibd,        \* it is in its initial download
    \* the refreshers
    pc, gbt, challenge, \* next call; what the calls returned
    since,      \* how many jobs were published when the last call returned
    \* the job manager
    synced, scripts, \* _synced; the addresses are resolved and cached
    job,        \* every job made; its index is the job id
    jobs,       \* ids in the table
    current, needsBroadcast, broadcastJob,
    \* the job-broadcast thread
    step, held,
    \* the event loop and the sessions
    scheduled,  \* broadcasts that have not started
    authorized, pushing, \* sessions; those whose _push_work has not read the job
    inbox,      \* notifications a broadcast still has to write
    told,       \* the last job written to a session
    faults

nodeVars == <<node, ibd>>
refreshVars == <<pc, gbt, challenge, since>>
jobVars == <<scripts, job, jobs, current, needsBroadcast, broadcastJob>>
threadVars == <<step, held>>
sessionVars == <<authorized, pushing, inbox, told>>
vars == <<nodeVars, refreshVars, synced, jobVars, threadVars, scheduled,
          sessionVars, faults>>

Fault == faults < MaxFaults /\ faults' = faults + 1

\* Every second change of a template adds transactions, the others only move
\* its time: the header tells all variants apart, the merkle root half of them.
Merkle(g) == <<g.tip, (g.var + 1) \div 2>>
\* A job is built before the lock is taken; created_at is known by how many
\* jobs had been published then.
JobOf(g, c, clean, born) ==
    [gbt |-> g, header |-> c, merkle |-> Merkle(g), clean |-> clean, born |-> born]

\* start() has run: its refresh found btxd syncing or failing, or made a job.
Init ==
    /\ node = NoTemplate /\ ibd \in BOOLEAN
    /\ pc = [r \in Refresher |-> "idle"]
    /\ gbt = [r \in Refresher |-> NoTemplate]
    /\ challenge = [r \in Refresher |-> NoTemplate]
    /\ since = [r \in Refresher |-> 0]
    /\ \/ /\ ~ibd /\ synced = TRUE /\ scripts = TRUE
          /\ job = <<JobOf(node, node, TRUE, 0)>> /\ jobs = {1} /\ current = 1
          /\ needsBroadcast = TRUE /\ broadcastJob = 1
       \/ /\ synced = FALSE /\ scripts = FALSE
          /\ job = <<>> /\ jobs = {} /\ current = NoJob
          /\ needsBroadcast = FALSE /\ broadcastJob = NoJob
    /\ step = "poll" /\ held = NoJob
    /\ scheduled = <<>>
    /\ authorized = {} /\ pushing = {}
    /\ inbox = [s \in Session |-> <<>>] /\ told = [s \in Session |-> NoJob]
    /\ faults = 0

-----------------------------------------------------------------------------
(* btxd (external) *)

NewTip ==
    /\ node.tip < MaxTip
    /\ node' = [tip |-> node.tip + 1, var |-> 0]
    /\ UNCHANGED <<ibd, refreshVars, synced, jobVars, threadVars, scheduled,
                   sessionVars, faults>>

NewVariant ==
    /\ node.var < MaxVar
    /\ node' = [node EXCEPT !.var = @ + 1]
    /\ UNCHANGED <<ibd, refreshVars, synced, jobVars, threadVars, scheduled,
                   sessionVars, faults>>

FallBehind ==
    /\ ~ibd /\ Fault /\ ibd' = TRUE
    /\ UNCHANGED <<node, refreshVars, synced, jobVars, threadVars, scheduled,
                   sessionVars>>

CatchUp ==
    /\ ibd /\ ibd' = FALSE
    /\ UNCHANGED <<node, refreshVars, synced, jobVars, threadVars, scheduled,
                   sessionVars, faults>>

-----------------------------------------------------------------------------
(* refresh *)

Goto(r, next) == pc' = [pc EXCEPT ![r] = next]

\* refresh returns or raises; its local variables are gone.
Leave(r, next) ==
    /\ Goto(r, next)
    /\ gbt' = [gbt EXCEPT ![r] = NoTemplate]
    /\ challenge' = [challenge EXCEPT ![r] = NoTemplate]
    /\ since' = [since EXCEPT ![r] = 0]

\* The long-poll thread waits while its last look found btxd syncing; the
\* block path starts with BlockFound.
MayStart(r) ==
    \/ r = "poller" /\ pc[r] = "idle"
    \/ r = "longpoll" /\ pc[r] = "idle" /\ synced
    \/ r = "block" /\ pc[r] = "found"

CheckSync(r) ==
    /\ MayStart(r)
    /\ synced' = ~ibd
    /\ Goto(r, IF ibd THEN "idle" ELSE "template")
    /\ UNCHANGED <<nodeVars, gbt, challenge, since, jobVars, threadVars, scheduled,
                   sessionVars, faults>>

CheckFails(r) ==
    /\ MayStart(r) /\ Fault
    /\ synced' = FALSE
    /\ Goto(r, "idle")
    /\ UNCHANGED <<nodeVars, gbt, challenge, since, jobVars, threadVars, scheduled,
                   sessionVars>>

GetTemplate(r) ==
    /\ pc[r] = "template"
    /\ gbt' = [gbt EXCEPT ![r] = node]
    /\ Goto(r, "challenge")
    /\ UNCHANGED <<nodeVars, challenge, since, synced, jobVars, threadVars, scheduled,
                   sessionVars, faults>>

GetChallenge(r) ==
    /\ pc[r] = "challenge"
    /\ challenge' = [challenge EXCEPT ![r] = node]
    /\ since' = [since EXCEPT ![r] = Len(job)]
    /\ Goto(r, "make")
    /\ UNCHANGED <<nodeVars, gbt, synced, jobVars, threadVars, scheduled,
                   sessionVars, faults>>

FetchFails(r) ==
    /\ pc[r] \in {"template", "challenge"} /\ Fault
    /\ Leave(r, "idle")
    /\ UNCHANGED <<nodeVars, synced, jobVars, threadVars, scheduled,
                   sessionVars>>

\* Until the addresses are cached, resolving them asks btxd.  An error other
\* than RpcError leaves refresh; only the long-poll thread catches it.
ResolveFails(r) ==
    /\ pc[r] = "make" /\ ~scripts /\ Fault
    /\ Leave(r, IF r = "longpoll" THEN "idle" ELSE "dead")
    /\ UNCHANGED <<nodeVars, synced, jobVars, threadVars,
                   scheduled, sessionVars>>

BlockKey(j) == <<j.header.tip, j.gbt.tip>>
Unchecked(j, k) == TRUE
SameHeader(j, k) == j.header = k.header /\ j.merkle = k.merkle

\* The job stays and only its template is replaced.
KeepJob(new) ==
    /\ job' = [job EXCEPT ![current].gbt = new.gbt]
    /\ UNCHANGED <<jobs, current, needsBroadcast, broadcastJob>>

\* A job enters the table and asks for a broadcast.
Publish(new, tables) ==
    /\ Len(job) < MaxJobs
    /\ job' = Append(job, new)
    /\ \E kept \in tables : jobs' = kept \cup {Len(job) + 1}
    /\ current' = Len(job) + 1
    /\ needsBroadcast' = TRUE /\ broadcastJob' = Len(job) + 1

\* What the last Limit jobs in the order of created_at can be: jobs built
\* between the same two publications may have been built in either order.
IsOldest(K, J) == \A k \in K, gone \in J \ K : job[gone].born >= job[k].born
IsNewest(K, J) == \A k \in K, gone \in J \ K : job[gone].born <= job[k].born
Pruned(J) ==
    IF Cardinality(J) > Limit
    THEN {K \in SUBSET J : Cardinality(K) = Limit /\ IsNewest(K, J)} ELSE {J}
Unpruned(J) == {J}

\* Whether miners are to drop their work at once.
AsAsked(clean) == clean
Always(clean) == TRUE

\* The refresh of the block path asks for a clean job, the others do not.
Make(r, born) ==
    LET c == r = "block"
        new == JobOf(gbt[r], challenge[r], c, born)
        block == [new EXCEPT !.clean = Always(c)]
        header == [new EXCEPT !.clean =
            job[current].merkle # new.merkle \/ job[current].header # new.header]
    IN  IF current # NoJob /\ BlockKey(job[current]) = BlockKey(new)
        THEN IF SameHeader(job[current], new)
             THEN KeepJob(new)
             ELSE Publish(header, Unpruned(jobs))
        ELSE Publish(block, Pruned(jobs))

Apply(r) ==
    /\ pc[r] = "make"
    /\ \E born \in since[r] .. Len(job) : Make(r, born)
    /\ scripts' = TRUE
    /\ Leave(r, "idle")
    /\ UNCHANGED <<nodeVars, synced, threadVars, scheduled,
                   sessionVars, faults>>

Refresh(r) == CheckSync(r) \/ GetTemplate(r) \/ GetChallenge(r) \/ Apply(r)
RefreshFails(r) == CheckFails(r) \/ FetchFails(r) \/ ResolveFails(r)

\* A session solves the block of a job it was told; btxd takes it, and the
\* coroutine goes on to refresh.
BlockFound(s) ==
    /\ "block" \in Refresher /\ pc["block"] = "idle"
    /\ s \in authorized /\ told[s] \in jobs
    /\ BlockKey(job[told[s]]) = <<node.tip, node.tip>>
    /\ node.tip < MaxTip
    /\ node' = [tip |-> node.tip + 1, var |-> 0]
    /\ Goto("block", "found")
    /\ UNCHANGED <<ibd, gbt, challenge, since, synced, jobVars, threadVars,
                   scheduled, sessionVars, faults>>

-----------------------------------------------------------------------------
(* poll_jobs *)

ConsumeFlag ==
    /\ step = "poll" /\ needsBroadcast
    /\ needsBroadcast' = FALSE
    /\ step' = "take"
    /\ UNCHANGED <<nodeVars, refreshVars, synced, scripts, job, jobs, current,
                   broadcastJob, held, scheduled, sessionVars, faults>>

TakeJob ==
    /\ step = "take"
    /\ held' = broadcastJob /\ broadcastJob' = NoJob
    /\ step' = IF broadcastJob = NoJob THEN "fallback" ELSE "schedule"
    /\ UNCHANGED <<nodeVars, refreshVars, synced, scripts, job, jobs, current,
                   needsBroadcast, scheduled, sessionVars, faults>>

\* take_broadcast_job() or current_job
FallBack ==
    /\ step = "fallback"
    /\ held' = current
    /\ step' = "schedule"
    /\ UNCHANGED <<nodeVars, refreshVars, synced, jobVars, scheduled,
                   sessionVars, faults>>

\* The flag was lowered before the job was taken, and is not touched again.
Lowered(flag) == FALSE
Kept(flag) == flag

Schedule ==
    /\ step = "schedule" /\ Len(scheduled) < MaxQueue
    /\ scheduled' = IF held = NoJob THEN scheduled ELSE Append(scheduled, held)
    /\ held' = NoJob
    /\ step' = "poll"
    /\ needsBroadcast' = Kept(needsBroadcast)
    /\ UNCHANGED <<nodeVars, refreshVars, synced, scripts, job, jobs, current,
                   broadcastJob, sessionVars, faults>>

ThreadStep == ConsumeFlag \/ TakeJob \/ FallBack \/ Schedule

-----------------------------------------------------------------------------
(* The event loop *)

Authorize(s) ==
    /\ s \notin authorized
    /\ authorized' = authorized \cup {s}
    /\ pushing' = pushing \cup {s}
    /\ UNCHANGED <<nodeVars, refreshVars, synced, jobVars, threadVars,
                   scheduled, inbox, told, faults>>

\* _push_work: the job is read and queued for writing in one go.
PushWork(s) ==
    /\ s \in pushing
    /\ pushing' = pushing \ {s}
    /\ told' = [told EXCEPT ![s] = IF current = NoJob THEN @ ELSE current]
    /\ UNCHANGED <<nodeVars, refreshVars, synced, jobVars, threadVars,
                   scheduled, authorized, inbox, faults>>

\* broadcast_job: one task for each session that is authorized now.
Broadcast ==
    /\ scheduled # <<>> /\ \A s \in authorized : Len(inbox[s]) < MaxQueue
    /\ scheduled' = Tail(scheduled)
    /\ inbox' = [s \in Session |-> IF s \in authorized
                    THEN Append(inbox[s], Head(scheduled)) ELSE inbox[s]]
    /\ UNCHANGED <<nodeVars, refreshVars, synced, jobVars, threadVars,
                   authorized, pushing, told, faults>>

\* _push_job: the send lock of a session is fair, so the notifications of two
\* broadcasts are written in their order.
Deliver(s) ==
    /\ inbox[s] # <<>>
    /\ told' = [told EXCEPT ![s] = Head(inbox[s])]
    /\ inbox' = [inbox EXCEPT ![s] = Tail(@)]
    /\ UNCHANGED <<nodeVars, refreshVars, synced, jobVars, threadVars,
                   scheduled, authorized, pushing, faults>>

Disconnect(s) ==
    /\ s \in authorized /\ Fault
    /\ authorized' = authorized \ {s}
    /\ pushing' = pushing \ {s}
    /\ inbox' = [inbox EXCEPT ![s] = <<>>]
    /\ told' = [told EXCEPT ![s] = NoJob]
    /\ UNCHANGED <<nodeVars, refreshVars, synced, jobVars, threadVars, scheduled>>

Next ==
    \/ NewTip \/ NewVariant \/ FallBehind \/ CatchUp
    \/ \E r \in Refresher : Refresh(r) \/ RefreshFails(r)
    \/ ThreadStep
    \/ Broadcast
    \/ \E s \in Session : \/ BlockFound(s) \/ Authorize(s) \/ PushWork(s)
                          \/ Deliver(s) \/ Disconnect(s)

Spec == Init /\ [][Next]_vars

\* btxd catches up; the threads and the event loop run; calls fail at most
\* MaxFaults times.
Fairness ==
    /\ WF_vars(CatchUp)
    /\ \A r \in Refresher : WF_vars(Refresh(r))
    /\ WF_vars(ThreadStep)
    /\ WF_vars(Broadcast)
    /\ \A s \in Session : WF_vars(PushWork(s)) /\ WF_vars(Deliver(s))

FairSpec == Spec /\ Fairness

-----------------------------------------------------------------------------
(* Properties *)

Ids == NoJob .. Len(job)
JobType == [gbt : Template, header : Template, merkle : Nat \X Nat, clean : BOOLEAN,
            born : Nat]

TypeOK ==
    /\ node \in Template /\ ibd \in BOOLEAN
    /\ pc \in [Refresher -> {"idle", "found", "template", "challenge", "make", "dead"}]
    /\ gbt \in [Refresher -> Template] /\ challenge \in [Refresher -> Template]
    /\ since \in [Refresher -> Nat]
    /\ synced \in BOOLEAN /\ scripts \in BOOLEAN
    /\ job \in Seq(JobType)
    /\ jobs \subseteq Ids \ {NoJob} /\ current \in Ids
    /\ needsBroadcast \in BOOLEAN /\ broadcastJob \in Ids
    /\ step \in {"poll", "take", "fallback", "schedule"} /\ held \in Ids
    /\ scheduled \in Seq(Ids)
    /\ authorized \subseteq Session /\ pushing \subseteq authorized
    /\ inbox \in [Session -> Seq(Ids)] /\ told \in [Session -> Ids]
    /\ faults \in 0 .. MaxFaults

\* Once nothing is under way, every miner works on the current job, however
\* refreshes, the two locks of poll_jobs, broadcasts and new sessions
\* interleaved: a lowered flag never loses a job for good.
Quiet == ~needsBroadcast /\ step = "poll" /\ scheduled = <<>>
ToldWhenQuiet ==
    Quiet => \A s \in authorized :
        s \in pushing \/ inbox[s] # <<>> \/ told[s] = current

\* A solution of any job in the table can be assembled: the template kept with
\* a job, which later refreshes replace, yields the merkle root that was sent
\* (block_builder.py:344 refuses the block otherwise).
BuildsMerkle == \A i \in jobs : Merkle(job[i].gbt) = job[i].merkle

\* A miner whose job is of the block that has been current ever since is never
\* told that it is stale: only a new block removes jobs.
KnownForBlock ==
    \A s \in authorized :
        told[s] # NoJob /\ (\A i \in told[s] .. current :
                              BlockKey(job[i]) = BlockKey(job[current]))
            => told[s] \in jobs

\* A new block takes no more than it must from the table, and leaves the newest:
\* of the jobs there were, Limit stay, or all when there are no more, and none
\* of these was created before one that is gone.
IsNewBlock ==
    /\ current' # current
    /\ current = NoJob \/ BlockKey(job[current]) # BlockKey(job'[current'])
LeavesNewest ==
    LET kept == jobs' \ {current'}
    IN  /\ kept \subseteq jobs /\ current' \in jobs'
        /\ Cardinality(kept) =
             IF Cardinality(jobs) > Limit THEN Limit ELSE Cardinality(jobs)
        /\ \A k \in kept, gone \in jobs \ kept : job[gone].born <= job[k].born
NewBlockPrunes == [][IsNewBlock => LeavesNewest]_vars

\* The first job of another block that a miner sees tells it to drop its work,
\* even when the job that started the block was never sent to it.
DropsOldWork ==
    [][\A s \in Session :
         LET old == told[s]
             new == told'[s]
         IN  (old # NoJob /\ new # NoJob /\ BlockKey(job[old]) # BlockKey(job[new]))
                => job[new].clean]_vars

\* While the poller lives, every miner works in the end on the template of
\* btxd, whichever torn or outdated templates the refreshers applied.
PollerIsDead == "poller" \in Refresher /\ pc["poller"] = "dead"
UpToDate(s) ==
    /\ told[s] # NoJob /\ told[s] = current
    /\ job[current].header = node /\ job[current].merkle = Merkle(node)
EventuallyUpToDate == <>[](PollerIsDead \/ \A s \in authorized : UpToDate(s))

-----------------------------------------------------------------------------
(* What a message of the code says, and the code does not keep.             *)

\* stratum/session.py:177: a miner without a job idles until btxd syncs or a
\* template fetch succeeds.
IdleMinerGetsWork ==
    \A s \in Session : (s \in authorized /\ told[s] = NoJob)
                         ~> (s \notin authorized \/ told[s] # NoJob)

=============================================================================
