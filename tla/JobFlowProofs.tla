---------------------------- MODULE JobFlowProofs ----------------------------
(***************************************************************************)
(* Proofs about JobFlow, for any sessions, refreshers and bounds: jobs     *)
(* can be assembled, tell miners to drop old work, stay known while their  *)
(* block is current, and reach every miner.                                *)
(***************************************************************************)
EXTENDS JobFlow, SumLemmas, SequenceTheorems, TLAPS

\* The jobs are numbered as they are published.
JobInv ==
    /\ current = Len(job)
    /\ broadcastJob \in {NoJob, current}
    /\ \A i \in 1 .. Len(job) :
          job[i].merkle = Merkle(job[i].gbt) /\ job[i].clean = TRUE
    /\ \A i \in 1 .. Len(job) :
          (\A k \in i .. Len(job) : BlockKey(job[k]) = BlockKey(job[Len(job)]))
             => i \in jobs

LastOf(q) == q[Len(q)]

\* The last job on its way to s, or the one s has, is the current one.
WillBeTold(s) ==
    \/ inbox[s] # <<>> /\ LastOf(inbox[s]) = current
    \/ inbox[s] = <<>> /\ (s \in pushing \/ told[s] = current)

\* Where the current job is on its way to the miners.
ToldInv ==
    \/ needsBroadcast
    \/ step \in {"take", "fallback"}
    \/ step = "schedule" /\ held = current
    \/ step = "poll" /\ scheduled # <<>> /\ LastOf(scheduled) = current
    \/ step = "poll" /\ scheduled = <<>> /\ \A s \in authorized : WillBeTold(s)

\* Nothing is on its way to a connection that is not authorized.
InboxInv == \A s \in Session \ authorized : inbox[s] = <<>>

FlowInv == TypeOK /\ JobInv /\ ToldInv /\ InboxInv

-----------------------------------------------------------------------------
(* Sequences *)

LEMMA AppendLast ==
    ASSUME NEW S, NEW q \in Seq(S), NEW x \in S
    PROVE  /\ Append(q, x) \in Seq(S) /\ Append(q, x) # <<>>
           /\ LastOf(Append(q, x)) = x
           /\ Len(Append(q, x)) = Len(q) + 1
           /\ \A i \in 1 .. Len(q) : Append(q, x)[i] = q[i]
           /\ Append(q, x)[Len(q) + 1] = x
  BY DEF LastOf

LEMMA TailLast ==
    ASSUME NEW S, NEW q \in Seq(S), q # <<>>
    PROVE  /\ Tail(q) \in Seq(S) /\ Head(q) \in S
           /\ Tail(q) # <<>> => LastOf(Tail(q)) = LastOf(q)
           /\ Tail(q) = <<>> => Head(q) = LastOf(q)
<1>1. /\ Len(q) \in Nat /\ Len(q) >= 1 /\ Len(Tail(q)) = Len(q) - 1
      /\ Tail(q) \in Seq(S) /\ Head(q) = q[1] /\ Head(q) \in S
      /\ \A i \in 1 .. Len(q) - 1 : Tail(q)[i] = q[i + 1]
  <2>1. /\ Tail(q) \in Seq(S) /\ Len(Tail(q)) = Len(q) - 1 /\ Head(q) \in S
        /\ \A i \in 1 .. Len(Tail(q)) : Tail(q)[i] = q[i + 1]
    BY HeadTailProperties
  <2>2. Len(q) \in Nat \ {0}
    BY EmptySeq
  <2>3. Head(q) = q[1]
    OBVIOUS
  <2> QED
    BY <2>1, <2>2, <2>3
<1>0. Len(q) \in Nat /\ Len(Tail(q)) = Len(q) - 1
  BY <1>1
<1>2. CASE Tail(q) # <<>>
  <2>1. Len(Tail(q)) >= 1
    BY <1>1, <1>2
  <2> QED
    BY <1>1, <1>2, <2>1 DEF LastOf
<1>3. CASE Tail(q) = <<>>
  <2>1. Len(<<>>) = 0
    BY EmptySeq
  <2>2. Len(Tail(q)) = 0
    BY <1>3, <2>1, Zenon
  <2>3. Len(q) = 1
    <3>1. \A n \in Nat : n - 1 = 0 => n = 1
      OBVIOUS
    <3> QED
      BY <1>0, <2>2, <3>1, Zenon
  <2>4. Head(q) = q[Len(q)]
    BY <1>1, <2>3, Zenon
  <2> QED
    BY <1>1, <1>3, <2>4, Zenon DEF LastOf
<1> QED
  BY <1>2, <1>3

-----------------------------------------------------------------------------
(* Initial states *)

LEMMA MakeType ==
    ASSUME NEW g \in Template, NEW c \in Template, NEW b \in BOOLEAN, NEW n \in Nat
    PROVE  JobOf(g, c, b, n) \in JobType
<1>1. g.tip \in Nat /\ g.var \in Nat
  BY JobFlowAssumption DEF Template
<1>2. (g.var + 1) \div 2 \in Nat
  BY <1>1
<1>3. Merkle(g) \in Nat \X Nat
  BY <1>1, <1>2 DEF Merkle
<1> QED
  BY <1>3 DEF JobOf, JobType

LEMMA InitFlow == Init => FlowInv
<1> SUFFICES ASSUME Init PROVE FlowInv
  OBVIOUS
<1>1. NoTemplate \in Template
  BY JobFlowAssumption DEF NoTemplate, Template
<1>2. JobOf(node, node, TRUE, 0) \in JobType
  BY <1>1, MakeType DEF Init
<1>3. job = <<JobOf(node, node, TRUE, 0)>> \/ job = <<>>
  BY DEF Init
<1>4. job \in Seq(JobType)
  <2>1. \A x \in JobType : <<x>> \in Seq(JobType)
    OBVIOUS
  <2> QED
    BY <1>2, <1>3, <2>1, EmptySeq
<1>5. /\ current = Len(job) /\ Len(job) \in {0, 1}
      /\ broadcastJob = Len(job) /\ jobs = 1 .. Len(job)
  <2>1. CASE job = <<>> /\ current = NoJob /\ broadcastJob = NoJob /\ jobs = {}
    BY <2>1 DEF NoJob
  <2>2. CASE /\ job = <<JobOf(node, node, TRUE, 0)>>
             /\ current = 1 /\ broadcastJob = 1 /\ jobs = {1}
    BY <2>2
  <2> QED
    BY <2>1, <2>2 DEF Init
<1>6. TypeOK
  <2>1. current \in Ids /\ broadcastJob \in Ids /\ NoJob \in Ids
    BY <1>5 DEF Ids, NoJob
  <2>2. jobs \subseteq Ids \ {NoJob}
    BY <1>5 DEF Ids, NoJob
  <2>3. scheduled \in Seq(Ids) /\ inbox \in [Session -> Seq(Ids)]
    BY EmptySeq DEF Init
  <2>4. told \in [Session -> Ids] /\ held \in Ids
    BY <2>1 DEF Init
  <2>5. /\ node \in Template /\ gbt \in [Refresher -> Template]
        /\ challenge \in [Refresher -> Template] /\ since \in [Refresher -> Nat]
    BY <1>1 DEF Init
  <2>6. faults \in 0 .. MaxFaults
    BY JobFlowAssumption DEF Init
  <2> QED
    BY <1>4, <2>1, <2>2, <2>3, <2>4, <2>5, <2>6 DEF Init, TypeOK
<1>7. JobInv
  <2>1. CASE job = <<>>
    BY <2>1, <1>5 DEF Init, JobInv, NoJob
  <2>2. CASE job = <<JobOf(node, node, TRUE, 0)>>
    BY <2>2, <1>5 DEF Init, JobInv, JobOf, NoJob
  <2> QED
    BY <1>3, <2>1, <2>2
<1>8. ToldInv
  BY DEF Init, ToldInv
<1>9. InboxInv
  BY DEF Init, InboxInv
<1> QED
  BY <1>6, <1>7, <1>8, <1>9 DEF FlowInv

-----------------------------------------------------------------------------
(* What a refresh does to the jobs *)

\* A job as a refresh makes it.
Fresh(new) == new \in JobType /\ new.merkle = Merkle(new.gbt) /\ new.clean = TRUE

\* A refresh keeps the current job with a template that fits it, or publishes
\* a job that is clean; it removes jobs only for a new block.
LEMMA MakeCases ==
    ASSUME TypeOK, JobInv, NEW r \in Refresher, NEW born \in Nat, Make(r, born)
    PROVE  \E new \in JobType :
             \/ /\ current # NoJob /\ Fresh([new EXCEPT !.clean = TRUE])
                /\ BlockKey(new) = BlockKey(job[current])
                /\ SameHeader(job[current], new)
                /\ KeepJob(new)
             \/ \E kept \in SUBSET jobs :
                  /\ Fresh(new) /\ Publish(new, {kept})
                  /\ \/ /\ current # NoJob /\ BlockKey(job[current]) = BlockKey(new)
                        /\ kept = jobs
                     \/ /\ current = NoJob \/ BlockKey(job[current]) # BlockKey(new)
                        /\ kept \in Pruned(jobs)
<1> DEFINE asked == r = "block"
           new == JobOf(gbt[r], challenge[r], asked, born)
           block == [new EXCEPT !.clean = TRUE]
           header == [new EXCEPT !.clean =
             job[current].merkle # new.merkle \/ job[current].header # new.header]
<1>1. gbt[r] \in Template /\ challenge[r] \in Template /\ asked \in BOOLEAN
  BY DEF TypeOK
<1>2. new \in JobType
  BY <1>1, MakeType
<1>3. new.merkle = Merkle(new.gbt)
  BY DEF JobOf
<1>4. block \in JobType /\ Fresh(block) /\ BlockKey(block) = BlockKey(new)
  BY <1>2, <1>3 DEF Fresh, JobType, BlockKey
<1>5. /\ header \in JobType /\ header.merkle = Merkle(header.gbt)
      /\ BlockKey(header) = BlockKey(new)
      /\ ~SameHeader(job[current], new) => header.clean = TRUE
  BY <1>2, <1>3 DEF JobType, BlockKey, SameHeader
<1>6. CASE /\ current # NoJob /\ BlockKey(job[current]) = BlockKey(new)
           /\ SameHeader(job[current], new) /\ KeepJob(new)
  BY <1>2, <1>4, <1>6
<1>7. CASE /\ current # NoJob /\ BlockKey(job[current]) = BlockKey(new)
           /\ ~SameHeader(job[current], new) /\ Publish(header, Unpruned(jobs))
  <2>1. Publish(header, {jobs})
    BY <1>7 DEF Unpruned
  <2> QED
    BY <1>5, <1>7, <2>1 DEF Fresh
<1>8. CASE /\ ~(current # NoJob /\ BlockKey(job[current]) = BlockKey(new))
           /\ Publish(block, Pruned(jobs))
  <2>1. PICK kept \in Pruned(jobs) : Publish(block, {kept})
    <3> HIDE DEF block
    <3> QED
      BY <1>8 DEF Publish
  <2>2. kept \in SUBSET jobs
    BY DEF Pruned
  <2> QED
    BY <1>4, <1>8, <2>1, <2>2
<1> HIDE DEF new, block, header
<1>9. \/ /\ current # NoJob /\ BlockKey(job[current]) = BlockKey(new)
         /\ SameHeader(job[current], new) /\ KeepJob(new)
      \/ /\ current # NoJob /\ BlockKey(job[current]) = BlockKey(new)
         /\ ~SameHeader(job[current], new) /\ Publish(header, Unpruned(jobs))
      \/ /\ ~(current # NoJob /\ BlockKey(job[current]) = BlockKey(new))
         /\ Publish(block, Pruned(jobs))
  BY DEF Make, Always, new, block, header
<1> QED
  BY <1>6, <1>7, <1>8, <1>9

LEMMA ApplyMakes ==
    ASSUME TypeOK, NEW r \in Refresher, Apply(r)
    PROVE  \E born \in Nat : Make(r, born)
<1>1. PICK born \in since[r] .. Len(job) : Make(r, born)
  BY DEF Apply
<1>2. since[r] \in Nat /\ Len(job) \in Nat
  BY LenProperties DEF TypeOK
<1>3. born \in Nat
  BY <1>2
<1> QED
  BY <1>1, <1>3

\* Every other step leaves the jobs alone.
JobsKept ==
    /\ UNCHANGED <<job, jobs, current>>
    /\ broadcastJob' \in {NoJob, broadcastJob}

LEMMA OnlyApplyMakes ==
    ASSUME [Next]_vars
    PROVE  JobsKept \/ \E r \in Refresher : Apply(r)
<1>1. CASE UNCHANGED vars
  BY <1>1 DEF vars, jobVars, JobsKept
<1>2. CASE NewTip \/ NewVariant \/ FallBehind \/ CatchUp
  BY <1>2 DEF NewTip, NewVariant, FallBehind, CatchUp, jobVars, JobsKept
<1>3. CASE \E r \in Refresher : Refresh(r) \/ RefreshFails(r)
  <2>1. PICK r \in Refresher : Refresh(r) \/ RefreshFails(r)
    BY <1>3
  <2>2. CASE Apply(r)
    BY <2>2
  <2>3. CASE CheckSync(r) \/ GetTemplate(r) \/ GetChallenge(r)
    BY <2>3 DEF CheckSync, GetTemplate, GetChallenge, jobVars, JobsKept
  <2>4. CASE RefreshFails(r)
    BY <2>4 DEF RefreshFails, CheckFails, FetchFails, ResolveFails, jobVars, JobsKept
  <2> QED
    BY <2>1, <2>2, <2>3, <2>4 DEF Refresh
<1>4. CASE ThreadStep
  BY <1>4 DEF ThreadStep, ConsumeFlag, TakeJob, FallBack, Schedule, jobVars, JobsKept
<1>5. CASE Broadcast
  BY <1>5 DEF Broadcast, jobVars, JobsKept
<1>6. CASE \E s \in Session : \/ BlockFound(s) \/ Authorize(s) \/ PushWork(s)
                             \/ Deliver(s) \/ Disconnect(s)
  BY <1>6 DEF BlockFound, Authorize, PushWork, Deliver, Disconnect, jobVars, JobsKept
<1> QED
  BY <1>1, <1>2, <1>3, <1>4, <1>5, <1>6 DEF Next

\* The effect of a refresh, as the proofs below need it.
LEMMA KeepEffect ==
    ASSUME TypeOK, JobInv, NEW new \in JobType, current # NoJob,
           Fresh([new EXCEPT !.clean = TRUE]),
           BlockKey(new) = BlockKey(job[current]),
           SameHeader(job[current], new), KeepJob(new)
    PROVE  /\ job' \in Seq(JobType) /\ Len(job') = Len(job)
           /\ \A i \in 1 .. Len(job) :
                 /\ BlockKey(job'[i]) = BlockKey(job[i])
                 /\ job'[i].merkle = Merkle(job'[i].gbt)
                 /\ job'[i].clean = TRUE
<1>1. current \in 1 .. Len(job) /\ job[current] \in JobType
  BY DEF TypeOK, Ids, NoJob
<1> DEFINE old == job[current]
           one == [old EXCEPT !.gbt = new.gbt]
<1>2. one \in JobType /\ one.gbt = new.gbt /\ one.header = old.header
      /\ one.merkle = old.merkle /\ one.clean = old.clean
  BY <1>1 DEF JobType
<1>3. job' = [job EXCEPT ![current] = one]
  BY DEF KeepJob
<1>4. /\ job' \in Seq(JobType) /\ Len(job') = Len(job)
      /\ \A i \in 1 .. Len(job) : job'[i] = IF i = current THEN one ELSE job[i]
  BY <1>1, <1>2, <1>3, ExceptSeq DEF TypeOK
<1>5. BlockKey(one) = BlockKey(old)
  BY <1>2 DEF BlockKey, SameHeader
<1>6. one.merkle = Merkle(one.gbt) /\ one.clean = TRUE
  <2>1. new.merkle = Merkle(new.gbt)
    BY DEF Fresh, JobType
  <2> QED
    BY <1>1, <1>2, <2>1 DEF SameHeader, JobInv
<1> HIDE DEF one, old
<1> QED
  BY <1>4, <1>5, <1>6 DEF JobInv, old

LEMMA PublishEffect ==
    ASSUME TypeOK, JobInv, NEW new \in JobType, NEW kept \in SUBSET jobs,
           Fresh(new), Publish(new, {kept})
    PROVE  /\ job' \in Seq(JobType) /\ Len(job') = Len(job) + 1
           /\ \A i \in 1 .. Len(job) : job'[i] = job[i]
           /\ job'[Len(job) + 1] = new
           /\ current' = Len(job) + 1
  BY AppendProperties DEF TypeOK, Publish

LEMMA JobStep ==
    ASSUME TypeOK, JobInv, [Next]_vars
    PROVE  JobInv'
<1>1. CASE JobsKept
  BY <1>1 DEF JobsKept, JobInv, BlockKey
<1>2. CASE \E r \in Refresher : Apply(r)
  <2>1. PICK r \in Refresher, born \in Nat : Make(r, born)
    BY <1>2, ApplyMakes
  <2>2. PICK new \in JobType :
             \/ /\ current # NoJob /\ Fresh([new EXCEPT !.clean = TRUE])
                /\ BlockKey(new) = BlockKey(job[current])
                /\ SameHeader(job[current], new)
                /\ KeepJob(new)
             \/ \E kept \in SUBSET jobs :
                  /\ Fresh(new) /\ Publish(new, {kept})
                  /\ \/ kept = jobs
                     \/ current = NoJob
                     \/ BlockKey(job[current]) # BlockKey(new)
    BY <2>1, MakeCases
  <2>0. Len(job) \in Nat
    BY LenProperties DEF TypeOK
  <2>3. CASE /\ current # NoJob /\ Fresh([new EXCEPT !.clean = TRUE])
             /\ BlockKey(new) = BlockKey(job[current])
             /\ SameHeader(job[current], new)
             /\ KeepJob(new)
    <3>1. /\ Len(job') = Len(job)
          /\ \A i \in 1 .. Len(job) :
                /\ BlockKey(job'[i]) = BlockKey(job[i])
                /\ job'[i].merkle = Merkle(job'[i].gbt)
                /\ job'[i].clean = TRUE
      BY <2>3, KeepEffect
    <3>2. UNCHANGED <<jobs, current, broadcastJob>>
      BY <2>3 DEF KeepJob
    <3>3. current \in 1 .. Len(job)
      BY <2>0, <2>3 DEF JobInv, NoJob
    <3>4. ASSUME NEW i \in 1 .. Len(job'),
                 \A k \in i .. Len(job') : BlockKey(job'[k]) = BlockKey(job'[Len(job')])
          PROVE  i \in jobs'
      <4>1. i \in 1 .. Len(job)
        BY <3>1
      <4>2. \A k \in i .. Len(job) : BlockKey(job[k]) = BlockKey(job[Len(job)])
        <5> SUFFICES ASSUME NEW k \in i .. Len(job)
                     PROVE  BlockKey(job[k]) = BlockKey(job[Len(job)])
          OBVIOUS
        <5>1. k \in 1 .. Len(job) /\ Len(job) \in 1 .. Len(job)
          BY <2>0, <4>1
        <5>2. BlockKey(job'[k]) = BlockKey(job'[Len(job)])
          BY <3>1, <3>4
        <5> QED
          BY <3>1, <5>1, <5>2
      <4> QED
        BY <4>1, <4>2, <3>2 DEF JobInv
    <3> QED
      BY <3>1, <3>2, <3>4 DEF JobInv
  <2>4. ASSUME NEW kept \in SUBSET jobs, Fresh(new), Publish(new, {kept}),
               \/ kept = jobs
               \/ current = NoJob
               \/ BlockKey(job[current]) # BlockKey(new)
        PROVE  JobInv'
    <3>1. /\ Len(job') = Len(job) + 1
          /\ \A i \in 1 .. Len(job) : job'[i] = job[i]
          /\ job'[Len(job) + 1] = new
          /\ current' = Len(job) + 1
      BY <2>4, PublishEffect
    <3>2. broadcastJob' = current' /\ jobs' = kept \cup {Len(job) + 1}
      BY <2>4 DEF Publish
    <3>3. \A i \in 1 .. Len(job') :
             job'[i].merkle = Merkle(job'[i].gbt) /\ job'[i].clean = TRUE
      BY <2>0, <2>4, <3>1 DEF JobInv, Fresh
    <3>4. ASSUME NEW i \in 1 .. Len(job'),
                 \A k \in i .. Len(job') : BlockKey(job'[k]) = BlockKey(job'[Len(job')])
          PROVE  i \in jobs'
      <4>1. CASE i = Len(job) + 1
        BY <3>2, <4>1
      <4>2. CASE i # Len(job) + 1
        <5>1. i \in 1 .. Len(job) /\ Len(job) \in i .. Len(job')
              /\ Len(job) \in 1 .. Len(job)
          BY <2>0, <3>1, <4>2
        <5>2. \A k \in i .. Len(job) : BlockKey(job[k]) = BlockKey(new)
          <6> SUFFICES ASSUME NEW k \in i .. Len(job)
                       PROVE  BlockKey(job[k]) = BlockKey(new)
            OBVIOUS
          <6>1. k \in 1 .. Len(job) /\ k \in i .. Len(job')
            BY <2>0, <3>1, <5>1
          <6>2. BlockKey(job'[k]) = BlockKey(job'[Len(job')])
            BY <3>4, <6>1
          <6> QED
            BY <3>1, <6>1, <6>2
        <5>3. BlockKey(job[Len(job)]) = BlockKey(new)
          BY <2>0, <5>1, <5>2
        <5>4. i \in jobs
          BY <5>1, <5>2, <5>3 DEF JobInv
        <5>5. kept = jobs
          BY <2>4, <5>1, <5>3 DEF JobInv, NoJob
        <5> QED
          BY <3>2, <5>4, <5>5
      <4> QED
        BY <4>1, <4>2
    <3> QED
      BY <3>1, <3>2, <3>3, <3>4 DEF JobInv
  <2> QED
    BY <2>2, <2>3, <2>4
<1> QED
  BY <1>1, <1>2, OnlyApplyMakes

-----------------------------------------------------------------------------
(* What a new block leaves in the table *)

LEMMA JobsFinite == TypeOK => IsFiniteSet(jobs) /\ Len(job) + 1 \notin jobs
<1> SUFFICES ASSUME TypeOK PROVE IsFiniteSet(jobs) /\ Len(job) + 1 \notin jobs
  OBVIOUS
<1>1. Len(job) \in Nat
  BY LenProperties DEF TypeOK
<1>2. jobs \subseteq 1 .. Len(job)
  BY <1>1 DEF TypeOK, Ids, NoJob
<1>3. IsFiniteSet(1 .. Len(job))
  BY <1>1, FS_Interval
<1>4. IsFiniteSet(jobs)
  BY <1>2, <1>3, FS_Subset
<1> QED
  BY <1>1, <1>2, <1>4

\* Of a full table the newest Limit jobs stay, and the job of the new block is
\* none of the jobs there were.
LEMMA BlockPrunes ==
    ASSUME TypeOK, NEW new, NEW kept \in Pruned(jobs), Publish(new, {kept})
    PROVE  LeavesNewest
<1>1. IsFiniteSet(jobs) /\ Len(job) + 1 \notin jobs /\ kept \subseteq jobs
  BY JobsFinite DEF Pruned
<1>2. jobs' = kept \cup {current'} /\ current' = Len(job) + 1
  BY DEF Publish
<1>3. jobs' \ {current'} = kept
  BY <1>1, <1>2
<1>4. Cardinality(kept) = IF Cardinality(jobs) > Limit THEN Limit ELSE Cardinality(jobs)
  BY DEF Pruned
<1>5. \A k \in kept, gone \in jobs \ kept : job[gone].born <= job[k].born
  BY DEF Pruned, IsNewest
<1> QED
  BY <1>1, <1>2, <1>3, <1>4, <1>5 DEF LeavesNewest

-----------------------------------------------------------------------------
(* Types *)

LEMMA FaultType == TypeOK /\ Fault => faults' \in 0 .. MaxFaults
  BY JobFlowAssumption DEF TypeOK, Fault

\* The jobs of the table and the ids that are on their way stay ids.
LEMMA JobTypeStep ==
    ASSUME TypeOK, JobInv, [Next]_vars
    PROVE  /\ job' \in Seq(JobType) /\ Ids \subseteq Ids'
           /\ jobs' \subseteq Ids' \ {NoJob}
           /\ current' \in Ids' /\ broadcastJob' \in Ids'
<1>0. Len(job) \in Nat
  BY LenProperties DEF TypeOK
<1>1. CASE JobsKept
  BY <1>0, <1>1 DEF JobsKept, TypeOK, Ids, NoJob
<1>2. CASE \E r \in Refresher : Apply(r)
  <2>1. PICK r \in Refresher, born \in Nat : Make(r, born)
    BY <1>2, ApplyMakes
  <2>2. PICK new \in JobType :
             \/ /\ current # NoJob /\ Fresh([new EXCEPT !.clean = TRUE])
                /\ BlockKey(new) = BlockKey(job[current])
                /\ SameHeader(job[current], new)
                /\ KeepJob(new)
             \/ \E kept \in SUBSET jobs :
                  /\ Fresh(new) /\ Publish(new, {kept})
                  /\ \/ kept = jobs
                     \/ current = NoJob
                     \/ BlockKey(job[current]) # BlockKey(new)
    BY <2>1, MakeCases
  <2>3. CASE /\ current # NoJob /\ Fresh([new EXCEPT !.clean = TRUE])
             /\ BlockKey(new) = BlockKey(job[current])
             /\ SameHeader(job[current], new)
             /\ KeepJob(new)
    <3>1. job' \in Seq(JobType) /\ Len(job') = Len(job)
      BY <2>3, KeepEffect
    <3>2. UNCHANGED <<jobs, current, broadcastJob>>
      BY <2>3 DEF KeepJob
    <3> QED
      BY <1>0, <3>1, <3>2 DEF TypeOK, Ids, NoJob
  <2>4. ASSUME NEW kept \in SUBSET jobs, Fresh(new), Publish(new, {kept})
        PROVE  /\ job' \in Seq(JobType) /\ Ids \subseteq Ids'
               /\ jobs' \subseteq Ids' \ {NoJob}
               /\ current' \in Ids' /\ broadcastJob' \in Ids'
    <3>1. /\ job' \in Seq(JobType) /\ Len(job') = Len(job) + 1
          /\ current' = Len(job) + 1
      BY <2>4, PublishEffect
    <3>2. broadcastJob' = Len(job) + 1 /\ jobs' = kept \cup {Len(job) + 1}
      BY <2>4 DEF Publish
    <3>3. jobs' \subseteq Ids' \ {NoJob}
      <4>1. Ids' = 0 .. Len(job) + 1 /\ Ids = 0 .. Len(job)
        BY <3>1, Zenon DEF Ids, NoJob
      <4>2. kept \subseteq Ids \ {0}
        BY DEF TypeOK, NoJob
      <4>3. Len(job) + 1 \in Ids' \ {0} /\ Ids \subseteq Ids'
        BY <1>0, <4>1
      <4> QED
        BY <3>2, <4>2, <4>3, Zenon DEF NoJob
    <3> QED
      BY <1>0, <3>1, <3>2, <3>3 DEF Ids, NoJob
  <2> QED
    BY <2>2, <2>3, <2>4
<1> QED
  BY <1>1, <1>2, OnlyApplyMakes

\* The part of TypeOK that is not about ids.
RestType ==
    /\ node \in Template /\ ibd \in BOOLEAN
    /\ pc \in [Refresher -> {"idle", "found", "template", "challenge", "make", "dead"}]
    /\ gbt \in [Refresher -> Template] /\ challenge \in [Refresher -> Template]
    /\ since \in [Refresher -> Nat]
    /\ synced \in BOOLEAN /\ scripts \in BOOLEAN
    /\ needsBroadcast \in BOOLEAN
    /\ step \in {"poll", "take", "fallback", "schedule"}
    /\ authorized \subseteq Session /\ pushing \subseteq authorized
    /\ faults \in 0 .. MaxFaults

LEMMA NodeTypeStep ==
    ASSUME TypeOK,
           NewTip \/ NewVariant \/ FallBehind \/ CatchUp \/ \E s \in Session : BlockFound(s)
    PROVE  RestType'
<1>1. \A n \in Template : n.tip \in 0 .. MaxTip /\ n.var \in 0 .. MaxVar
  BY DEF Template
<1>2. \A t \in 0 .. MaxTip : t < MaxTip => [tip |-> t + 1, var |-> 0] \in Template
  BY JobFlowAssumption DEF Template
<1>3. \A n \in Template : n.var < MaxVar => [n EXCEPT !.var = n.var + 1] \in Template
  BY JobFlowAssumption DEF Template
<1>4. CASE NewTip
  <2>1. node' \in Template
    BY <1>1, <1>2, <1>4 DEF NewTip, TypeOK
  <2> QED
    BY <1>4, <2>1 DEF NewTip, TypeOK, RestType, refreshVars, jobVars,
                      threadVars, sessionVars
<1>5. CASE NewVariant
  <2>1. node' \in Template
    BY <1>1, <1>3, <1>5 DEF NewVariant, TypeOK
  <2> QED
    BY <1>5, <2>1 DEF NewVariant, TypeOK, RestType, refreshVars, jobVars,
                      threadVars, sessionVars
<1>6. CASE FallBehind
  BY <1>6, FaultType DEF FallBehind, TypeOK, RestType, refreshVars, jobVars,
                         threadVars, sessionVars
<1>7. CASE CatchUp
  BY <1>7 DEF CatchUp, TypeOK, RestType, refreshVars, jobVars, threadVars, sessionVars
<1>8. ASSUME NEW s \in Session, BlockFound(s)
      PROVE  RestType'
  <2>1. node' \in Template
    BY <1>1, <1>2, <1>8 DEF BlockFound, TypeOK
  <2>2. pc' \in [Refresher -> {"idle", "found", "template", "challenge", "make", "dead"}]
    BY <1>8 DEF BlockFound, Goto, TypeOK
  <2> QED
    BY <1>8, <2>1, <2>2 DEF BlockFound, TypeOK, RestType, jobVars, threadVars, sessionVars
<1> QED
  BY <1>4, <1>5, <1>6, <1>7, <1>8

LEMMA RefreshTypeStep ==
    ASSUME TypeOK, JobInv, NEW r \in Refresher, Refresh(r) \/ RefreshFails(r)
    PROVE  RestType'
<1>1. NoTemplate \in Template
  BY JobFlowAssumption DEF NoTemplate, Template
<1>2. \A next \in {"idle", "found", "template", "challenge", "make", "dead"} :
         Goto(r, next) => pc' \in [Refresher -> {"idle", "found", "template",
                                                 "challenge", "make", "dead"}]
  BY DEF Goto, TypeOK
<1>3. \A next \in {"idle", "dead"} : Leave(r, next) =>
         /\ pc' \in [Refresher -> {"idle", "found", "template",
                                   "challenge", "make", "dead"}]
         /\ gbt' \in [Refresher -> Template] /\ challenge' \in [Refresher -> Template]
         /\ since' \in [Refresher -> Nat]
  BY <1>1, <1>2 DEF Leave, TypeOK
<1>4. CASE CheckSync(r)
  <2>1. pc' \in [Refresher -> {"idle", "found", "template", "challenge", "make", "dead"}]
    BY <1>2, <1>4 DEF CheckSync
  <2> QED
    BY <1>4, <2>1 DEF CheckSync, TypeOK, RestType, nodeVars, jobVars,
                      threadVars, sessionVars
<1>5. CASE GetTemplate(r)
  <2>1. pc' \in [Refresher -> {"idle", "found", "template", "challenge", "make", "dead"}]
    BY <1>2, <1>5 DEF GetTemplate
  <2> QED
    BY <1>5, <2>1 DEF GetTemplate, TypeOK, RestType, nodeVars, jobVars,
                      threadVars, sessionVars
<1>6. CASE GetChallenge(r)
  <2>1. pc' \in [Refresher -> {"idle", "found", "template", "challenge", "make", "dead"}]
    BY <1>2, <1>6 DEF GetChallenge
  <2>2. since' \in [Refresher -> Nat]
    <3>1. Len(job) \in Nat
      BY LenProperties DEF TypeOK
    <3> QED
      BY <1>6, <3>1 DEF GetChallenge, TypeOK
  <2> QED
    BY <1>6, <2>1, <2>2 DEF GetChallenge, TypeOK, RestType, nodeVars, jobVars,
                      threadVars, sessionVars
<1>7. CASE Apply(r)
  <2>1. needsBroadcast' \in BOOLEAN
    <3>1. needsBroadcast' \in {needsBroadcast, TRUE}
      <4>1. PICK born \in Nat : Make(r, born)
        BY <1>7, ApplyMakes
      <4>2. \E new \in JobType :
               KeepJob(new) \/ \E kept \in SUBSET jobs : Publish(new, {kept})
        BY <4>1, MakeCases
      <4> QED
        BY <4>2 DEF KeepJob, Publish
    <3> QED
      BY <3>1 DEF TypeOK
  <2> QED
    BY <1>3, <1>7, <2>1 DEF Apply, TypeOK, RestType, nodeVars, threadVars, sessionVars
<1>8. CASE CheckFails(r)
  <2>1. pc' \in [Refresher -> {"idle", "found", "template", "challenge", "make", "dead"}]
    BY <1>2, <1>8 DEF CheckFails
  <2> QED
    BY <1>8, <2>1, FaultType DEF CheckFails, TypeOK, RestType, nodeVars, jobVars,
                                 threadVars, sessionVars
<1>9. CASE FetchFails(r)
  BY <1>3, <1>9, FaultType DEF FetchFails, TypeOK, RestType, nodeVars, jobVars,
                               threadVars, sessionVars
<1>10. CASE ResolveFails(r)
  BY <1>3, <1>10, FaultType DEF ResolveFails, TypeOK, RestType, nodeVars, jobVars,
                                threadVars, sessionVars
<1> QED
  BY <1>4, <1>5, <1>6, <1>7, <1>8, <1>9, <1>10 DEF Refresh, RefreshFails

LEMMA RestTypeStep ==
    ASSUME TypeOK, JobInv, [Next]_vars
    PROVE  RestType'
<1>1. CASE UNCHANGED vars
  BY <1>1 DEF vars, TypeOK, RestType, nodeVars, refreshVars, jobVars, threadVars,
              sessionVars
<1>2. CASE ThreadStep
  BY <1>2 DEF ThreadStep, ConsumeFlag, TakeJob, Kept, FallBack, Schedule, TypeOK,
              RestType, nodeVars, refreshVars, jobVars, sessionVars
<1>3. CASE Broadcast
  BY <1>3 DEF Broadcast, TypeOK, RestType, nodeVars, refreshVars, jobVars, threadVars
<1>4. ASSUME NEW s \in Session, Authorize(s) \/ PushWork(s) \/ Deliver(s)
      PROVE  RestType'
  BY <1>4 DEF Authorize, PushWork, Deliver, TypeOK, RestType, nodeVars, refreshVars,
              jobVars, threadVars
<1>5. ASSUME NEW s \in Session, Disconnect(s)
      PROVE  RestType'
  BY <1>5, FaultType DEF Disconnect, TypeOK, RestType, nodeVars, refreshVars,
                         jobVars, threadVars
<1> QED
  BY <1>1, <1>2, <1>3, <1>4, <1>5, NodeTypeStep, RefreshTypeStep DEF Next

\* What the broadcast thread and the event loop hold after a step was an id
\* before the step.
LEMMA HeldStep ==
    ASSUME TypeOK, [Next]_vars
    PROVE  /\ held' \in Ids /\ scheduled' \in Seq(Ids)
           /\ inbox' \in [Session -> Seq(Ids)] /\ told' \in [Session -> Ids]
<1>0. NoJob \in Ids /\ <<>> \in Seq(Ids)
  BY LenProperties, EmptySeq DEF TypeOK, Ids, NoJob
<1>1. CASE UNCHANGED <<held, scheduled, inbox, told>>
  BY <1>1 DEF TypeOK
<1>2. CASE ConsumeFlag \/ TakeJob \/ FallBack
  BY <1>2 DEF ConsumeFlag, TakeJob, FallBack, TypeOK, sessionVars
<1>3. CASE Schedule
  <2>1. scheduled' \in Seq(Ids)
    BY <1>3, AppendProperties DEF Schedule, TypeOK
  <2> QED
    BY <1>0, <1>3, <2>1 DEF Schedule, TypeOK, sessionVars
<1>4. CASE Broadcast
  <2>1. scheduled' \in Seq(Ids) /\ Head(scheduled) \in Ids
    BY <1>4, TailLast DEF Broadcast, TypeOK
  <2>2. \A s \in Session : Append(inbox[s], Head(scheduled)) \in Seq(Ids)
    BY <2>1, AppendProperties DEF TypeOK
  <2>3. inbox' \in [Session -> Seq(Ids)]
    BY <1>4, <2>2 DEF Broadcast, TypeOK
  <2> QED
    BY <1>4, <2>1, <2>3 DEF Broadcast, TypeOK, threadVars
<1>5. ASSUME NEW s \in Session, PushWork(s) \/ Authorize(s) \/ Disconnect(s)
      PROVE  /\ held' \in Ids /\ scheduled' \in Seq(Ids)
             /\ inbox' \in [Session -> Seq(Ids)] /\ told' \in [Session -> Ids]
  BY <1>0, <1>5 DEF PushWork, Authorize, Disconnect, TypeOK, threadVars
<1>6. ASSUME NEW s \in Session, Deliver(s)
      PROVE  /\ held' \in Ids /\ scheduled' \in Seq(Ids)
             /\ inbox' \in [Session -> Seq(Ids)] /\ told' \in [Session -> Ids]
  <2>1. Head(inbox[s]) \in Ids /\ Tail(inbox[s]) \in Seq(Ids)
    BY <1>6, TailLast DEF Deliver, TypeOK
  <2> QED
    BY <1>6, <2>1 DEF Deliver, TypeOK, threadVars
<1>7. CASE NewTip \/ NewVariant \/ FallBehind \/ CatchUp \/ \E s \in Session : BlockFound(s)
  BY <1>1, <1>7 DEF NewTip, NewVariant, FallBehind, CatchUp, BlockFound, threadVars,
                    sessionVars
<1>8. CASE \E r \in Refresher : Refresh(r) \/ RefreshFails(r)
  BY <1>1, <1>8 DEF Refresh, RefreshFails, CheckSync, GetTemplate, GetChallenge, Apply,
                    CheckFails, FetchFails, ResolveFails, threadVars, sessionVars
<1>9. CASE UNCHANGED vars
  BY <1>1, <1>9 DEF vars, threadVars, sessionVars
<1> QED
  BY <1>2, <1>3, <1>4, <1>5, <1>6, <1>7, <1>8, <1>9 DEF Next, ThreadStep

LEMMA TypeStep ==
    ASSUME TypeOK, JobInv, [Next]_vars
    PROVE  TypeOK'
<1>1. RestType'
  BY RestTypeStep
<1>2. /\ job' \in Seq(JobType) /\ Ids \subseteq Ids'
      /\ jobs' \subseteq Ids' \ {NoJob}
      /\ current' \in Ids' /\ broadcastJob' \in Ids'
  BY JobTypeStep
<1>3. /\ held' \in Ids /\ scheduled' \in Seq(Ids)
      /\ inbox' \in [Session -> Seq(Ids)] /\ told' \in [Session -> Ids]
  BY HeldStep
<1>4. \A q \in Seq(Ids) : q \in Seq(Ids')
  BY <1>2, SeqMonotonic
<1>5. /\ held' \in Ids' /\ scheduled' \in Seq(Ids')
      /\ inbox' \in [Session -> Seq(Ids')] /\ told' \in [Session -> Ids']
  BY <1>2, <1>3, <1>4
<1> QED
  BY <1>1, <1>2, <1>5 DEF TypeOK, RestType

-----------------------------------------------------------------------------
(* The current job on its way to the miners *)

LEMMA InboxStep ==
    ASSUME FlowInv, [Next]_vars
    PROVE  InboxInv'
<1>0. InboxInv /\ TypeOK
  BY DEF FlowInv
<1>1. CASE UNCHANGED <<authorized, inbox>>
  BY <1>0, <1>1 DEF InboxInv
<1>2. CASE Broadcast
  BY <1>0, <1>2 DEF Broadcast, InboxInv
<1>3. ASSUME NEW s \in Session, Authorize(s) \/ PushWork(s)
      PROVE  InboxInv'
  BY <1>0, <1>3 DEF Authorize, PushWork, InboxInv
<1>4. ASSUME NEW s \in Session, Deliver(s)
      PROVE  InboxInv'
  BY <1>0, <1>4 DEF Deliver, InboxInv, TypeOK
<1>5. ASSUME NEW s \in Session, Disconnect(s)
      PROVE  InboxInv'
  BY <1>0, <1>5 DEF Disconnect, InboxInv, TypeOK
<1>6. CASE ThreadStep
  BY <1>1, <1>6 DEF ThreadStep, ConsumeFlag, TakeJob, FallBack, Schedule, sessionVars
<1>7. CASE NewTip \/ NewVariant \/ FallBehind \/ CatchUp \/ \E s \in Session : BlockFound(s)
  BY <1>1, <1>7 DEF NewTip, NewVariant, FallBehind, CatchUp, BlockFound, sessionVars
<1>8. CASE \E r \in Refresher : Refresh(r) \/ RefreshFails(r)
  BY <1>1, <1>8 DEF Refresh, RefreshFails, CheckSync, GetTemplate, GetChallenge, Apply,
                    CheckFails, FetchFails, ResolveFails, sessionVars
<1>9. CASE UNCHANGED vars
  BY <1>1, <1>9 DEF vars, sessionVars
<1> QED
  BY <1>2, <1>3, <1>4, <1>5, <1>6, <1>7, <1>8, <1>9 DEF Next

\* As long as there is no job, the only id anyone holds is NoJob.
LEMMA NothingToTell ==
    ASSUME TypeOK, JobInv, current = NoJob
    PROVE  /\ \A s \in Session : WillBeTold(s)
           /\ scheduled # <<>> => LastOf(scheduled) = current
<1>1. Ids = {NoJob}
  BY DEF JobInv, Ids, NoJob
<1>2. \A q \in Seq(Ids) : q # <<>> => LastOf(q) = NoJob
  <2> SUFFICES ASSUME NEW q \in Seq(Ids), q # <<>> PROVE LastOf(q) = NoJob
    OBVIOUS
  <2>1. Len(q) \in Nat \ {0}
    BY EmptySeq
  <2>2. q[Len(q)] \in Ids
    BY <2>1, ElementOfSeq
  <2> QED
    BY <1>1, <2>2 DEF LastOf
<1>3. \A s \in Session : told[s] = NoJob /\ inbox[s] \in Seq(Ids)
  BY <1>1 DEF TypeOK
<1> QED
  BY <1>2, <1>3 DEF TypeOK, WillBeTold

LEMMA ScheduleTells ==
    ASSUME FlowInv, Schedule
    PROVE  ToldInv'
<1>0. TypeOK /\ JobInv /\ ToldInv
  BY DEF FlowInv
<1>1. CASE needsBroadcast
  BY <1>1 DEF Schedule, Kept, ToldInv
<1>2. CASE held = NoJob /\ held = current
  <2>1. /\ \A s \in Session : WillBeTold(s)
        /\ scheduled # <<>> => LastOf(scheduled) = current
    BY <1>0, <1>2, NothingToTell
  <2>2. UNCHANGED <<current, scheduled, authorized, inbox, pushing, told>> /\ step' = "poll"
    BY <1>2 DEF Schedule, sessionVars
  <2>3. \A s \in authorized' : WillBeTold(s)'
    BY <1>0, <2>1, <2>2 DEF WillBeTold, TypeOK
  <2> QED
    BY <2>1, <2>2, <2>3 DEF ToldInv, LastOf
<1>3. CASE held # NoJob /\ held = current
  <2>1. scheduled' = Append(scheduled, current) /\ current' = current /\ step' = "poll"
    BY <1>3 DEF Schedule
  <2>2. scheduled' # <<>> /\ LastOf(Append(scheduled, current)) = current
    <3>1. scheduled \in Seq(Ids) /\ current \in Ids
      BY <1>0 DEF TypeOK
    <3> QED
      BY <2>1, <3>1, AppendLast
  <2> QED
    BY <2>1, <2>2 DEF ToldInv, LastOf
<1> QED
  BY <1>0, <1>1, <1>2, <1>3 DEF ToldInv, Schedule

LEMMA BroadcastTells ==
    ASSUME FlowInv, Broadcast
    PROVE  ToldInv'
<1>0. TypeOK /\ ToldInv
  BY DEF FlowInv
<1>1. UNCHANGED <<current, needsBroadcast, step, held, authorized, pushing, told>>
  BY DEF Broadcast, jobVars, threadVars
<1>2. CASE \/ needsBroadcast \/ step \in {"take", "fallback"}
           \/ step = "schedule" /\ held = current
  BY <1>1, <1>2 DEF ToldInv
<1>3. CASE step = "poll" /\ LastOf(scheduled) = current
  <2>1. scheduled \in Seq(Ids) /\ scheduled # <<>> /\ scheduled' = Tail(scheduled)
    BY <1>0 DEF Broadcast, TypeOK
  <2>2. CASE Tail(scheduled) # <<>>
    <3>1. LastOf(Tail(scheduled)) = current
      BY <1>3, <2>1, <2>2, TailLast
    <3> QED
      BY <1>1, <1>3, <2>1, <2>2, <3>1 DEF ToldInv, LastOf
  <2>3. CASE Tail(scheduled) = <<>>
    <3>1. Head(scheduled) = current /\ current \in Ids
      BY <1>0, <1>3, <2>1, <2>3, TailLast DEF TypeOK
    <3>2. ASSUME NEW s \in authorized
          PROVE  inbox'[s] # <<>> /\ inbox'[s][Len(inbox'[s])] = current
      <4>1. s \in Session /\ inbox[s] \in Seq(Ids)
        BY <1>0 DEF TypeOK
      <4>2. inbox'[s] = Append(inbox[s], current)
        BY <3>1, <4>1 DEF Broadcast
      <4>3. Append(inbox[s], current) # <<>> /\ LastOf(Append(inbox[s], current)) = current
        BY <3>1, <4>1, AppendLast
      <4> QED
        BY <4>2, <4>3 DEF LastOf
    <3> QED
      BY <1>1, <1>3, <2>1, <2>3, <3>2 DEF ToldInv, WillBeTold, LastOf
  <2> QED
    BY <2>2, <2>3
<1> QED
  BY <1>0, <1>2, <1>3 DEF ToldInv, Broadcast

\* A step of one session leaves the rest as it is.
LEMMA SessionTells ==
    ASSUME FlowInv, NEW s \in Session,
           Authorize(s) \/ PushWork(s) \/ Deliver(s) \/ Disconnect(s)
    PROVE  ToldInv'
<1>0. TypeOK /\ JobInv /\ ToldInv /\ InboxInv
  BY DEF FlowInv
<1>1. UNCHANGED <<current, needsBroadcast, step, held, scheduled>>
  BY DEF Authorize, PushWork, Deliver, Disconnect, jobVars, threadVars
<1>2. CASE \/ needsBroadcast \/ step \in {"take", "fallback"}
           \/ step = "schedule" /\ held = current
           \/ step = "poll" /\ scheduled # <<>> /\ LastOf(scheduled) = current
  BY <1>1, <1>2 DEF ToldInv, LastOf
<1>3. CASE step = "poll" /\ scheduled = <<>> /\ \A t \in authorized : WillBeTold(t)
  <2>1. \A t \in authorized' : t \in Session /\ (t \in authorized \/ t = s)
    BY <1>0 DEF Authorize, PushWork, Deliver, Disconnect, TypeOK
  <2>2. ASSUME NEW t \in authorized', t # s
        PROVE  WillBeTold(t)'
    <3>1. WillBeTold(t)
      BY <1>3, <2>1, <2>2
    <3>2. /\ inbox'[t] = inbox[t] /\ told'[t] = told[t]
          /\ t \in pushing => t \in pushing'
      BY <1>0, <2>1, <2>2 DEF Authorize, PushWork, Deliver, Disconnect, TypeOK
    <3> QED
      BY <1>1, <3>1, <3>2 DEF WillBeTold, LastOf
  <2>3. CASE Authorize(s)
    <3>1. inbox'[s] = <<>> /\ s \in pushing'
      BY <1>0, <2>3 DEF Authorize, InboxInv
    <3> QED
      BY <1>1, <1>3, <2>1, <2>2, <3>1 DEF ToldInv, WillBeTold
  <2>4. CASE PushWork(s)
    <3>1. WillBeTold(s) /\ s \in authorized
      BY <1>0, <1>3, <2>4 DEF PushWork, TypeOK
    <3>2. told'[s] = current /\ inbox' = inbox
      <4>1. CASE current = NoJob
        <5>1. told[s] \in Ids
          BY <1>0 DEF TypeOK
        <5>2. Ids = {NoJob}
          BY <1>0, <4>1 DEF JobInv, Ids, NoJob
        <5> QED
          BY <1>0, <2>4, <4>1, <5>1, <5>2 DEF PushWork, TypeOK
      <4>2. CASE current # NoJob
        BY <1>0, <2>4, <4>2 DEF PushWork, TypeOK
      <4> QED
        BY <4>1, <4>2
    <3>3. WillBeTold(s)'
      BY <1>1, <3>1, <3>2 DEF WillBeTold, LastOf
    <3> QED
      BY <1>1, <1>3, <2>1, <2>2, <3>3 DEF ToldInv
  <2>5. CASE Deliver(s)
    <3>1. /\ inbox[s] # <<>> /\ inbox[s] \in Seq(Ids)
          /\ inbox'[s] = Tail(inbox[s]) /\ told'[s] = Head(inbox[s])
      BY <1>0, <2>5 DEF Deliver, TypeOK
    <3>2. s \in authorized
      BY <1>0, <3>1 DEF InboxInv
    <3>3. LastOf(inbox[s]) = current
      BY <1>3, <3>1, <3>2 DEF WillBeTold
    <3>4. \/ Tail(inbox[s]) # <<>> /\ LastOf(Tail(inbox[s])) = current
          \/ Tail(inbox[s]) = <<>> /\ Head(inbox[s]) = current
      BY <3>1, <3>3, TailLast
    <3>5. WillBeTold(s)'
      BY <1>1, <3>1, <3>4, Zenon DEF WillBeTold, LastOf
    <3> QED
      BY <1>1, <1>3, <2>1, <2>2, <3>5 DEF ToldInv
  <2>6. CASE Disconnect(s)
    <3>1. s \notin authorized'
      BY <2>6 DEF Disconnect
    <3> QED
      BY <1>1, <1>3, <2>1, <2>2, <3>1 DEF ToldInv
  <2> QED
    BY <2>3, <2>4, <2>5, <2>6
<1> QED
  BY <1>0, <1>2, <1>3 DEF ToldInv

LEMMA ToldStep ==
    ASSUME FlowInv, [Next]_vars
    PROVE  ToldInv'
<1>0. TypeOK /\ JobInv /\ ToldInv
  BY DEF FlowInv
<1>1. CASE UNCHANGED <<current, needsBroadcast, step, held, scheduled, sessionVars>>
  BY <1>0, <1>1 DEF sessionVars, ToldInv, WillBeTold, LastOf
<1>2. CASE ConsumeFlag
  BY <1>2 DEF ConsumeFlag, ToldInv
<1>3. CASE TakeJob
  BY <1>0, <1>3 DEF TakeJob, ToldInv, JobInv
<1>4. CASE FallBack
  BY <1>4 DEF FallBack, jobVars, ToldInv
<1>5. CASE \E r \in Refresher : Apply(r)
  <2>1. PICK r \in Refresher : Apply(r)
    BY <1>5
  <2>2. UNCHANGED <<step, held, scheduled, sessionVars>>
    BY <2>1 DEF Apply, threadVars
  <2>3. PICK new \in JobType :
           KeepJob(new) \/ \E kept \in SUBSET jobs : Publish(new, {kept})
    <3>1. PICK born \in Nat : Make(r, born)
      BY <1>0, <2>1, ApplyMakes
    <3> QED
      BY <1>0, <3>1, MakeCases
  <2>4. needsBroadcast' = TRUE \/ UNCHANGED <<current, needsBroadcast>>
    BY <2>3 DEF KeepJob, Publish
  <2> QED
    BY <1>1, <2>2, <2>4 DEF ToldInv
<1>6. CASE NewTip \/ NewVariant \/ FallBehind \/ CatchUp \/ \E s \in Session : BlockFound(s)
  BY <1>1, <1>6 DEF NewTip, NewVariant, FallBehind, CatchUp, BlockFound, jobVars,
                    threadVars
<1>7. CASE \E r \in Refresher : \/ CheckSync(r) \/ GetTemplate(r) \/ GetChallenge(r)
                                \/ RefreshFails(r)
  BY <1>1, <1>7 DEF CheckSync, GetTemplate, GetChallenge, RefreshFails, CheckFails,
                    FetchFails, ResolveFails, jobVars, threadVars
<1>8. CASE UNCHANGED vars
  BY <1>1, <1>8 DEF vars, jobVars, threadVars
<1> QED
  BY <1>2, <1>3, <1>4, <1>5, <1>6, <1>7, <1>8, ScheduleTells, BroadcastTells,
     SessionTells DEF Next, Refresh, ThreadStep

-----------------------------------------------------------------------------
(* Theorems *)

LEMMA FlowInvariant == Spec => []FlowInv
<1>1. FlowInv /\ [Next]_vars => FlowInv'
  BY TypeStep, JobStep, ToldStep, InboxStep DEF FlowInv
<1> QED
  BY InitFlow, <1>1, PTL DEF Spec

\* Every job, template and id the actors hold is one that was made before,
\* whichever of them made it.
THEOREM FlowTypes == Spec => []TypeOK
<1>1. FlowInv => TypeOK
  BY DEF FlowInv
<1> QED
  BY FlowInvariant, <1>1, PTL

\* When the flag is down, the broadcast thread is waiting and the event loop
\* has no broadcast left, every authorized miner has the current job or a
\* notification on its way.
THEOREM EveryMinerTold == Spec => []ToldWhenQuiet
<1>1. FlowInv => ToldWhenQuiet
  BY DEF FlowInv, ToldInv, ToldWhenQuiet, Quiet, WillBeTold
<1> QED
  BY FlowInvariant, <1>1, PTL

\* A solution of any job of the table can be assembled from the template that
\* is stored with it, though refreshes replace that template.
THEOREM SolutionsAssemble == Spec => []BuildsMerkle
<1>1. FlowInv => BuildsMerkle
  <2> SUFFICES ASSUME FlowInv, NEW i \in jobs
               PROVE  Merkle(job[i].gbt) = job[i].merkle
    BY DEF BuildsMerkle
  <2>1. i \in 1 .. Len(job)
    BY LenProperties DEF FlowInv, TypeOK, Ids, NoJob
  <2> QED
    BY <2>1 DEF FlowInv, JobInv
<1> QED
  BY FlowInvariant, <1>1, PTL

\* A job that was sent stays in the table for as long as the jobs after it are
\* of the same block, whatever Limit is.
THEOREM JobsKnownForBlock == Spec => []KnownForBlock
<1>1. FlowInv => KnownForBlock
  <2> SUFFICES ASSUME FlowInv, NEW s \in authorized, told[s] # NoJob,
                      \A i \in told[s] .. current :
                         BlockKey(job[i]) = BlockKey(job[current])
               PROVE  told[s] \in jobs
    BY DEF KnownForBlock
  <2>1. told[s] \in Ids /\ current = Len(job) /\ Len(job) \in Nat
    BY LenProperties DEF FlowInv, TypeOK, JobInv
  <2>2. told[s] \in 1 .. Len(job)
    BY <2>1 DEF Ids, NoJob
  <2> QED
    BY <2>1, <2>2 DEF FlowInv, JobInv
<1> QED
  BY FlowInvariant, <1>1, PTL

\* A miner that is moved to another block is told to drop its work, also when
\* the job that started the block was never sent to it.
THEOREM OldWorkDropped == Spec => DropsOldWork
<1>1. FlowInv /\ [Next]_vars =>
        [\A s \in Session :
           LET old == told[s]
               new == told'[s]
           IN  (old # NoJob /\ new # NoJob /\ BlockKey(job[old]) # BlockKey(job[new]))
                  => job[new].clean]_vars
  <2> SUFFICES ASSUME FlowInv, [Next]_vars, NEW s \in Session, told'[s] # NoJob
               PROVE  job[told'[s]].clean
    OBVIOUS
  <2>1. told'[s] \in Ids
    BY HeldStep DEF FlowInv
  <2>2. told'[s] \in 1 .. Len(job)
    BY <2>1, LenProperties DEF FlowInv, TypeOK, Ids, NoJob
  <2> QED
    BY <2>2 DEF FlowInv, JobInv
<1> QED
  BY FlowInvariant, <1>1, PTL DEF Spec, DropsOldWork

\* A block that starts leaves exactly the newest Limit jobs and its own in the
\* table, whatever the table had grown to while the block before it was current
\* and in whatever order overlapping refreshes built and published the jobs.
THEOREM NewBlockLeavesNewest == Spec => NewBlockPrunes
<1>1. FlowInv /\ [Next]_vars => [IsNewBlock => LeavesNewest]_vars
  <2> SUFFICES ASSUME FlowInv, [Next]_vars, IsNewBlock
               PROVE  LeavesNewest
    OBVIOUS
  <2>1. TypeOK /\ JobInv
    BY DEF FlowInv
  <2>2. PICK r \in Refresher, born \in Nat : Make(r, born)
    <3>1. PICK r \in Refresher : Apply(r)
      BY OnlyApplyMakes DEF JobsKept, IsNewBlock
    <3> QED
      BY <2>1, <3>1, ApplyMakes
  <2>3. PICK new \in JobType :
           \/ KeepJob(new)
           \/ \E kept \in SUBSET jobs :
                /\ Fresh(new) /\ Publish(new, {kept})
                /\ \/ current # NoJob /\ BlockKey(job[current]) = BlockKey(new)
                   \/ kept \in Pruned(jobs)
    BY <2>1, <2>2, MakeCases
  <2>4. CASE KeepJob(new)
    BY <2>4 DEF KeepJob, IsNewBlock
  <2>5. ASSUME NEW kept \in SUBSET jobs, Fresh(new), Publish(new, {kept}),
               current # NoJob, BlockKey(job[current]) = BlockKey(new)
        PROVE  FALSE
    <3>1. current' = Len(job) + 1 /\ job'[Len(job) + 1] = new
      BY <2>1, <2>5, PublishEffect
    <3> QED
      BY <2>5, <3>1 DEF IsNewBlock
  <2> QED
    BY <2>1, <2>3, <2>4, <2>5, BlockPrunes
<1> QED
  BY FlowInvariant, <1>1, PTL DEF Spec, NewBlockPrunes

=============================================================================
