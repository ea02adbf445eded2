----------------------------- MODULE SharesProofs -----------------------------
(***************************************************************************)
(* Theorems about Shares, for any sessions, shares, threads and bounds.    *)
(* TrueInStep rests on what the pipes hold: as long as no call gave up,    *)
(* the lock makes the request of its holder the only one outstanding.      *)
(* After one did, the pipes still hold nothing but shares the solver was   *)
(* asked about, and what one of these says of another is all that can be   *)
(* recorded wrongly.                                                       *)
(***************************************************************************)
EXTENDS Shares, SequenceTheorems, FiniteSetTheorems, TLAPS

\* The lock is held exactly while the holder reads.
LockInv == \A s \in Session : pc[s] = "reading" <=> holder = s

Outstanding(s) ==
    \/ daemon = "up" /\ replies = <<>> /\ requests = <<share[s]>>
    \/ replies = <<share[s]>> /\ requests = <<>>
    \/ daemon # "up" /\ replies = <<>> /\ requests = <<>>

\* In step: nothing but the request of the holder, or its reply, is in a pipe.
PipeInv ==
    late = 0 => /\ daemon = "up" /\ holder = NoOne => replies = <<>> /\ requests = <<>>
                /\ \A s \in Session : holder = s => Outstanding(s)

\* The pipes hold what the solver was asked, and no more.
AskedInv == requests \in Seq(asked) /\ replies \in Seq(asked)

\* A verdict that is more or less than the share is worth came late, from a twin.
Explained(x, says, isLate) ==
    \/ says = Quality(x)
    \/ isLate /\ (says = "miss" \/ \E y \in Twins(x) : says = ResultFor(y, x))

\* A verdict is kept from the reply to the record, and a block to its end.
VerdictInv ==
    \A s \in Session :
        /\ pc[s] # "judged" => verdict[s] = NoVerdict
        /\ verdict[s].says \in {"miss", "share", "block"}
              => Explained(share[s], verdict[s].says, verdict[s].late > 0)
        /\ pc[s] \in {"won", "submitting"} =>
              \E row \in rows : row.share = share[s] /\ row.block

SafeInv == TypeOK /\ LockInv /\ PipeInv /\ AskedInv /\ VerdictInv /\ FalseOnlyByTwin

-----------------------------------------------------------------------------
(* Types *)

LEMMA SessionsAssumed ==
  /\ WorkerOf \in [Session -> Worker] /\ NoOne \notin Session
  /\ PoolDifficulty \in Nat /\ Fresh \in Nat
  BY SharesAssumption

LEMMA VerdictTyped ==
  /\ NoVerdict \in Verdicts /\ Failed \in Verdicts
  /\ \A v \in Verdicts : v.late \in Nat
  BY DEF NoVerdict, Failed, Verdicts

LEMMA InitTypes == Init => TypeOK
  BY SharesAssumption, VerdictTyped DEF Init, TypeOK, Steps

LEMMA RowTyped ==
  ASSUME TypeOK, NEW s \in Session
  PROVE  /\ Row(s) \in Rows
         /\ Row(s).share = share[s] /\ Row(s).work = offered[s]
         /\ Row(s).block = (verdict[s].says = "block")
         /\ Row(s).late = (verdict[s].late > 0)
<1> DEFINE block == verdict[s].says = "block"
           isLate == verdict[s].late > 0
<1>1. block \in BOOLEAN /\ isLate \in BOOLEAN
  OBVIOUS
<1>2. WorkerOf[s] \in Worker /\ share[s] \in Share /\ offered[s] \in Nat
  BY SharesAssumption DEF TypeOK
<1>3. Row(s) = [worker |-> WorkerOf[s], share |-> share[s], work |-> offered[s],
                block |-> block, late |-> isLate]
  BY DEF Row
<1> HIDE DEF block, isLate
<1>4. /\ Row(s) \in Rows
      /\ Row(s).share = share[s] /\ Row(s).work = offered[s]
      /\ Row(s).block = block /\ Row(s).late = isLate
  BY <1>1, <1>2, <1>3 DEF Rows
<1> QED
  BY <1>4 DEF block, isLate

LEMMA ResultTyped ==
  ASSUME NEW x, NEW y
  PROVE  ResultFor(y, x) \in {"miss", "share", "block"}
  BY DEF ResultFor, Sized

LEMMA VardiffIsNat ==
  ASSUME NEW current \in Nat, NEW elapsed \in Nat, NEW new \in Vardiff(current, elapsed)
  PROVE  new \in Nat
<1>1. ASSUME NEW num \in Nat, NEW den \in Nat \ {0}
      PROVE  Rounded(num, den) \subseteq Nat
  BY <1>1 DEF Rounded
<1>2. current * elapsed * 8 \in Nat /\ current * 7 \in Nat /\ Target * 10 \in Nat \ {0}
  BY SharesAssumption
<1> QED
  BY <1>1, <1>2, SharesAssumption DEF Vardiff, Capped, Floored

LEMMA TypeStep == TypeOK /\ [Next]_vars => TypeOK'
<1> SUFFICES ASSUME TypeOK, [Next]_vars PROVE TypeOK'
  OBVIOUS
<1> USE SessionsAssumed DEF TypeOK, Steps, linkVars, callVars, pipeVars, lastVars
<1>1. ASSUME NEW s \in Session, Authorize(s) PROVE TypeOK'
  BY <1>1 DEF Authorize
<1>2. ASSUME NEW s \in Session, PushWork(s) PROVE TypeOK'
  BY <1>2 DEF PushWork
<1>3. ASSUME NEW s \in Session, Disconnect(s) PROVE TypeOK'
  BY <1>3 DEF Disconnect
<1>4. ASSUME NEW s \in Session, NEW x \in Share, Submit(s, x) PROVE TypeOK'
  BY <1>4 DEF Submit, Goto
<1>5. ASSUME NEW s \in Session, Take(s) PROVE TypeOK'
  <2>1. tasks' \in Seq(Session)
    BY <1>5, HeadTailProperties DEF Take
  <2> QED
    BY <1>5, <2>1 DEF Take, Goto
<1>6. ASSUME NEW s \in Session, Write(s) PROVE TypeOK'
  BY <1>6 DEF Write, Goto
<1>7. ASSUME NEW s \in Session, Restart(s) PROVE TypeOK'
  BY <1>7 DEF Restart, Goto, NewPipe
<1>8. ASSUME NEW s \in Session, StartFails(s) PROVE TypeOK'
  BY <1>8, VerdictTyped DEF StartFails, Fail, Goto, Fault
<1>9. ASSUME NEW s \in Session, Read(s) PROVE TypeOK'
  <2>1. replies' \in Seq(Share)
    BY <1>9, HeadTailProperties DEF Read
  <2>2. [says |-> ResultFor(Head(replies), share[s]), late |-> late] \in Verdicts
    BY ResultTyped DEF Verdicts
  <2>3. verdict' \in [Session -> Verdicts]
    BY <1>9, <2>2 DEF Read
  <2> QED
    BY <1>9, <2>1, <2>3 DEF Read, Goto
<1>10. ASSUME NEW s \in Session, TimeOut(s) PROVE TypeOK'
  BY <1>10, VerdictTyped DEF TimeOut, Fail, Goto, Fault, Released
<1>11. ASSUME NEW s \in Session, ReadEnd(s) PROVE TypeOK'
  BY <1>11, VerdictTyped DEF ReadEnd, Fail, Goto, Released
<1>12. ASSUME NEW s \in Session, SubmitBlock(s) PROVE TypeOK'
  BY <1>12 DEF SubmitBlock, Goto
<1>13. ASSUME NEW s \in Session, Reject(s) PROVE TypeOK'
  BY <1>13, VerdictTyped DEF Reject, Goto
<1>14. ASSUME NEW s \in Session, RecordShare(s) PROVE TypeOK'
  <2>1. rows' \subseteq Rows
    BY <1>14, RowTyped DEF RecordShare
  <2>2. tasks' \in Seq(Session)
    <3>1. Append(tasks, s) \in Seq(Session)
      BY AppendProperties
    <3>2. tasks' = tasks \/ tasks' = Append(tasks, s)
      BY <1>14 DEF RecordShare
    <3> QED
      BY <3>1, <3>2
  <2>3. pc' \in [Session -> Steps] /\ verdict' \in [Session -> Verdicts]
    BY <1>14, VerdictTyped DEF RecordShare, Goto
  <2> QED
    BY <1>14, <2>1, <2>2, <2>3 DEF RecordShare
<1>15. ASSUME NEW s \in Session, Accept(s) PROVE TypeOK'
  <2>1. PICK elapsed \in SinceLast(s) : \E new \in Vardiff(difficulty[s], elapsed) :
                difficulty' = [difficulty EXCEPT ![s] = new]
    BY <1>15 DEF Accept
  <2>2. elapsed \in Nat /\ difficulty[s] \in Nat
    BY SharesAssumption DEF SinceLast
  <2>3. difficulty' \in [Session -> Nat]
    BY <2>1, <2>2, VardiffIsNat
  <2>4. seen' \subseteq Worker /\ pc' \in [Session -> Steps]
    BY <1>15 DEF Accept, Goto
  <2> QED
    BY <1>15, <2>3, <2>4 DEF Accept
<1>16. ASSUME NEW s \in Session, RecordRaises(s) PROVE TypeOK'
  <2>1. rows' \subseteq Rows
    BY <1>16, RowTyped DEF RecordRaises
  <2> QED
    BY <1>16, <2>1, VerdictTyped DEF RecordRaises, Goto, Fault
<1>17. CASE Answer
  BY <1>17 DEF Answer
<1>18. CASE Exit
  BY <1>18 DEF Exit, Fault
<1>19. CASE UNCHANGED vars
  BY <1>19 DEF vars, linkVars, callVars, pipeVars, lastVars
<1> QED
  BY <1>1, <1>2, <1>3, <1>4, <1>5, <1>6, <1>7, <1>8, <1>9, <1>10, <1>11, <1>12,
     <1>13, <1>14, <1>15, <1>16, <1>17, <1>18, <1>19 DEF Next

-----------------------------------------------------------------------------
(* The inductive invariant *)

LEMMA Single ==
  ASSUME NEW S, NEW x \in S
  PROVE  /\ <<x>> # <<>> /\ Head(<<x>>) = x /\ Tail(<<x>>) = <<>>
         /\ Append(<<>>, x) = <<x>>
  OBVIOUS

LEMMA LockStep ==
  ASSUME TypeOK, LockInv, [Next]_vars
  PROVE  LockInv'
<1> USE SessionsAssumed DEF TypeOK, LockInv, pipeVars
<1>1. CASE UNCHANGED <<pc, holder>>
  BY <1>1
<1>2. ASSUME NEW s \in Session, NEW x \in Share, Submit(s, x) PROVE LockInv'
  BY <1>2 DEF Submit, Goto
<1>3. ASSUME NEW s \in Session, Take(s) PROVE LockInv'
  BY <1>3 DEF Take, Goto
<1>4. ASSUME NEW s \in Session, Write(s) PROVE LockInv'
  BY <1>4 DEF Write, Goto
<1>5. ASSUME NEW s \in Session, Restart(s) PROVE LockInv'
  BY <1>5 DEF Restart, Goto
<1>6. ASSUME NEW s \in Session, StartFails(s) PROVE LockInv'
  BY <1>6 DEF StartFails, Fail, Goto
<1>7. ASSUME NEW s \in Session, Read(s) PROVE LockInv'
  BY <1>7 DEF Read, Goto
<1>8. ASSUME NEW s \in Session, TimeOut(s) PROVE LockInv'
  BY <1>8 DEF TimeOut, Fail, Goto, Released
<1>9. ASSUME NEW s \in Session, ReadEnd(s) PROVE LockInv'
  BY <1>9 DEF ReadEnd, Fail, Goto, Released
<1>10. ASSUME NEW s \in Session, SubmitBlock(s) PROVE LockInv'
  BY <1>10 DEF SubmitBlock, Goto
<1>11. ASSUME NEW s \in Session, Reject(s) PROVE LockInv'
  BY <1>11 DEF Reject, Goto
<1>12. ASSUME NEW s \in Session, RecordShare(s) PROVE LockInv'
  BY <1>12 DEF RecordShare, Goto
<1>13. ASSUME NEW s \in Session, Accept(s) PROVE LockInv'
  BY <1>13 DEF Accept, Goto
<1>14. ASSUME NEW s \in Session, RecordRaises(s) PROVE LockInv'
  BY <1>14 DEF RecordRaises, Goto
<1> QED
  BY <1>1, <1>2, <1>3, <1>4, <1>5, <1>6, <1>7, <1>8, <1>9, <1>10, <1>11, <1>12,
     <1>13, <1>14 DEF Next, vars, linkVars, callVars, pipeVars, lastVars, Authorize,
     PushWork, Disconnect, Answer, Exit

LEMMA PipeStep ==
  ASSUME TypeOK, LockInv, PipeInv, [Next]_vars
  PROVE  PipeInv'
<1> USE SessionsAssumed DEF TypeOK, LockInv, PipeInv, Outstanding, callVars, pipeVars
<1>1. CASE UNCHANGED <<share, pipeVars>>
  BY <1>1
<1>2. ASSUME NEW s \in Session, NEW x \in Share, Submit(s, x) PROVE PipeInv'
  BY <1>2 DEF Submit
<1>3. ASSUME NEW s \in Session, Write(s) PROVE PipeInv'
  BY <1>3 DEF Write, Goto
<1>4. ASSUME NEW s \in Session, Restart(s) PROVE PipeInv'
  BY <1>4 DEF Restart, Goto, NewPipe
<1>5. ASSUME NEW s \in Session, StartFails(s) PROVE PipeInv'
  BY <1>5 DEF StartFails, Fail, Goto
<1>6. ASSUME NEW s \in Session, Read(s) PROVE PipeInv'
  <2>1. holder = s /\ holder' = NoOne /\ s # NoOne /\ late' = late
    BY <1>6 DEF Read
  <2>2. late = 0 => replies = <<share[s]>> /\ requests = <<>>
    BY <1>6, <2>1 DEF Read
  <2>3. late = 0 => replies' = <<>> /\ requests' = <<>>
    BY <1>6, <2>2, Single DEF Read
  <2> QED
    BY <2>1, <2>3
<1>7. ASSUME NEW s \in Session, TimeOut(s) PROVE PipeInv'
  BY <1>7 DEF TimeOut
<1>8. ASSUME NEW s \in Session, ReadEnd(s) PROVE PipeInv'
  BY <1>8 DEF ReadEnd, Released
<1>9. CASE Answer
  <2>1. ASSUME late = 0 PROVE \E s \in Session :
              holder = s /\ replies = <<>> /\ requests = <<share[s]>>
    BY <1>9, <2>1 DEF Answer
  <2>2. ASSUME late = 0, NEW s \in Session, holder = s PROVE
              replies' = <<share[s]>> /\ requests' = <<>>
    <3>1. requests = <<share[s]>> /\ replies = <<>>
      BY <2>1, <2>2
    <3> QED
      BY <1>9, <3>1, Single DEF Answer
  <2>3. UNCHANGED <<share, holder, daemon, late>>
    BY <1>9 DEF Answer
  <2> QED
    BY <2>1, <2>2, <2>3
<1>10. CASE Exit
  BY <1>10 DEF Exit
<1> QED
  BY <1>1, <1>2, <1>3, <1>4, <1>5, <1>6, <1>7, <1>8, <1>9, <1>10 DEF Next,
     vars, linkVars, callVars, pipeVars, lastVars, Authorize, PushWork,
     Disconnect, Take, SubmitBlock, Reject, RecordShare, RecordRaises, Accept

LEMMA WiderSeq ==
  ASSUME NEW S, NEW T, S \subseteq T, NEW q \in Seq(S)
  PROVE  q \in Seq(T)
  OBVIOUS

LEMMA TailIn ==
  ASSUME NEW S, NEW q \in Seq(S), q # <<>>
  PROVE  Head(q) \in S /\ Tail(q) \in Seq(S)
  BY HeadTailProperties

LEMMA AskedStep ==
  ASSUME TypeOK, AskedInv, [Next]_vars
  PROVE  AskedInv'
<1> USE DEF AskedInv, pipeVars
<1>1. CASE UNCHANGED <<requests, replies, asked>>
  BY <1>1
<1>2. ASSUME NEW s \in Session, Write(s) PROVE AskedInv'
  <2>1. asked \subseteq asked' /\ share[s] \in asked' /\ UNCHANGED replies
    BY <1>2 DEF Write
  <2>2. requests \in Seq(asked') /\ replies \in Seq(asked')
    BY <2>1, WiderSeq
  <2>3. Append(requests, share[s]) \in Seq(asked')
    BY <2>1, <2>2, AppendProperties
  <2> QED
    BY <1>2, <2>1, <2>2, <2>3 DEF Write
<1>3. ASSUME NEW s \in Session, Restart(s) PROVE AskedInv'
  BY <1>3 DEF Restart, NewPipe
<1>4. ASSUME NEW s \in Session, Read(s) PROVE AskedInv'
  BY <1>4, TailIn DEF Read
<1>5. CASE Answer
  <2>1. Head(requests) \in asked /\ Tail(requests) \in Seq(asked)
    BY <1>5, TailIn DEF Answer
  <2>2. Append(replies, Head(requests)) \in Seq(asked)
    BY <2>1, AppendProperties
  <2> QED
    BY <1>5, <2>1, <2>2 DEF Answer
<1>6. CASE Exit
  BY <1>6 DEF Exit
<1> QED
  BY <1>1, <1>2, <1>3, <1>4, <1>5, <1>6 DEF Next, vars, linkVars, callVars, lastVars,
     Authorize, PushWork, Disconnect, Submit, Take, StartFails, TimeOut, ReadEnd,
     SubmitBlock, Reject, RecordShare, RecordRaises, Accept

LEMMA OwnResult ==
  ASSUME NEW x \in Share
  PROVE  ResultFor(x, x) = Quality(x)
  BY SharesAssumption DEF ResultFor, Sized, Quality, Found, IsBlock

LEMMA AnyResult ==
  ASSUME NEW x \in Share, NEW y \in Share
  PROVE  Explained(x, ResultFor(y, x), TRUE)
<1>1. CASE y = x
  <2>1. ResultFor(y, x) = Quality(x)
    BY <1>1, OwnResult
  <2> QED
    BY <2>1 DEF Explained
<1>2. CASE y # x /\ Attempt[y] = Attempt[x]
  BY <1>2 DEF Explained, Twins
<1>3. CASE Attempt[y] # Attempt[x]
  BY <1>3 DEF Explained, ResultFor
<1> QED
  BY <1>1, <1>2, <1>3

\* The first reply is that of the reader, unless a call gave up.
LEMMA ReadIsExplained ==
  ASSUME TypeOK, LockInv, PipeInv, NEW s \in Session, Read(s)
  PROVE  /\ Head(replies) \in Share
         /\ late = 0 => Head(replies) = share[s]
         /\ Explained(share[s], ResultFor(Head(replies), share[s]), late > 0)
<1>1. Head(replies) \in Share /\ share[s] \in Share /\ late \in Nat
  BY TailIn DEF Read, TypeOK
<1>2. late = 0 => Head(replies) = share[s]
  BY Single DEF Read, LockInv, PipeInv, Outstanding
<1>3. ASSUME late = 0 PROVE Explained(share[s], ResultFor(Head(replies), share[s]), late > 0)
  <2>1. ResultFor(Head(replies), share[s]) = Quality(share[s])
    BY <1>1, <1>2, <1>3, OwnResult
  <2> QED
    BY <2>1 DEF Explained
<1>4. ASSUME late # 0 PROVE Explained(share[s], ResultFor(Head(replies), share[s]), late > 0)
  <2>1. Explained(share[s], ResultFor(Head(replies), share[s]), TRUE)
    BY <1>1, AnyResult
  <2>2. late > 0
    BY <1>1, <1>4
  <2> QED
    BY <2>1, <2>2 DEF Explained
<1> QED
  BY <1>1, <1>2, <1>3, <1>4

LEMMA VerdictStep ==
  ASSUME TypeOK, LockInv, PipeInv, VerdictInv, [Next]_vars
  PROVE  VerdictInv'
<1> USE SessionsAssumed DEF TypeOK, VerdictInv, callVars, lastVars, NoVerdict
<1>1. CASE UNCHANGED <<pc, share, verdict, rows>>
  BY <1>1
<1>2. ASSUME NEW s \in Session, NEW x \in Share, Submit(s, x) PROVE VerdictInv'
  BY <1>2 DEF Submit, Goto
<1>3. ASSUME NEW s \in Session, Take(s) PROVE VerdictInv'
  BY <1>3 DEF Take, Goto
<1>4. ASSUME NEW s \in Session, Write(s) \/ Restart(s) PROVE VerdictInv'
  BY <1>4 DEF Write, Restart, Goto
<1>5. ASSUME NEW s \in Session, Fail(s), UNCHANGED <<share, rows>> PROVE VerdictInv'
  BY <1>5 DEF Fail, Goto, Failed
<1>6. ASSUME NEW s \in Session, Read(s) PROVE VerdictInv'
  <2> DEFINE v == [says |-> ResultFor(Head(replies), share[s]), late |-> late]
  <2>1. Explained(share[s], v.says, v.late > 0)
    BY <1>6, ReadIsExplained
  <2>2. verdict' = [verdict EXCEPT ![s] = v] /\ UNCHANGED <<share, rows>>
    BY <1>6 DEF Read
  <2> HIDE DEF v
  <2> QED
    BY <1>6, <2>1, <2>2 DEF Read, Goto
<1>7. ASSUME NEW s \in Session, SubmitBlock(s) \/ Accept(s) PROVE VerdictInv'
  BY <1>7 DEF SubmitBlock, Accept, Goto
<1>8. ASSUME NEW s \in Session, Reject(s) PROVE VerdictInv'
  BY <1>8 DEF Reject, Goto
<1>9. ASSUME NEW s \in Session, RecordShare(s) PROVE VerdictInv'
  <2>1. rows' = rows \cup {Row(s)} /\ share' = share
    BY <1>9 DEF RecordShare
  <2>2. verdict[s].says = "block" => Row(s).share = share[s] /\ Row(s).block
    BY RowTyped
  <2>3. ASSUME NEW t \in Session, t # s PROVE pc'[t] = pc[t] /\ verdict'[t] = verdict[t]
    BY <1>9, <2>3 DEF RecordShare, Goto
  <2>4. verdict'[s] = NoVerdict /\ (pc'[s] = "won" => verdict[s].says = "block")
        /\ pc'[s] \in {"won", "accepted"}
    BY <1>9 DEF RecordShare, Goto
  <2>5. ASSUME NEW t \in Session
        PROVE  /\ pc'[t] # "judged" => verdict'[t] = NoVerdict
               /\ verdict'[t].says \in {"miss", "share", "block"}
                    => Explained(share'[t], verdict'[t].says, verdict'[t].late > 0)
    <3>1. CASE t = s
      BY <2>4, <3>1
    <3>2. CASE t # s
      <4>1. pc'[t] = pc[t] /\ verdict'[t] = verdict[t] /\ share'[t] = share[t]
        BY <2>1, <2>3, <3>2
      <4> QED
        BY <4>1
    <3> QED
      BY <3>1, <3>2
  <2>6. ASSUME NEW t \in Session, pc'[t] \in {"won", "submitting"}
        PROVE  \E row \in rows' : row.share = share'[t] /\ row.block
    <3>1. CASE t = s
      BY <2>1, <2>2, <2>4, <2>6, <3>1
    <3>2. CASE t # s
      <4>1. pc[t] \in {"won", "submitting"}
        BY <2>3, <2>6, <3>2
      <4>2. PICK row \in rows : row.share = share[t] /\ row.block
        BY <4>1
      <4> QED
        BY <2>1, <4>2
    <3> QED
      BY <3>1, <3>2
  <2> QED
    BY <2>5, <2>6
<1>10. ASSUME NEW s \in Session, RecordRaises(s) PROVE VerdictInv'
  <2>1. rows \subseteq rows' /\ share' = share
    BY <1>10 DEF RecordRaises
  <2> QED
    BY <1>10, <2>1 DEF RecordRaises, Goto
<1> QED
  BY <1>1, <1>2, <1>3, <1>4, <1>5, <1>6, <1>7, <1>8, <1>9, <1>10 DEF Next, vars,
     linkVars, Authorize, PushWork, Disconnect, StartFails, TimeOut, ReadEnd, Answer, Exit

\* A row that is explained may be added.
LEMMA RowExplained ==
  ASSUME TypeOK, VerdictInv, FalseOnlyByTwin, NEW s \in Session, pc[s] = "judged",
         verdict[s].says \in {"share", "block"},
         rows' = rows \cup {Row(s)}, submitted' = submitted
  PROVE  FalseOnlyByTwin'
<1>1. Explained(share[s], verdict[s].says, verdict[s].late > 0)
  BY DEF VerdictInv
<1>2. /\ Row(s).share = share[s] /\ Row(s).block = (verdict[s].says = "block")
      /\ Row(s).late = (verdict[s].late > 0)
  BY RowTyped
<1>3. (IF Row(s).block THEN "block" ELSE "share") = verdict[s].says
  BY <1>2
<1>4. verdict[s].says # Quality(Row(s).share) =>
        Row(s).late /\ \E y \in Twins(Row(s).share) : verdict[s].says = ResultFor(y, Row(s).share)
  BY <1>1, <1>2 DEF Explained
<1> QED
  BY <1>3, <1>4 DEF FalseOnlyByTwin

LEMMA AcceptStep ==
  ASSUME TypeOK, VerdictInv, FalseOnlyByTwin, [Next]_vars
  PROVE  FalseOnlyByTwin'
<1> USE DEF lastVars
<1>1. CASE UNCHANGED <<rows, submitted>>
  BY <1>1 DEF FalseOnlyByTwin
<1>2. ASSUME NEW s \in Session, SubmitBlock(s) PROVE FalseOnlyByTwin'
  <2>1. \E row \in rows : row.share = share[s] /\ row.block
    BY <1>2 DEF SubmitBlock, VerdictInv
  <2> QED
    BY <1>2, <2>1 DEF SubmitBlock, FalseOnlyByTwin
<1>3. ASSUME NEW s \in Session, RecordShare(s) PROVE FalseOnlyByTwin'
  BY <1>3, RowExplained DEF RecordShare
<1>4. ASSUME NEW s \in Session, RecordRaises(s) PROVE FalseOnlyByTwin'
  <2>1. pc[s] = "judged" /\ submitted' = submitted
        /\ (rows' = rows \/ (verdict[s].says \in {"share", "block"} /\ rows' = rows \cup {Row(s)}))
    BY <1>4 DEF RecordRaises
  <2> QED
    BY <1>1, <2>1, RowExplained
<1> QED
  BY <1>1, <1>2, <1>3, <1>4 DEF Next, vars, linkVars, callVars, pipeVars,
     Authorize, PushWork, Disconnect, Submit, Take, Write, Restart, StartFails,
     Read, TimeOut, ReadEnd, Reject, Accept, Answer, Exit

-----------------------------------------------------------------------------
(* Difficulties *)

\* A product grows with its second factor.
LEMMA ProductGrows ==
  ASSUME NEW a \in Nat, NEW b \in Nat, NEW c \in Nat, b <= c
  PROVE  a * b <= a * c
<1>1. a * c = a * b + a * (c - b)
  OBVIOUS
<1>2. a * (c - b) >= 0
  OBVIOUS
<1>3. a * b \in Int /\ a * c \in Int /\ a * (c - b) \in Int
  OBVIOUS
<1> QED
  BY <1>1, <1>2, <1>3

\* Rounding does not take a quotient of at least k below k.
LEMMA RoundedAtLeast ==
  ASSUME NEW num \in Nat, NEW den \in Nat \ {0}, NEW k \in Nat, NEW n \in Rounded(num, den),
         k * den <= num
  PROVE  n >= k
<1>1. n \in Nat /\ 2 * num - 2 * n * den <= den
  BY DEF Rounded
<1> SUFFICES ASSUME n + 1 <= k PROVE FALSE
  BY <1>1
<1>2. den * (n + 1) <= den * k
  BY <1>1, ProductGrows
<1>3. n * den \in Int /\ k * den \in Int /\ den * (n + 1) = n * den + den /\ den * k = k * den
  BY <1>1
<1>4. 2 * n * den = 2 * (n * den)
  BY <1>1
<1> QED
  BY <1>1, <1>2, <1>3, <1>4

LEMMA VardiffInBounds ==
  ASSUME NEW current \in VardiffMin .. VardiffMax, NEW elapsed \in Nat,
         NEW new \in Vardiff(current, elapsed)
  PROVE  new \in VardiffMin .. VardiffMax
<1> USE SharesAssumption
<1>1. CASE IsSlow(elapsed)
  <2>1. PICK n \in Rounded(current * elapsed * 8, Target * 10) : new = Capped(n)
    BY <1>1 DEF Vardiff
  <2>2. Target * 10 <= elapsed * 8
    BY <1>1 DEF IsSlow
  <2>3. current * (Target * 10) <= current * (elapsed * 8)
    BY <2>2, ProductGrows
  <2>4. current * elapsed * 8 = current * (elapsed * 8) /\ current * elapsed * 8 \in Nat
    OBVIOUS
  <2>5. n >= current
    <3>1. Target * 10 \in Nat \ {0} /\ current \in Nat
      OBVIOUS
    <3>2. current * (Target * 10) <= current * elapsed * 8
      BY <2>3, <2>4
    <3> QED
      BY <2>4, <3>1, <3>2, RoundedAtLeast
  <2>6. n \in Nat
    BY <2>1, <2>4 DEF Rounded
  <2> QED
    BY <2>1, <2>5, <2>6 DEF Capped
<1>2. CASE ~IsSlow(elapsed) /\ IsFast(elapsed)
  <2>1. PICK n \in Rounded(current * 7, 10) : new = Floored(n)
    BY <1>2 DEF Vardiff
  <2>2. n \in Nat /\ n <= current
    BY <2>1 DEF Rounded
  <2> QED
    BY <2>1, <2>2 DEF Floored
<1>3. CASE ~IsSlow(elapsed) /\ ~IsFast(elapsed)
  BY <1>3 DEF Vardiff
<1> QED
  BY <1>1, <1>2, <1>3

BoundsInv ==
    /\ DifficultyInBounds
    /\ \A s \in Session : offered[s] \in VardiffMin .. VardiffMax

LEMMA BoundsStep ==
  ASSUME TypeOK, BoundsInv, [Next]_vars
  PROVE  BoundsInv'
<1> USE SharesAssumption DEF TypeOK, BoundsInv, DifficultyInBounds
<1>1. CASE UNCHANGED <<difficulty, offered, rows>>
  BY <1>1
<1>2. ASSUME NEW s \in Session, PushWork(s) PROVE BoundsInv'
  BY <1>2 DEF PushWork, callVars, lastVars
<1>3. ASSUME NEW s \in Session, Disconnect(s) PROVE BoundsInv'
  BY <1>3 DEF Disconnect, callVars, lastVars
<1>4. ASSUME NEW s \in Session, NEW x \in Share, Submit(s, x) PROVE BoundsInv'
  BY <1>4 DEF Submit, linkVars, lastVars
<1>5. ASSUME NEW s \in Session, RecordShare(s) PROVE BoundsInv'
  <2>1. Row(s).work \in VardiffMin .. VardiffMax
    BY RowTyped
  <2>2. rows' = rows \cup {Row(s)} /\ UNCHANGED <<difficulty, offered>>
    BY <1>5 DEF RecordShare, linkVars, callVars
  <2> QED
    BY <2>1, <2>2
<1>6. ASSUME NEW s \in Session, Accept(s) PROVE BoundsInv'
  <2>1. PICK elapsed \in SinceLast(s) : \E new \in Vardiff(difficulty[s], elapsed) :
                difficulty' = [difficulty EXCEPT ![s] = new]
    BY <1>6 DEF Accept
  <2>2. elapsed \in Nat /\ difficulty[s] \in VardiffMin .. VardiffMax
    BY DEF SinceLast
  <2>3. PICK new \in VardiffMin .. VardiffMax :
                difficulty' = [difficulty EXCEPT ![s] = new]
    BY <2>1, <2>2, VardiffInBounds
  <2> QED
    BY <1>6, <2>3 DEF Accept, callVars, lastVars
<1>7. ASSUME NEW s \in Session, RecordRaises(s) PROVE BoundsInv'
  <2>1. Row(s).work \in VardiffMin .. VardiffMax
    BY RowTyped
  <2>2. /\ rows' \subseteq rows \cup {Row(s)} /\ offered' = offered
        /\ difficulty' = [difficulty EXCEPT ![s] = Fresh]
    BY <1>7 DEF RecordRaises, callVars
  <2> QED
    BY <2>1, <2>2
<1> QED
  BY <1>1, <1>2, <1>3, <1>4, <1>5, <1>6, <1>7 DEF Next, vars, linkVars, callVars,
     pipeVars, lastVars, Authorize, Take, Write, Restart, StartFails, Read,
     TimeOut, ReadEnd, SubmitBlock, Reject, Answer, Exit

-----------------------------------------------------------------------------
(* The refinement of Verifier *)

stage == [s \in Session |-> Stage(pc[s])]
says == [s \in Session |-> verdict[s].says]
recorded == {Paid(row) : row \in rows}

LEMMA StageMoves ==
  ASSUME TypeOK, NEW s \in Session, NEW to \in Steps, Goto(s, to)
  PROVE  stage' = [stage EXCEPT ![s] = Stage(to)]
  BY DEF TypeOK, Goto, stage

LEMMA SaysMoves ==
  ASSUME TypeOK, NEW s \in Session, NEW v,
         verdict' = [verdict EXCEPT ![s] = v]
  PROVE  says' = [says EXCEPT ![s] = v.says]
  BY DEF TypeOK, says

\* What the sessions keep, the verifier keeps: a step that changes none of it,
\* or only how far a submission got in the queue, does not show.
LEMMA Unseen ==
  ASSUME UNCHANGED <<share, verdict, rows, submitted, asked>>, stage' = stage,
         (late > 0)' = (late > 0)
  PROVE  UNCHANGED Abstract!verifier
  BY DEF stage, Abstract!verifier, Paid

LEMMA QueueUnseen ==
  ASSUME TypeOK, NEW s \in Session, NEW to \in Steps, Goto(s, to),
         Stage(to) = Stage(pc[s])
  PROVE  stage' = stage
<1>1. stage' = [stage EXCEPT ![s] = Stage(pc[s])]
  BY StageMoves
<1>2. stage[s] = Stage(pc[s])
  BY DEF stage
<1> QED
  BY <1>1, <1>2 DEF stage

LEMMA SubmitSubmits ==
  ASSUME TypeOK, NEW s \in Session, NEW x \in Share, Submit(s, x)
  PROVE  Abstract!Submit(s, x)
<1>1. stage' = [stage EXCEPT ![s] = "waiting"] /\ stage[s] = "idle"
  <2>1. stage' = [stage EXCEPT ![s] = Stage("queued")]
    BY StageMoves DEF Submit, Steps
  <2> QED
    BY <2>1 DEF Submit, stage, Stage
<1> QED
  BY <1>1 DEF Submit, Abstract!Submit, Abstract!Move, stage, pipeVars, lastVars, Paid

LEMMA WriteAsks ==
  ASSUME TypeOK, NEW s \in Session, Write(s) \/ Restart(s)
  PROVE  Abstract!Ask(s)
<1>1. stage' = [stage EXCEPT ![s] = "asked"] /\ stage[s] = "waiting"
  <2>1. stage' = [stage EXCEPT ![s] = Stage("reading")]
    BY StageMoves DEF Write, Restart, Steps
  <2> QED
    BY <2>1 DEF Write, Restart, stage, Stage
<1>2. CASE Write(s)
  BY <1>1, <1>2 DEF Write, Abstract!Ask, Abstract!Move, stage, callVars, lastVars, Paid
<1>3. CASE Restart(s)
  <2>1. (late > 0)' = FALSE
    BY <1>3 DEF Restart
  <2> QED
    BY <1>1, <1>3, <2>1 DEF Restart, Abstract!Ask, Abstract!Move, stage, callVars, lastVars, Paid
<1> QED
  BY <1>2, <1>3

LEMMA ReadJudges ==
  ASSUME SafeInv, NEW s \in Session, Read(s)
  PROVE  Abstract!Judge(s)
<1>1. stage' = [stage EXCEPT ![s] = "judged"] /\ stage[s] = "asked"
  <2>1. stage' = [stage EXCEPT ![s] = Stage("judged")]
    BY StageMoves DEF Read, Steps, SafeInv
  <2> QED
    BY <2>1 DEF Read, stage, Stage
<1> DEFINE y == Head(replies)
           v == ResultFor(y, share[s])
<1>2. says' = [says EXCEPT ![s] = v]
  BY SaysMoves DEF Read, SafeInv
<1>3. v \in Abstract!Answers(share[s])
  <2>1. y \in asked /\ y \in Share /\ share[s] \in Share
    BY TailIn, ReadIsExplained DEF Read, SafeInv, AskedInv, TypeOK
  <2>2. late = 0 => y = share[s]
    BY ReadIsExplained DEF SafeInv
  <2>3. late \in Nat
    BY DEF SafeInv, TypeOK
  <2>4. y \in IF late > 0 THEN asked ELSE {share[s]}
    BY <2>1, <2>2, <2>3
  <2>5. [z \in Share |-> [x \in Share |-> ResultFor(z, x)]][y][share[s]] = v
    BY <2>1
  <2> HIDE DEF v, y
  <2> QED
    BY <2>4, <2>5 DEF Abstract!Answers
<1>4. UNCHANGED <<share, late, asked, rows, submitted>>
  BY DEF Read, callVars, lastVars
<1> HIDE DEF v
<1> QED
  BY <1>1, <1>2, <1>3, <1>4 DEF Abstract!Judge, Abstract!Move, stage, says, Paid

LEMMA FailGivesUp ==
  ASSUME TypeOK, NEW s \in Session, Fail(s), pc[s] \in {"waiting", "reading"},
         UNCHANGED <<share, asked, rows, submitted>>, late' \in {late, late + 1}
  PROVE  Abstract!GiveUp(s)
<1>1. stage' = [stage EXCEPT ![s] = "judged"] /\ stage[s] \in {"waiting", "asked"}
  <2>1. stage' = [stage EXCEPT ![s] = Stage("judged")]
    BY StageMoves DEF Fail, Steps
  <2> QED
    BY <2>1 DEF stage, Stage
<1>2. says' = [says EXCEPT ![s] = "error"]
  <2>1. says' = [says EXCEPT ![s] = Failed.says]
    BY SaysMoves DEF Fail
  <2> QED
    BY <2>1 DEF Failed
<1>3. (late > 0)' \in {late > 0, TRUE}
  <2>1. CASE late' = late
    BY <2>1
  <2>2. CASE late' = late + 1
    <3>1. late' > 0
      BY <2>2 DEF TypeOK
    <3> QED
      BY <3>1
  <2> QED
    BY <2>1, <2>2
<1> QED
  BY <1>1, <1>2, <1>3 DEF Abstract!GiveUp, Abstract!Move, stage, says, Paid

LEMMA RejectRefuses ==
  ASSUME TypeOK, NEW s \in Session, Reject(s)
  PROVE  Abstract!Refuse(s)
<1>1. stage' = [stage EXCEPT ![s] = "idle"] /\ stage[s] = "judged"
  <2>1. stage' = [stage EXCEPT ![s] = Stage("idle")]
    BY StageMoves DEF Reject, Steps
  <2> QED
    BY <2>1 DEF Reject, stage, Stage
<1>2. says' = [says EXCEPT ![s] = "none"] /\ says[s] \in {"error", "miss"}
  <2>1. says' = [says EXCEPT ![s] = NoVerdict.says]
    BY SaysMoves DEF Reject
  <2> QED
    BY <2>1 DEF Reject, NoVerdict, says
<1> QED
  BY <1>1, <1>2 DEF Reject, Abstract!Refuse, Abstract!Move, stage, says, pipeVars,
     callVars, lastVars, Paid

\* A row that is added is one that is paid.
LEMMA RowPays ==
  ASSUME TypeOK, NEW s \in Session
  PROVE  /\ Abstract!Paid(s) = {Paid(Row(s))}
         /\ rows' = rows \cup {Row(s)} => recorded' = recorded \cup {Paid(Row(s))}
<1>1. Row(s).worker = WorkerOf[s] /\ Row(s).share = share[s]
  BY DEF Row
<1>2. Row(s).block = (says[s] = "block")
  BY RowTyped DEF says
<1>3. Abstract!Paid(s) = {Paid(Row(s))}
  BY <1>1, <1>2 DEF Abstract!Paid, Paid, says
<1>4. ASSUME rows' = rows \cup {Row(s)} PROVE recorded' = recorded \cup {Paid(Row(s))}
  BY <1>4 DEF recorded
<1> QED
  BY <1>3, <1>4

LEMMA RecordRecords ==
  ASSUME TypeOK, NEW s \in Session, RecordShare(s)
  PROVE  Abstract!Record(s)
<1> DEFINE block == verdict[s].says = "block"
<1>1. /\ stage' = [stage EXCEPT ![s] = IF says[s] = "block" THEN "won" ELSE "idle"]
      /\ stage[s] = "judged"
  <2>1. /\ block => stage' = [stage EXCEPT ![s] = Stage("won")]
        /\ ~block => stage' = [stage EXCEPT ![s] = Stage("accepted")]
    BY StageMoves DEF RecordShare, Steps
  <2> QED
    BY <2>1 DEF RecordShare, stage, says, Stage
<1>2. says' = [says EXCEPT ![s] = "none"] /\ says[s] \in {"share", "block"}
  <2>1. says' = [says EXCEPT ![s] = NoVerdict.says]
    BY SaysMoves DEF RecordShare
  <2> QED
    BY <2>1 DEF RecordShare, NoVerdict, says
<1>3. recorded' = recorded \cup Abstract!Paid(s)
  BY RowPays DEF RecordShare
<1>4. UNCHANGED <<share, late, asked, submitted>>
  BY DEF RecordShare, callVars, pipeVars
<1> QED
  BY <1>1, <1>2, <1>3, <1>4 DEF Abstract!Record, Abstract!Move, stage, says, recorded

LEMMA RaiseHangsUp ==
  ASSUME TypeOK, NEW s \in Session, RecordRaises(s)
  PROVE  Abstract!HangUp(s)
<1>1. stage' = [stage EXCEPT ![s] = "idle"] /\ stage[s] = "judged"
  <2>1. stage' = [stage EXCEPT ![s] = Stage("idle")]
    BY StageMoves DEF RecordRaises, Steps
  <2> QED
    BY <2>1 DEF RecordRaises, stage, Stage
<1>2. says' = [says EXCEPT ![s] = "none"]
  <2>1. says' = [says EXCEPT ![s] = NoVerdict.says]
    BY SaysMoves DEF RecordRaises
  <2> QED
    BY <2>1 DEF NoVerdict
<1>3. \/ recorded' = recorded
      \/ says[s] \in {"share", "block"} /\ recorded' = recorded \cup Abstract!Paid(s)
  <2>1. CASE rows' = rows
    BY <2>1 DEF recorded
  <2>2. CASE verdict[s].says \in {"share", "block"} /\ rows' = rows \cup {Row(s)}
    BY <2>2, RowPays DEF says
  <2> QED
    BY <2>1, <2>2 DEF RecordRaises
<1>4. UNCHANGED <<share, late, asked, submitted>>
  BY DEF RecordRaises, callVars, pipeVars
<1> QED
  BY <1>1, <1>2, <1>3, <1>4 DEF Abstract!HangUp, Abstract!Move, stage, says, recorded

LEMMA BlockSubmits ==
  ASSUME TypeOK, NEW s \in Session, SubmitBlock(s)
  PROVE  Abstract!SubmitBlock(s)
<1>1. stage' = [stage EXCEPT ![s] = "idle"] /\ stage[s] = "won"
  <2>1. stage' = [stage EXCEPT ![s] = Stage("accepted")]
    BY StageMoves DEF SubmitBlock, Steps
  <2> QED
    BY <2>1 DEF SubmitBlock, stage, Stage
<1> QED
  BY <1>1 DEF SubmitBlock, Abstract!SubmitBlock, Abstract!Move, stage, callVars, pipeVars, Paid

\* Every step is a step of the verifier, or does not show.
LEMMA NextVerifies ==
  ASSUME SafeInv, [Next]_vars
  PROVE  [Abstract!Next]_(Abstract!verifier)
<1>0. TypeOK
  BY DEF SafeInv
<1>1. ASSUME NEW s \in Session, NEW x \in Share, Submit(s, x) PROVE Abstract!Next
  BY <1>0, <1>1, SubmitSubmits DEF Abstract!Next
<1>2. ASSUME NEW s \in Session, Write(s) \/ Restart(s) PROVE Abstract!Next
  BY <1>0, <1>2, WriteAsks DEF Abstract!Next
<1>3. ASSUME NEW s \in Session, Read(s) PROVE Abstract!Next
  BY <1>3, ReadJudges DEF Abstract!Next
<1>4. ASSUME NEW s \in Session, StartFails(s) \/ TimeOut(s) \/ ReadEnd(s)
      PROVE  Abstract!Next
  <2>1. Abstract!GiveUp(s)
    BY <1>0, <1>4, FailGivesUp DEF StartFails, TimeOut, ReadEnd, callVars, lastVars
  <2> QED
    BY <2>1 DEF Abstract!Next
<1>5. ASSUME NEW s \in Session, Reject(s) PROVE Abstract!Next
  BY <1>0, <1>5, RejectRefuses DEF Abstract!Next
<1>6. ASSUME NEW s \in Session, RecordShare(s) PROVE Abstract!Next
  BY <1>0, <1>6, RecordRecords DEF Abstract!Next
<1>7. ASSUME NEW s \in Session, RecordRaises(s) PROVE Abstract!Next
  BY <1>0, <1>7, RaiseHangsUp DEF Abstract!Next
<1>8. ASSUME NEW s \in Session, SubmitBlock(s) PROVE Abstract!Next
  BY <1>0, <1>8, BlockSubmits DEF Abstract!Next
<1>9. ASSUME NEW s \in Session, Take(s) \/ Accept(s)
      PROVE  UNCHANGED Abstract!verifier
  <2>1. stage' = stage
    BY <1>0, <1>9, QueueUnseen DEF Take, Accept, Steps, Stage
  <2> QED
    BY <1>9, <2>1, Unseen DEF Take, Accept, callVars, pipeVars, lastVars
<1>10. CASE UNCHANGED <<pc, share, verdict, late, asked, rows, submitted>>
  BY <1>10, Unseen DEF stage
<1> QED
  BY <1>1, <1>2, <1>3, <1>4, <1>5, <1>6, <1>7, <1>8, <1>9, <1>10 DEF Next, vars,
     linkVars, callVars, pipeVars, lastVars, Authorize, PushWork, Disconnect, Answer, Exit

-----------------------------------------------------------------------------
(* Nobody waits for ever: the safety half of EveryShareAnswered *)

\* Who runs, or is waited for by the solver: the guards of the actions that
\* Fairness lists, spelled out.
CanMove(s) ==
    \/ pc[s] \in {"submitting", "accepted"}
    \/ pc[s] = "judged" /\ (verdict[s].says \in {"error", "miss"} \/ s \notin pushing)
    \/ s \in pushing
    \/ pc[s] = "waiting" /\ holder = NoOne
    \/ /\ pc[s] = "reading"
       /\ replies # <<>> \/ daemon = "down" \/ (daemon = "up" /\ requests # <<>>)
    \/ /\ tasks # <<>> /\ s = Head(tasks) /\ pc[s] \in {"queued", "won"}
       /\ Cardinality(Busy) < Threads

SomeoneMoves == (\E s \in Session : pc[s] # "idle") => \E s \in Session : CanMove(s)

\* The queue of the executor holds each submission that waits for a thread, once.
QueueInv ==
    /\ \A i \in 1 .. Len(tasks) : pc[tasks[i]] \in {"queued", "won"}
    /\ \A i, j \in 1 .. Len(tasks) : tasks[i] = tasks[j] => i = j
    /\ \A s \in Session : pc[s] \in {"queued", "won"} =>
                            \E i \in 1 .. Len(tasks) : tasks[i] = s

\* Who reads has a process to read from, and a solver that runs owes a reply.
AwaitInv ==
    holder # NoOne => /\ daemon # "none"
                      /\ daemon = "up" => requests # <<>> \/ replies # <<>>
JudgedInv == \A s \in Session : pc[s] = "judged" => verdict[s].says # "none"

LiveInv == QueueInv /\ AwaitInv /\ JudgedInv

LEMMA Queued ==
  ASSUME TypeOK, QueueInv, NEW s \in Session, NEW to \in Steps, Goto(s, to),
         tasks' = tasks, pc[s] \notin {"queued", "won"}, to \notin {"queued", "won"}
  PROVE  QueueInv'
<1>1. \A i \in 1 .. Len(tasks) : tasks[i] \in Session
  BY DEF TypeOK
<1>1a. \A i \in 1 .. Len(tasks) : tasks[i] # s
  BY DEF QueueInv
<1> QED
  BY <1>1, <1>1a DEF TypeOK, QueueInv, Goto

LEMMA Enqueued ==
  ASSUME TypeOK, QueueInv, NEW s \in Session, NEW to \in {"queued", "won"}, Goto(s, to),
         tasks' = Append(tasks, s), pc[s] \notin {"queued", "won"}
  PROVE  QueueInv'
<1>1. \A i \in 1 .. Len(tasks) : tasks[i] \in Session
  BY DEF TypeOK
<1>1a. \A i \in 1 .. Len(tasks) : tasks[i] # s
  BY DEF QueueInv
<1>2. /\ Len(tasks') = Len(tasks) + 1 /\ tasks'[Len(tasks) + 1] = s
      /\ \A i \in 1 .. Len(tasks) : tasks'[i] = tasks[i]
      /\ Len(tasks) \in Nat
  BY AppendProperties DEF TypeOK
<1>3. pc'[s] \in {"queued", "won"} /\ \A t \in Session : t # s => pc'[t] = pc[t]
  BY DEF TypeOK, Goto
<1>4. \A i \in 1 .. Len(tasks') : i = Len(tasks) + 1 \/ i \in 1 .. Len(tasks)
  BY <1>2
<1>5. \A i \in 1 .. Len(tasks') : pc'[tasks'[i]] \in {"queued", "won"}
  BY <1>1, <1>1a, <1>2, <1>3, <1>4 DEF QueueInv
<1>6. \A i, j \in 1 .. Len(tasks') : tasks'[i] = tasks'[j] => i = j
  BY <1>1, <1>1a, <1>2, <1>4 DEF QueueInv
<1>7. \A t \in Session : pc'[t] \in {"queued", "won"} =>
            \E i \in 1 .. Len(tasks') : tasks'[i] = t
  BY <1>1, <1>2, <1>3 DEF QueueInv
<1> QED
  BY <1>5, <1>6, <1>7 DEF QueueInv

LEMMA Dequeued ==
  ASSUME TypeOK, QueueInv, NEW s \in Session, Take(s)
  PROVE  QueueInv'
<1>1. /\ tasks \in Seq(Session) /\ tasks # <<>> /\ s = tasks[1] /\ tasks' = Tail(tasks)
  BY DEF TypeOK, Take
<1>2. /\ Len(tasks') = Len(tasks) - 1 /\ Len(tasks) \in Nat \ {0}
      /\ \A i \in 1 .. Len(tasks) - 1 : tasks'[i] = tasks[i + 1]
  BY <1>1, HeadTailProperties
<1>3. \A i \in 1 .. Len(tasks') :
            /\ i + 1 \in 1 .. Len(tasks) /\ tasks'[i] = tasks[i + 1]
            /\ tasks'[i] \in Session /\ tasks'[i] # s
  BY <1>1, <1>2 DEF QueueInv
<1>4. \A t \in Session : IF t = s THEN pc'[t] \notin {"queued", "won"} ELSE pc'[t] = pc[t]
  BY DEF TypeOK, Take, Goto
<1>5. \A i \in 1 .. Len(tasks') : pc'[tasks'[i]] \in {"queued", "won"}
  BY <1>3, <1>4 DEF QueueInv
<1>6. \A i, j \in 1 .. Len(tasks') : tasks'[i] = tasks'[j] => i = j
  <2>1. ASSUME NEW i \in 1 .. Len(tasks'), NEW j \in 1 .. Len(tasks'), tasks'[i] = tasks'[j]
        PROVE  i = j
    BY <1>2, <1>3, <2>1 DEF QueueInv
  <2> QED
    BY <2>1
<1>7. ASSUME NEW t \in Session, pc'[t] \in {"queued", "won"}
      PROVE  \E i \in 1 .. Len(tasks') : tasks'[i] = t
  <2>1. t # s /\ pc[t] \in {"queued", "won"}
    BY <1>4, <1>7
  <2>2. PICK i \in 1 .. Len(tasks) : tasks[i] = t
    BY <2>1 DEF QueueInv
  <2>3. i - 1 \in 1 .. Len(tasks') /\ tasks'[i - 1] = t
    BY <1>1, <1>2, <2>1, <2>2
  <2> QED
    BY <2>3
<1> QED
  BY <1>5, <1>6, <1>7 DEF QueueInv

LEMMA QueueStep ==
  ASSUME TypeOK, QueueInv, [Next]_vars
  PROVE  QueueInv'
<1>1. CASE UNCHANGED <<pc, tasks>>
  BY <1>1 DEF QueueInv
<1>2. ASSUME NEW s \in Session, NEW x \in Share, Submit(s, x) PROVE QueueInv'
  BY <1>2, Enqueued DEF Submit
<1>3. ASSUME NEW s \in Session, Take(s) PROVE QueueInv'
  BY <1>3, Dequeued
<1>4. ASSUME NEW s \in Session, RecordShare(s) PROVE QueueInv'
  <2>1. CASE verdict[s].says = "block"
    BY <1>4, <2>1, Enqueued DEF RecordShare
  <2>2. CASE verdict[s].says # "block"
    BY <1>4, <2>2, Queued DEF RecordShare, Steps
  <2> QED
    BY <2>1, <2>2
<1>5. ASSUME NEW s \in Session, Write(s) \/ Restart(s) \/ StartFails(s) \/ Read(s)
             \/ TimeOut(s) \/ ReadEnd(s) \/ SubmitBlock(s) \/ Reject(s)
             \/ RecordRaises(s) \/ Accept(s)
      PROVE  QueueInv'
  <2>1. PICK to \in {"reading", "judged", "accepted", "idle"} : Goto(s, to)
    BY <1>5 DEF Write, Restart, StartFails, Read, TimeOut, ReadEnd, SubmitBlock, Reject,
       RecordRaises, Accept, Fail
  <2>2. tasks' = tasks /\ pc[s] \notin {"queued", "won"}
    BY <1>5 DEF Write, Restart, StartFails, Read, TimeOut, ReadEnd, SubmitBlock, Reject,
       RecordRaises, Accept
  <2> QED
    BY <2>1, <2>2, Queued DEF Steps
<1> QED
  BY <1>1, <1>2, <1>3, <1>4, <1>5 DEF Next, vars, linkVars, callVars, pipeVars, lastVars,
     Authorize, PushWork, Disconnect, Answer, Exit

LEMMA Appended ==
  ASSUME NEW queue \in Seq(Share), NEW x \in Share
  PROVE  Append(queue, x) # <<>>
  BY AppendProperties

LEMMA AwaitStep ==
  ASSUME TypeOK, AwaitInv, [Next]_vars
  PROVE  AwaitInv'
<1> USE SessionsAssumed DEF TypeOK, AwaitInv, pipeVars
<1>1. CASE UNCHANGED pipeVars
  BY <1>1
<1>2. ASSUME NEW s \in Session, Write(s) PROVE AwaitInv'
  <2>1. requests' = Append(requests, share[s]) /\ daemon' = "up"
    BY <1>2 DEF Write
  <2>2. requests' # <<>>
    BY <2>1, Appended
  <2> QED
    BY <2>1, <2>2
<1>3. ASSUME NEW s \in Session, Restart(s) PROVE AwaitInv'
  BY <1>3, Single DEF Restart
<1>4. ASSUME NEW s \in Session, StartFails(s) PROVE AwaitInv'
  BY <1>4 DEF StartFails
<1>5. ASSUME NEW s \in Session, Read(s) \/ TimeOut(s) \/ ReadEnd(s) PROVE AwaitInv'
  BY <1>5 DEF Read, TimeOut, ReadEnd, Released
<1>6. CASE Answer
  <2>1. Head(requests) \in Share /\ replies' = Append(replies, Head(requests))
    BY <1>6 DEF Answer
  <2>2. replies' # <<>>
    BY <2>1, Appended
  <2> QED
    BY <1>6, <2>2 DEF Answer
<1>7. CASE Exit
  BY <1>7 DEF Exit
<1> QED
  BY <1>1, <1>2, <1>3, <1>4, <1>5, <1>6, <1>7 DEF Next, vars, Authorize, PushWork,
     Disconnect, Submit, Take, SubmitBlock, Reject, RecordShare, RecordRaises, Accept

LEMMA JudgedStep ==
  ASSUME TypeOK, JudgedInv, [Next]_vars
  PROVE  JudgedInv'
<1> USE SessionsAssumed DEF TypeOK, JudgedInv
<1>1. CASE UNCHANGED <<pc, verdict>>
  BY <1>1
<1>2. ASSUME NEW s \in Session, NEW x \in Share, Submit(s, x) PROVE JudgedInv'
  BY <1>2 DEF Submit, Goto
<1>3. ASSUME NEW s \in Session, Take(s) \/ Write(s) \/ Restart(s) \/ SubmitBlock(s) \/ Accept(s)
      PROVE  JudgedInv'
  BY <1>3 DEF Take, Write, Restart, SubmitBlock, Accept, Goto
<1>4. ASSUME NEW s \in Session, Fail(s) PROVE JudgedInv'
  BY <1>4 DEF Fail, Failed, Goto
<1>5. ASSUME NEW s \in Session, Read(s) PROVE JudgedInv'
  BY <1>5, ResultTyped DEF Read, Goto
<1>6. ASSUME NEW s \in Session, Reject(s) \/ RecordShare(s) \/ RecordRaises(s)
      PROVE  JudgedInv'
  <2>1. PICK to \in {"idle", "won", "accepted"} : pc' = [pc EXCEPT ![s] = to]
    BY <1>6 DEF Reject, RecordShare, RecordRaises, Goto
  <2>2. verdict' = [verdict EXCEPT ![s] = NoVerdict]
    BY <1>6 DEF Reject, RecordShare, RecordRaises
  <2> QED
    BY <2>1, <2>2
<1> QED
  BY <1>1, <1>2, <1>3, <1>4, <1>5, <1>6 DEF Next, vars, linkVars, callVars, pipeVars,
     lastVars, Authorize, PushWork, Disconnect, StartFails, TimeOut, ReadEnd, Answer, Exit

LEMMA FirstOf ==
  ASSUME NEW S, NEW q \in Seq(S), NEW i \in 1 .. Len(q)
  PROVE  1 \in 1 .. Len(q) /\ q # <<>> /\ Head(q) = q[1] /\ q[1] \in S
<1>1. Len(q) \in Nat
  OBVIOUS
<1>2. 1 \in 1 .. Len(q)
  BY <1>1
<1> QED
  BY <1>2

\* Who waits for a thread waits for one that is busy, who waits for the lock
\* for its holder, and the holder for a solver that runs or has closed its pipe.
LEMMA WaitsForAnother ==
  ASSUME TypeOK, LockInv, LiveInv
  PROVE  SomeoneMoves
<1> USE SessionsAssumed DEF TypeOK
<1> SUFFICES ASSUME NEW s \in Session, pc[s] # "idle"
             PROVE  \E t \in Session : CanMove(t)
  BY DEF SomeoneMoves
<1>1. ASSUME NEW t \in Session, pc[t] = "reading" PROVE CanMove(t)
  BY <1>1 DEF CanMove, LiveInv, AwaitInv, LockInv
<1>2. ASSUME NEW t \in Session, pc[t] = "waiting" PROVE \E u \in Session : CanMove(u)
  BY <1>1, <1>2 DEF CanMove, LockInv
<1>3. CASE pc[s] \in {"submitting", "accepted", "judged"}
  BY <1>3 DEF CanMove
<1>4. CASE pc[s] \in {"queued", "won"}
  <2>1. tasks # <<>> /\ Head(tasks) \in Session /\ pc[Head(tasks)] \in {"queued", "won"}
    <3>1. tasks \in Seq(Session)
      OBVIOUS
    <3>2. PICK i \in 1 .. Len(tasks) : tasks[i] = s
      BY <1>4 DEF LiveInv, QueueInv
    <3>3. 1 \in 1 .. Len(tasks)
      BY <3>1, <3>2, FirstOf
    <3>4. tasks # <<>> /\ Head(tasks) = tasks[1] /\ tasks[1] \in Session
      BY <3>1, <3>2, FirstOf
    <3>5. pc[tasks[1]] \in {"queued", "won"}
      BY <3>3 DEF LiveInv, QueueInv
    <3> QED
      BY <3>4, <3>5
  <2>2. CASE Cardinality(Busy) < Threads
    BY <2>1, <2>2 DEF CanMove
  <2>3. CASE ~(Cardinality(Busy) < Threads)
    <3>1. Busy # {}
      <4>1. Cardinality({}) < Threads
        BY FS_EmptySet, SharesAssumption
      <4> QED
        BY <2>3, <4>1
    <3>2. PICK t \in Session : pc[t] \in {"waiting", "reading", "submitting"}
      BY <3>1 DEF Busy
    <3> QED
      BY <1>1, <1>2, <3>2 DEF CanMove
  <2> QED
    BY <2>2, <2>3
<1> QED
  BY <1>1, <1>2, <1>3, <1>4 DEF Steps

-----------------------------------------------------------------------------
(* The theorems *)

LEMMA SafeStep == SafeInv /\ [Next]_vars => SafeInv'
  BY TypeStep, LockStep, PipeStep, AskedStep, VerdictStep, AcceptStep DEF SafeInv

LEMMA SafeInit == Init => SafeInv
<1> SUFFICES ASSUME Init PROVE SafeInv
  OBVIOUS
<1>1. TypeOK
  BY InitTypes
<1>2. LockInv /\ PipeInv /\ AskedInv
  BY SharesAssumption DEF Init, LockInv, PipeInv, AskedInv
<1>3. VerdictInv /\ FalseOnlyByTwin
  BY SharesAssumption DEF Init, VerdictInv, FalseOnlyByTwin, NoVerdict
<1> QED
  BY <1>1, <1>2, <1>3 DEF SafeInv

LEMMA AlwaysSafe == Spec => []SafeInv
  BY SafeInit, SafeStep, PTL DEF Spec

\* Whatever requests, replies and rows pile up, each keeps its type.
THEOREM SharesTyped == Spec => []TypeOK
<1>1. SafeInv => TypeOK
  BY DEF SafeInv
<1> QED
  BY <1>1, AlwaysSafe, PTL

\* Whatever threads, timeouts, exits and raising commits interleave, a share is
\* recorded for what its own digest is worth; the only exception there is are
\* the results that a solver still owes after a call gave up, and these only for
\* a share of another job with the same nonce and time (share_validator.py:198).
THEOREM FalseAcceptsHaveTwins == Spec => []FalseOnlyByTwin
<1>1. SafeInv => FalseOnlyByTwin
  BY DEF SafeInv
<1> QED
  BY <1>1, AlwaysSafe, PTL

\* Until a call gives up on the daemon, each share is judged by its own reply,
\* and a new daemon is in step again (the lock of _solve, _ensure_daemon).
THEOREM JudgedByOwnReply == Spec => []TrueInStep
<1>1. SafeInv => TrueInStep
  BY DEF SafeInv, VerdictInv, TrueInStep, Explained
<1> QED
  BY <1>1, AlwaysSafe, PTL

\* The lock, the pipes, the executor and a solver that exits and is restarted
\* are the verifier of Verifier.tla: every submission gets the verdict of its
\* own share or an error, and only a call that gave up lets it be behind, when
\* it may answer with the result of another share the same solver was asked.
THEOREM SharesImplementVerifier == Spec => ImplementsVerifier
<1>1. Init => Abstract!Init
  BY SharesAssumption DEF Init, Abstract!Init, NoVerdict, Stage
<1>2. SafeInv /\ [Next]_vars => [Abstract!Next]_(Abstract!verifier)
  BY NextVerifies
<1> QED
  BY <1>1, <1>2, AlwaysSafe, PTL DEF Spec, Abstract!Spec, ImplementsVerifier

\* However few threads there are, whoever holds the lock and whatever the
\* solver does, the sessions are never all waiting: a submission that is not
\* answered waits for a thread, a holder of the lock or a reply that comes.
THEOREM NobodyWaitsInVain == Spec => []SomeoneMoves
<1>1. Init => LiveInv
  BY SharesAssumption DEF Init, LiveInv, QueueInv, AwaitInv, JudgedInv
<1>2. SafeInv /\ LiveInv /\ [Next]_vars => LiveInv'
  BY QueueStep, AwaitStep, JudgedStep DEF SafeInv, LiveInv
<1>3. SafeInv /\ LiveInv => SomeoneMoves
  BY WaitsForAnother DEF SafeInv
<1> QED
  BY <1>1, <1>2, <1>3, AlwaysSafe, PTL DEF Spec

\* Whatever times pass between shares, _vardiff keeps every difficulty, told
\* or recorded, within vardiff_min and vardiff_max.
THEOREM DifficultyBounded == Spec => []DifficultyInBounds
<1>1. Init => BoundsInv
  BY SharesAssumption DEF Init, BoundsInv, DifficultyInBounds
<1>2. TypeOK /\ BoundsInv /\ [Next]_vars => BoundsInv'
  BY BoundsStep
<1>3. BoundsInv => DifficultyInBounds
  BY DEF BoundsInv
<1> QED
  BY <1>1, <1>2, <1>3, SharesTyped, PTL DEF Spec

=============================================================================
