---------------------------- MODULE LedgerProofs ----------------------------
(***************************************************************************)
(* Theorems about Ledger for every set of addresses, submissions, blocks   *)
(* and awards, and every maturity, minimum, fee and number of faults.      *)
(***************************************************************************)
EXTENDS Ledger, SumLemmas, TLAPS

-----------------------------------------------------------------------------
(* The payout thread *)

\* The payout thread works through rows that exist, one at a time, and never
\* holds an amount larger than the balance: only the thread itself takes from
\* a balance, mature_round only adds.
PayInv ==
    /\ payTodo \subseteq row
    /\ InFlightCovered
    /\ payStep = "sleep" => payTodo = {}
    /\ payStep \in {"sleep", "send"} => payAddr = Nobody
    /\ payStep \in {"record", "debit"} => payAddr \in payTodo

-----------------------------------------------------------------------------
(* Type correctness *)

LEMMA InitType == Init => TypeOK
  BY LedgerAssumption DEF Init, TypeOK, Zero

LEMMA TaskType ==
  ASSUME TypeOK, NEW t \in Task, TaskStep(t)
  PROVE  TypeOK'
<1>1. CASE Submit(t)
  BY <1>1
  DEF TypeOK, Submit, Goto, taskVars, dbRounds, dbBalances,
      dbPayouts, pollVars, payVars, nodeVars
<1>2. CASE SubmitRefused(t)
  BY <1>2
  DEF TypeOK, SubmitRefused, StepAfter, Goto, taskVars, dbRounds, dbBalances,
      dbPayouts, pollVars, payVars, nodeVars
<1>3. CASE SubmitReplyLost(t)
  BY <1>3, LedgerAssumption
  DEF TypeOK, SubmitReplyLost, AtMostFaults, Goto, taskVars, dbRounds, dbBalances,
      dbPayouts, pollVars, payVars, nodeVars
<1>4. CASE ComputeCredits(t)
  BY <1>4, LedgerAssumption
  DEF TypeOK, ComputeCredits, Goto, taskVars, dbRounds, dbBalances,
      dbPayouts, pollVars, payVars, nodeVars
<1>5. CASE RecordBlock(t)
  BY <1>5
  DEF TypeOK, RecordBlock, Goto, taskVars, dbRounds, dbBalances,
      dbPayouts, pollVars, payVars, nodeVars
<1>6. CASE CreateMiningRound(t)
  BY <1>6
  DEF TypeOK, CreateMiningRound, Goto, taskVars, dbRounds, dbBalances,
      dbPayouts, pollVars, payVars, nodeVars
<1>7. CASE AddImmatureCredits(t)
  BY <1>7
  DEF TypeOK, AddImmatureCredits, Added, Goto, taskVars, dbRounds, dbBalances,
      dbPayouts, pollVars, payVars, nodeVars
<1>8. CASE CommitFails(t)
  BY <1>8, LedgerAssumption
  DEF TypeOK, CommitFails, AtMostFaults, Goto, taskVars, dbRounds, dbBalances,
      dbPayouts, pollVars, payVars, nodeVars
<1> QED
  BY <1>1, <1>2, <1>3, <1>4, <1>5, <1>6, <1>7, <1>8 DEF TaskStep

LEMMA PollType ==
  ASSUME TypeOK, PollStep
  PROVE  TypeOK'
<1>1. CASE PollStart
  BY <1>1
  DEF TypeOK, PollStart, Pending, taskVars, dbRounds, dbBalances,
      dbPayouts, pollVars, payVars, nodeVars
<1>2. CASE \E t \in Task : PollFetch(t)
  BY <1>2, LedgerAssumption
  DEF TypeOK, PollFetch, taskVars, dbRounds, dbBalances,
      dbPayouts, pollVars, payVars, nodeVars
<1>3. CASE \E t \in Task : PollError(t)
  BY <1>3
  DEF TypeOK, PollError, Skip, NextRound, taskVars, dbRounds, dbBalances,
      dbPayouts, pollVars, payVars, nodeVars
<1>4. CASE PollUpdate
  BY <1>4
  DEF TypeOK, PollUpdate, NextRound, IsMature, taskVars, dbRounds, dbBalances,
      dbPayouts, pollVars, payVars, nodeVars
<1>5. CASE MatureRound
  BY <1>5
  DEF TypeOK, MatureRound, NextRound, Clamp, taskVars, dbRounds, dbBalances,
      dbPayouts, pollVars, payVars, nodeVars
<1> QED
  BY <1>1, <1>2, <1>3, <1>4, <1>5 DEF PollStep

LEMMA PayType ==
  ASSUME TypeOK, PayStep, PayInv
  PROVE  TypeOK'
<1>1. CASE PayStart
  BY <1>1
  DEF TypeOK, PayStart, Payable, taskVars, dbRounds, dbBalances,
      dbPayouts, pollVars, payVars, nodeVars
<1>2. CASE \E a \in Addr : DryRunPayout(a)
  BY <1>2
  DEF TypeOK, DryRunPayout, taskVars, dbRounds, dbBalances,
      dbPayouts, pollVars, payVars, nodeVars
<1>3. CASE \E a \in Addr : SendToAddress(a)
  BY <1>3, LedgerAssumption
  DEF TypeOK, SendToAddress, WalletSends, taskVars, dbRounds, dbBalances,
      dbPayouts, pollVars, payVars, nodeVars
<1>4. CASE \E a \in Addr : SendReplyLost(a)
  BY <1>4, LedgerAssumption
  DEF TypeOK, SendReplyLost, WalletSends, NextRow, Rest, AtMostFaults, Zero, taskVars, dbRounds, dbBalances,
      dbPayouts, pollVars, payVars, nodeVars
<1>5. CASE \E a \in Addr : SendRejected(a)
  BY <1>5
  DEF TypeOK, SendRejected, NextRow, Rest, Zero, taskVars, dbRounds, dbBalances,
      dbPayouts, pollVars, payVars, nodeVars
<1>6. CASE \E a \in Addr : SendErrored(a)
  BY <1>6
  DEF TypeOK, SendErrored, NextRow, Rest, Zero, taskVars, dbRounds, dbBalances,
      dbPayouts, pollVars, payVars, nodeVars
<1>7. CASE RecordPayout
  BY <1>7
  DEF TypeOK, RecordPayout, PayInv, taskVars, dbRounds, dbBalances,
      dbPayouts, pollVars, payVars, nodeVars
<1>8. CASE DebitBalance
  BY <1>8
  DEF TypeOK, DebitBalance, DebitAmount, NextRow, Rest, Clamp, Zero, PayInv, taskVars, dbRounds, dbBalances,
      dbPayouts, pollVars, payVars, nodeVars
<1> QED
  BY <1>1, <1>2, <1>3, <1>4, <1>5, <1>6, <1>7, <1>8 DEF PayStep

LEMMA BuriedType ==
  ASSUME TypeOK
  PROVE  /\ Buried \in [Block -> -1 .. Maturity]
         /\ \A b \in Block : depth[b] >= Maturity => Buried[b] = depth[b]
         /\ \A b \in Block : depth[b] # 0 <=> Buried[b] # 0
  BY LedgerAssumption DEF TypeOK, Buried

LEMMA NodeType ==
  ASSUME TypeOK, NodeStep
  PROVE  TypeOK'
<1>1. CASE \E t \in Task : NodeAccepts(t)
  <2>1. PICK t \in Task : NodeAccepts(t)
    BY <1>1
  <2>2. depth' \in [Block -> -1 .. Maturity]
    <3>1. 1 \in -1 .. Maturity
      BY LedgerAssumption
    <3> QED
      BY <2>1, <3>1, BuriedType DEF NodeAccepts
  <2> QED
    BY <2>1, <2>2 DEF TypeOK, NodeAccepts, StepAfter, Goto, dbRounds, dbBalances,
       dbPayouts, pollVars, payVars
<1>2. CASE NodeExtends
  BY <1>2, LedgerAssumption
  DEF TypeOK, NodeExtends, Buried, taskVars, dbRounds, dbBalances,
      dbPayouts, pollVars, payVars, nodeVars
<1>3. CASE \E k \in 1 .. Maturity - 1 : NodeReorganises(k)
  BY <1>3, LedgerAssumption
  DEF TypeOK, NodeReorganises, taskVars, dbRounds, dbBalances,
      dbPayouts, pollVars, payVars, nodeVars
<1>4. CASE \E b \in Block : NodeReactivates(b)
  <2>1. PICK b \in Block : NodeReactivates(b)
    BY <1>4
  <2>2. depth' \in [Block -> -1 .. Maturity]
    <3>1. 1 \in -1 .. Maturity
      BY LedgerAssumption
    <3> QED
      BY <2>1, <3>1, BuriedType DEF NodeReactivates
  <2>3. reorgs' \in 0 .. MaxReorgs
    BY <2>1, LedgerAssumption DEF NodeReactivates, TypeOK
  <2> QED
    BY <2>1, <2>2, <2>3 DEF TypeOK, NodeReactivates, taskVars, dbRounds, dbBalances,
       dbPayouts, pollVars, payVars
<1> QED
  BY <1>1, <1>2, <1>3, <1>4 DEF NodeStep

\* A thread loses its cycle, or the process all it has not committed.
Stops == PollFails \/ PayFails \/ Crash

LEMMA StopType ==
  ASSUME TypeOK, Stops
  PROVE  TypeOK'
<1>1. CASE PollFails
  BY <1>1, LedgerAssumption DEF TypeOK, PollFails, AtMostFaults, taskVars, dbRounds,
     dbBalances, dbPayouts, payVars, nodeVars
<1>2. CASE PayFails
  BY <1>2, LedgerAssumption DEF TypeOK, PayFails, AtMostFaults, Zero, taskVars, dbRounds,
     dbBalances, dbPayouts, pollVars, nodeVars
<1>3. CASE Crash
  BY <1>3, LedgerAssumption DEF TypeOK, Crash, AtMostFaults, Zero, dbRounds,
     dbBalances, dbPayouts, nodeVars
<1> QED
  BY <1>1, <1>2, <1>3 DEF Stops

LEMMA NextType ==
  ASSUME TypeOK, PayInv, [Next]_vars
  PROVE  TypeOK'
<1>1. CASE UNCHANGED vars
  BY <1>1 DEF TypeOK, vars, taskVars, dbRounds, dbBalances, dbPayouts,
     pollVars, payVars, nodeVars
<1>2. CASE Next
  BY <1>2, TaskType, PollType, PayType, NodeType, StopType DEF Next, Stops
<1> QED
  BY <1>1, <1>2

-----------------------------------------------------------------------------
(* The payout thread: PayInv is inductive *)

LEMMA InitPay == Init => PayInv
  BY DEF Init, PayInv, InFlightCovered

\* Every step of another party leaves the thread's state alone and takes
\* nothing from a balance.
LEMMA PayUndisturbed ==
  ASSUME TypeOK, PayInv, UNCHANGED payVars, row \subseteq row',
         \A a \in Addr : balance[a] <= balance'[a], TypeOK'
  PROVE  PayInv'
<1>1. InFlightCovered'
  <2> SUFFICES ASSUME NEW a \in payTodo
               PROVE  payAmount[a] <= balance'[a]
    BY DEF InFlightCovered, payVars
  <2>1. a \in Addr /\ payAmount[a] <= balance[a]
    BY DEF PayInv, InFlightCovered, TypeOK
  <2> QED
    BY <2>1 DEF TypeOK
<1> QED
  BY <1>1 DEF PayInv, payVars

LEMMA TaskPay ==
  ASSUME TypeOK, PayInv, NEW t \in Task, TaskStep(t), TypeOK'
  PROVE  PayInv'
<1>1. UNCHANGED payVars /\ balance' = balance /\ row \subseteq row'
  BY DEF TaskStep, Submit, SubmitRefused, SubmitReplyLost, ComputeCredits,
     RecordBlock, CreateMiningRound, AddImmatureCredits, CommitFails,
     dbBalances
<1> QED
  BY <1>1, PayUndisturbed DEF TypeOK

LEMMA PollPay ==
  ASSUME TypeOK, PayInv, PollStep, TypeOK'
  PROVE  PayInv'
<1>1. UNCHANGED payVars /\ row' = row
  BY DEF PollStep, PollStart, PollFetch, PollError, PollUpdate, MatureRound,
     dbBalances
<1>2. \A a \in Addr : balance[a] <= balance'[a]
  <2>1. CASE MatureRound
    BY <2>1 DEF MatureRound, TypeOK
  <2>2. CASE ~MatureRound
    BY <2>2 DEF PollStep, PollStart, PollFetch, PollError, PollUpdate,
       dbBalances, TypeOK
  <2> QED
    BY <2>1, <2>2
<1> QED
  BY <1>1, <1>2, PayUndisturbed

LEMMA NodePay ==
  ASSUME TypeOK, PayInv, NodeStep, TypeOK'
  PROVE  PayInv'
<1>1. UNCHANGED payVars /\ balance' = balance /\ row' = row
  BY DEF NodeStep, NodeAccepts, NodeExtends, NodeReorganises, NodeReactivates,
     dbBalances
<1> QED
  BY <1>1, PayUndisturbed DEF TypeOK

\* Leaving a row keeps the invariant: the rest of the snapshot is untouched.
LEMMA NextRowPay ==
  ASSUME TypeOK, PayInv, NEW a \in payTodo, NextRow(a), row' = row,
         \A b \in Addr \ {a} : balance'[b] = balance[b]
  PROVE  PayInv'
  BY DEF TypeOK, PayInv, InFlightCovered, NextRow, Rest, Zero

LEMMA PayPay ==
  ASSUME TypeOK, PayInv, PayStep, TypeOK'
  PROVE  PayInv'
<1>1. CASE PayStart
  BY <1>1 DEF PayStart, Payable, PayInv, InFlightCovered, TypeOK, dbBalances
<1>2. CASE \E a \in Addr : DryRunPayout(a)
  BY <1>2 DEF DryRunPayout, IsNextRow, PayInv, InFlightCovered, dbBalances
<1>3. CASE \E a \in Addr : SendToAddress(a)
  BY <1>3 DEF SendToAddress, IsNextRow, PayInv, InFlightCovered, dbBalances
<1>4. CASE \E a \in Addr : SendReplyLost(a) \/ SendRejected(a) \/ SendErrored(a)
  BY <1>4, NextRowPay DEF SendReplyLost, SendRejected, SendErrored, IsNextRow,
     dbBalances
<1>5. CASE RecordPayout
  BY <1>5 DEF RecordPayout, PayInv, InFlightCovered, dbBalances
<1>6. CASE DebitBalance
  <2>1. payAddr \in payTodo
    BY <1>6 DEF DebitBalance, PayInv
  <2>2. \A b \in Addr \ {payAddr} : balance'[b] = balance[b]
    BY <1>6 DEF DebitBalance, TypeOK
  <2> QED
    BY <1>6, <2>1, <2>2, NextRowPay DEF DebitBalance
<1> QED
  BY <1>1, <1>2, <1>3, <1>4, <1>5, <1>6 DEF PayStep

LEMMA NextPay ==
  ASSUME TypeOK, PayInv, [Next]_vars, TypeOK'
  PROVE  PayInv'
<1>1. CASE UNCHANGED vars
  BY <1>1, PayUndisturbed DEF vars, dbBalances, TypeOK
<1>2. CASE Crash \/ PayFails
  BY <1>2 DEF Crash, PayFails, PayInv, InFlightCovered
<1>3. CASE PollFails
  BY <1>3, PayUndisturbed DEF PollFails, dbBalances, TypeOK
<1> QED
  BY <1>1, <1>2, <1>3, TaskPay, PollPay, PayPay, NodePay DEF Next

\* Type correctness, with the fact it needs that debit_balance is only
\* reached with an address in hand.
THEOREM TypeCorrect == Spec => []TypeOK
<1>1. Init => TypeOK /\ PayInv
  BY InitType, InitPay
<1>2. TypeOK /\ PayInv /\ [Next]_vars => TypeOK' /\ PayInv'
  BY NextType, NextPay
<1> QED
  BY <1>1, <1>2, PTL DEF Spec

\* The amount the payout thread is about to send never exceeds the balance,
\* whatever is credited, replied late, lost or restarted meanwhile
\* (payouts.py:68-126 reads balances_ready_for_payout once per cycle).
THEOREM PayoutsCovered == Spec => []InFlightCovered
<1>1. Init => TypeOK /\ PayInv
  BY InitType, InitPay
<1>2. TypeOK /\ PayInv /\ [Next]_vars => TypeOK' /\ PayInv'
  BY NextType, NextPay
<1>3. PayInv => InFlightCovered
  BY DEF PayInv
<1> QED
  BY <1>1, <1>2, <1>3, PTL DEF Spec

-----------------------------------------------------------------------------
(* Rounds: one per block, and credited only when the block is final        *)

\* A task has no round before create_mining_round, and its block cannot be
\* final before credit_block has ended.
TaskInv ==
    \A t \in Task :
        /\ pc[t] \in {"mining", "submitblock", "accepted", "block", "round"}
              => rounds[t] = "none"
        /\ pc[t] = "immature" => rounds[t] = "immature"
        /\ pc[t] \in Crediting =>
              depth[BlockOf[t]] # 0 /\ depth[BlockOf[t]] < Maturity

\* A task claims its block from btxd's null answer on.  btxd answers null to a
\* block it has not seen, so a second claim of the same block is impossible.
Claims(t) == pc[t] \in Crediting \/ t \in blockRow

ClaimInv ==
    /\ \A t \in Task : Claims(t) => depth[BlockOf[t]] # 0
    /\ \A t \in blockRow : pc[t] \in {"round", "immature", "done"}
    /\ \A t, u \in Task :
          Claims(t) /\ Claims(u) /\ BlockOf[t] = BlockOf[u] => t = u

\* What the maturity thread holds stays true while it is not looking: only
\* the thread ends a pending round, and a final block stays final.
PollInv ==
    /\ pollTodo \subseteq Pending
    /\ pollStep \in {"update", "mature"} =>
          /\ pollTask \in pollTodo
          /\ IsMature(pollConf) => depth[BlockOf[pollTask]] >= Maturity
    /\ pollStep = "mature" => IsMature(pollConf) /\ roundConf[pollTask] = pollConf
    /\ CreditedIsMature

RoundInv == TaskInv /\ ClaimInv /\ PollInv

LEMMA InitRound == Init => RoundInv
  BY LedgerAssumption DEF Init, RoundInv, TaskInv, ClaimInv, PollInv, Claims,
     Crediting, Pending, CreditedIsMature, Credited

\* No step makes btxd forget a block or replace a final one.
LEMMA DepthStable ==
  ASSUME TypeOK, [Next]_vars, NEW b \in Block
  PROVE  /\ depth[b] # 0 => depth'[b] # 0
         /\ depth[b] >= Maturity => depth'[b] >= Maturity
<1>1. CASE depth' = depth
  BY <1>1
<1>2. CASE \E t \in Task : NodeAccepts(t)
  <2>1. PICK t \in Task : NodeAccepts(t)
    BY <1>2
  <2> QED
    BY <2>1, BuriedType, LedgerAssumption DEF NodeAccepts, TypeOK
<1>3. CASE NodeExtends
  BY <1>3, BuriedType DEF NodeExtends
<1>4. CASE \E k \in 1 .. Maturity - 1 : NodeReorganises(k)
  BY <1>4, LedgerAssumption DEF NodeReorganises, TypeOK
<1>5. CASE \E c \in Block : NodeReactivates(c)
  <2>1. PICK c \in Block : NodeReactivates(c)
    BY <1>5
  <2> QED
    BY <2>1, BuriedType, LedgerAssumption DEF NodeReactivates, TypeOK
<1>6. ~NodeStep => depth' = depth
  BY DEF Next, vars, nodeVars, TaskStep, Submit, SubmitRefused,
     SubmitReplyLost, ComputeCredits, RecordBlock, CreateMiningRound,
     AddImmatureCredits, CommitFails, PollStep, PollStart, PollFetch,
     PollError, PollUpdate, MatureRound, PayStep, PayStart, DryRunPayout,
     SendToAddress, SendReplyLost, SendRejected, SendErrored, WalletSends,
     RecordPayout, DebitBalance, PollFails, PayFails, Crash
<1> QED
  BY <1>1, <1>2, <1>3, <1>4, <1>5, <1>6 DEF NodeStep

\* A task's step preserves the facts about it; DepthStable keeps the block of
\* every other task where it is.
LEMMA TaskRound ==
  ASSUME TypeOK, RoundInv, NEW t \in Task, TaskStep(t)
  PROVE  RoundInv'
<1>0. /\ UNCHANGED <<depth, pollVars, roundConf>>
      /\ \A u \in Task \ {t} : pc'[u] = pc[u] /\ rounds'[u] = rounds[u]
  BY DEF TaskStep, Submit, SubmitRefused, SubmitReplyLost, ComputeCredits,
     RecordBlock, CreateMiningRound, AddImmatureCredits, CommitFails, StepAfter, Goto,
     TypeOK, dbRounds, nodeVars
<1>1. TaskInv'
  <2> SUFFICES ASSUME NEW u \in Task
               PROVE  /\ pc'[u] \in {"mining", "submitblock", "accepted", "block", "round"}
                            => rounds'[u] = "none"
                      /\ pc'[u] = "immature" => rounds'[u] = "immature"
                      /\ pc'[u] \in Crediting =>
                            depth[BlockOf[u]] # 0 /\ depth[BlockOf[u]] < Maturity
    BY <1>0 DEF TaskInv
  <2>1. CASE u = t
    BY <2>1 DEF TaskStep, Submit, SubmitRefused, SubmitReplyLost,
       ComputeCredits, RecordBlock, CreateMiningRound, AddImmatureCredits,
       CommitFails, StepAfter, Goto, TypeOK, dbRounds, RoundInv, TaskInv, Crediting
  <2>2. CASE u # t
    BY <2>2, <1>0 DEF RoundInv, TaskInv
  <2> QED
    BY <2>1, <2>2
<1>2. ClaimInv'
  <2>1. \A u \in Task : Claims(u)' => Claims(u)
    BY DEF TaskStep, Submit, SubmitRefused, SubmitReplyLost, ComputeCredits,
       RecordBlock, CreateMiningRound, AddImmatureCredits, CommitFails, StepAfter, Goto,
       TypeOK, dbRounds, Claims, Crediting
  <2>2. \A u \in blockRow' : pc'[u] \in {"round", "immature", "done"}
    BY DEF TaskStep, Submit, SubmitRefused, SubmitReplyLost, ComputeCredits,
       RecordBlock, CreateMiningRound, AddImmatureCredits, CommitFails, StepAfter, Goto,
       TypeOK, dbRounds, RoundInv, ClaimInv
  <2> QED
    BY <1>0, <2>1, <2>2 DEF RoundInv, ClaimInv
<1>3. PollInv'
  <2>1. \A u \in Task : rounds[u] # "none" => rounds'[u] = rounds[u]
    BY DEF TaskStep, Submit, SubmitRefused, SubmitReplyLost, ComputeCredits,
       RecordBlock, CreateMiningRound, AddImmatureCredits, CommitFails, StepAfter, Goto,
       TypeOK, dbRounds, RoundInv, TaskInv
  <2>2. \A u \in Task : rounds'[u] = "credited" => rounds[u] = "credited"
    BY DEF TaskStep, Submit, SubmitRefused, SubmitReplyLost, ComputeCredits,
       RecordBlock, CreateMiningRound, AddImmatureCredits, CommitFails, StepAfter, Goto,
       TypeOK, dbRounds
  <2> QED
    BY <1>0, <2>1, <2>2 DEF RoundInv, PollInv, Pending, IsMature,
       CreditedIsMature, Credited, pollVars
<1> QED
  BY <1>1, <1>2, <1>3 DEF RoundInv

LEMMA PollRound ==
  ASSUME TypeOK, RoundInv, PollStep
  PROVE  RoundInv'
<1>0. UNCHANGED <<pc, depth, blockRow>>
  BY DEF PollStep, PollStart, PollFetch, PollError, PollUpdate, MatureRound,
     taskVars, dbRounds, nodeVars
<1>1. CASE PollStart
  BY <1>0, <1>1 DEF PollStart, RoundInv, TaskInv, ClaimInv, PollInv, Claims,
     Pending, IsMature, CreditedIsMature, Credited, dbRounds
<1>2. CASE \E t \in Task : PollFetch(t)
  BY <1>0, <1>2 DEF PollFetch, RoundInv, TaskInv, ClaimInv, PollInv, Claims,
     Pending, IsMature, CreditedIsMature, Credited, dbRounds
<1>3. CASE \E t \in Task : PollError(t)
  BY <1>0, <1>3 DEF PollError, Skip, NextRound, RoundInv, TaskInv, ClaimInv, PollInv,
     Claims, Pending, IsMature, CreditedIsMature, Credited, dbRounds
<1>4. CASE PollUpdate
  <2>1. pollTask \in Task /\ rounds[pollTask] = "immature"
    BY <1>4 DEF PollUpdate, RoundInv, PollInv, Pending
  <2> QED
    BY <1>0, <1>4, <2>1 DEF PollUpdate, NextRound, RoundInv, TaskInv, ClaimInv,
       PollInv, Claims, Pending, IsMature, CreditedIsMature, Credited, TypeOK
<1>5. CASE MatureRound
  <2>1. /\ pollTask \in Task /\ rounds[pollTask] = "immature"
        /\ depth[BlockOf[pollTask]] >= Maturity
        /\ roundConf[pollTask] >= Maturity
    BY <1>5 DEF MatureRound, RoundInv, PollInv, Pending, IsMature
  <2>2. pc[pollTask] \notin Crediting
    BY <2>1, LedgerAssumption DEF RoundInv, TaskInv, TypeOK
  <2>3. TaskInv'
    BY <1>0, <1>5, <2>1, <2>2 DEF MatureRound, RoundInv, TaskInv, Crediting, TypeOK
  <2>4. ClaimInv'
    BY <1>0 DEF RoundInv, ClaimInv, Claims
  <2>5. PollInv'
    BY <1>0, <1>5, <2>1 DEF MatureRound, NextRound, RoundInv, PollInv, Pending,
       CreditedIsMature, Credited, TypeOK
  <2> QED
    BY <2>3, <2>4, <2>5 DEF RoundInv
<1> QED
  BY <1>1, <1>2, <1>3, <1>4, <1>5 DEF PollStep

LEMMA NodeRound ==
  ASSUME TypeOK, RoundInv, NodeStep
  PROVE  RoundInv'
<1>0. UNCHANGED <<dbRounds, pollVars>>
  BY DEF NodeStep, NodeAccepts, NodeExtends, NodeReorganises, NodeReactivates
<1>1. \A b \in Block : /\ depth[b] # 0 => depth'[b] # 0
                       /\ depth[b] >= Maturity => depth'[b] >= Maturity
  BY DepthStable DEF Next
<1>2. \A t \in Task : BlockOf[t] \in Block
  BY LedgerAssumption
<1>3. PollInv'
  BY <1>0, <1>1, <1>2 DEF RoundInv, PollInv, Pending, IsMature,
     CreditedIsMature, Credited, TypeOK, pollVars, dbRounds
<1>4. CASE \E t \in Task : NodeAccepts(t)
  <2>1. PICK t \in Task : NodeAccepts(t)
    BY <1>4
  <2>2. /\ pc' = [pc EXCEPT ![t] = "accepted"]
        /\ pc[t] = "submitblock" /\ depth[BlockOf[t]] = 0
        /\ depth'[BlockOf[t]] = 1
        /\ \A u \in Task : pc[u] \in Crediting => depth'[BlockOf[u]] < Maturity
    BY <2>1, <1>2, BuriedType DEF NodeAccepts, StepAfter, Goto, CreditsKeepUp
  <2>3. TaskInv'
    BY <1>0, <1>1, <1>2, <2>2, LedgerAssumption DEF RoundInv, TaskInv, TypeOK,
       Crediting, dbRounds
  <2>4. \A u \in Task \ {t} : BlockOf[u] = BlockOf[t] => ~Claims(u)'
    BY <1>0, <2>2 DEF RoundInv, ClaimInv, Claims, TypeOK, dbRounds
  <2>5. \A u \in Task \ {t} : Claims(u)' => Claims(u)
    BY <1>0, <2>2 DEF Claims, TypeOK, dbRounds
  <2>6. \A u \in Task : Claims(u)' => depth'[BlockOf[u]] # 0
    BY <1>1, <1>2, <2>2, <2>5 DEF RoundInv, ClaimInv
  <2>7. \A u \in blockRow' : pc'[u] \in {"round", "immature", "done"}
    BY <1>0, <2>2 DEF RoundInv, ClaimInv, TypeOK, dbRounds
  <2>8. \A u, v \in Task :
          Claims(u)' /\ Claims(v)' /\ BlockOf[u] = BlockOf[v] => u = v
    <3>1. \A u, v \in Task \ {t} :
            Claims(u)' /\ Claims(v)' /\ BlockOf[u] = BlockOf[v] => u = v
      BY <2>5 DEF RoundInv, ClaimInv
    <3> QED
      BY <2>4, <3>1
  <2>9. ClaimInv'
    BY <2>6, <2>7, <2>8 DEF ClaimInv
  <2> QED
    BY <1>3, <2>3, <2>9 DEF RoundInv
<1>5. CASE ~\E t \in Task : NodeAccepts(t)
  <2>1. pc' = pc
    BY <1>5 DEF NodeStep, NodeExtends, NodeReorganises, NodeReactivates, taskVars
  <2>2. \A u \in Task : pc[u] \in Crediting => depth'[BlockOf[u]] < Maturity
    <3>1. CASE \E k \in 1 .. Maturity - 1 : NodeReorganises(k)
      BY <3>1, <1>2, LedgerAssumption DEF NodeReorganises, RoundInv, TaskInv, TypeOK
    <3>2. CASE NodeExtends \/ \E b \in Block : NodeReactivates(b)
      BY <3>2 DEF NodeExtends, NodeReactivates, CreditsKeepUp
    <3> QED
      BY <1>5, <3>1, <3>2 DEF NodeStep
  <2>3. TaskInv'
    BY <1>0, <1>1, <1>2, <2>1, <2>2 DEF RoundInv, TaskInv, dbRounds
  <2>4. ClaimInv'
    BY <1>0, <1>1, <1>2, <2>1 DEF RoundInv, ClaimInv, Claims, dbRounds
  <2> QED
    BY <1>3, <2>3, <2>4 DEF RoundInv
<1> QED
  BY <1>4, <1>5

LEMMA NextRoundInv ==
  ASSUME TypeOK, RoundInv, [Next]_vars
  PROVE  RoundInv'
<1>1. CASE UNCHANGED vars
  BY <1>1 DEF vars, taskVars, dbRounds, pollVars, nodeVars, RoundInv, TaskInv,
     ClaimInv, PollInv, Claims, Pending, CreditedIsMature, Credited
<1>2. CASE PayStep
  <2>1. UNCHANGED <<taskVars, dbRounds, pollVars, depth>>
    BY <1>2 DEF PayStep, PayStart, DryRunPayout, SendToAddress, SendReplyLost,
       SendRejected, SendErrored, WalletSends, RecordPayout, DebitBalance,
       nodeVars
  <2> QED
    BY <2>1 DEF taskVars, dbRounds, pollVars, RoundInv, TaskInv, ClaimInv,
       PollInv, Claims, Pending, CreditedIsMature, Credited
<1>3. CASE PollFails
  BY <1>3 DEF PollFails, taskVars, dbRounds, nodeVars, RoundInv, TaskInv,
     ClaimInv, PollInv, Claims, Pending, CreditedIsMature, Credited
<1>4. CASE PayFails
  BY <1>4 DEF PayFails, taskVars, dbRounds, pollVars, nodeVars, RoundInv,
     TaskInv, ClaimInv, PollInv, Claims, Pending, CreditedIsMature, Credited
<1>5. CASE Crash
  BY <1>5 DEF Crash, dbRounds, nodeVars, RoundInv, TaskInv, ClaimInv, PollInv,
     Claims, Crediting, Pending, CreditedIsMature, Credited, TypeOK
<1> QED
  BY <1>1, <1>2, <1>3, <1>4, <1>5, TaskRound, PollRound, NodeRound DEF Next

\* The invariants of the threads together.
IInv == TypeOK /\ PayInv /\ RoundInv

LEMMA IInvInductive ==
  /\ Init => IInv
  /\ IInv /\ [Next]_vars => IInv'
<1>1. Init => IInv
  BY InitType, InitPay, InitRound DEF IInv
<1>2. IInv /\ [Next]_vars => IInv'
  BY NextType, NextPay, NextRoundInv DEF IInv
<1> QED
  BY <1>1, <1>2

\* A block is credited at most once, however often it is submitted.
THEOREM CreditedOnce == Spec => []OneRoundPerBlock
<1>1. IInv => OneRoundPerBlock
  BY DEF IInv, TypeOK, RoundInv, ClaimInv, Claims, OneRoundPerBlock
<1> QED
  BY <1>1, IInvInductive, PTL DEF Spec

\* Coins become payable only when their block is final, although
\* poll_maturity decides on confirmations that it read before two commits.
THEOREM CreditedWhenFinal == Spec => []CreditedIsMature
<1>1. IInv => CreditedIsMature
  BY DEF IInv, RoundInv, PollInv
<1> QED
  BY <1>1, IInvInductive, PTL DEF Spec

-----------------------------------------------------------------------------
(* Books and chain *)

\* Between sendtoaddress and debit_balance the amount in flight is exactly
\* what separates the chain, the payouts table and miner_balances.
Unrecorded(a) == IF payStep = "record" THEN InFlight(a) ELSE 0
Undebited(a) == IF payStep = "debit" THEN InFlight(a) ELSE 0
PaidInv ==
    ~dryRun =>
    \A a \in Addr : /\ paidTotal[a] + Undebited(a) <= recorded[a]
                    /\ recorded[a] + Unrecorded(a) <= onchain[a]

LEMMA DryRunIsFixed == [Next]_vars => UNCHANGED dryRun
<1> SUFFICES ASSUME [Next]_vars PROVE UNCHANGED dryRun
  OBVIOUS
<1>1. CASE \E t \in Task : TaskStep(t)
  BY <1>1 DEF TaskStep, Submit, SubmitRefused, SubmitReplyLost, ComputeCredits,
     RecordBlock, CreateMiningRound, AddImmatureCredits, CommitFails
<1>2. CASE PollStep
  BY <1>2 DEF PollStep, PollStart, PollFetch, PollError, PollUpdate, MatureRound
<1>3. CASE PayStep
  BY <1>3 DEF PayStep, PayStart, DryRunPayout, SendToAddress, SendReplyLost,
     SendRejected, SendErrored, RecordPayout, DebitBalance
<1>4. CASE NodeStep \/ PollFails \/ PayFails \/ Crash \/ UNCHANGED vars
  BY <1>4 DEF NodeStep, NodeAccepts, NodeExtends, NodeReorganises, NodeReactivates,
     PollFails, PayFails, Crash, vars
<1> QED
  BY <1>1, <1>2, <1>3, <1>4 DEF Next

LEMMA PaidInductive ==
  ASSUME ~dryRun, IInv, PaidInv, [Next]_vars, IInv'
  PROVE  PaidInv'
<1> USE DEF IInv, TypeOK, PayInv, PaidInv, Unrecorded, Undebited, InFlight
<1>1. CASE UNCHANGED <<paidTotal, recorded, onchain, payStep, payAddr, payAmount>>
  BY <1>1
<1>2. CASE PayStart
  BY <1>2 DEF PayStart, dbBalances, dbPayouts, nodeVars
<1>3. CASE \E a \in Addr : SendToAddress(a)
  BY <1>3 DEF SendToAddress, WalletSends, IsNextRow, dbBalances, dbPayouts
<1>4. CASE \E a \in Addr : SendReplyLost(a)
  BY <1>4 DEF SendReplyLost, WalletSends, NextRow, Rest, IsNextRow, dbBalances, dbPayouts
<1>5. CASE \E a \in Addr : SendRejected(a) \/ SendErrored(a)
  BY <1>5 DEF SendRejected, SendErrored, NextRow, Rest, IsNextRow, dbBalances,
     dbPayouts, nodeVars
<1>6. CASE RecordPayout
  BY <1>6 DEF RecordPayout, dbBalances, nodeVars
<1>7. CASE DebitBalance
  BY <1>7 DEF DebitBalance, DebitAmount, NextRow, Rest, dbPayouts, nodeVars
<1>8. CASE Crash \/ PayFails
  BY <1>8 DEF Crash, PayFails, dbBalances, dbPayouts, nodeVars
<1>9. CASE \/ UNCHANGED vars \/ PollStep \/ PollFails \/ NodeStep
           \/ \E t \in Task : TaskStep(t)
  <2>1. UNCHANGED <<paidTotal, recorded, onchain, payVars>>
    BY <1>9 DEF vars, TaskStep, Submit, SubmitRefused, SubmitReplyLost,
       ComputeCredits, RecordBlock, CreateMiningRound, AddImmatureCredits,
       CommitFails, PollStep, PollStart, PollFetch, PollError, PollUpdate,
       MatureRound, PollFails, NodeStep, NodeAccepts, NodeExtends,
       NodeReorganises, NodeReactivates, dbBalances, dbPayouts, nodeVars
  <2> QED
    BY <2>1, <1>1 DEF payVars
<1> QED
  BY <1>2, <1>3, <1>4, <1>5, <1>6, <1>7, <1>8, <1>9 DEF Next, PayStep, DryRunPayout

\* Whatever crashes or is lost, the books never claim a payment the chain did
\* not make: paid_total_sats follows the payouts row, which follows the send.
THEOREM BooksNeverAhead == Spec => []NothingPaidUnsent
<1>1. Init => PaidInv
  BY DEF Init, PaidInv, Unrecorded, Undebited, InFlight, Zero
<1>2. IInv /\ PaidInv /\ [Next]_vars => IInv' /\ PaidInv'
  <2>1. dryRun /\ [Next]_vars => PaidInv'
    BY DryRunIsFixed DEF PaidInv
  <2> QED
    BY <2>1, IInvInductive, PaidInductive
<1>3. IInv /\ PaidInv => NothingPaidUnsent
  <2> SUFFICES ASSUME IInv, PaidInv, ~dryRun, NEW a \in Addr
               PROVE  /\ paidTotal[a] <= recorded[a]
                      /\ recorded[a] <= onchain[a]
                      /\ paidTotal[a] + InFlight(a) <= onchain[a]
    BY DEF NothingPaidUnsent
  <2>1. payStep \in {"sleep", "send"} => InFlight(a) = 0
    BY LedgerAssumption DEF IInv, PayInv, InFlight
  <2>2. InFlight(a) \in Nat
    BY DEF InFlight, IInv, TypeOK
  <2> QED
    BY <2>1, <2>2 DEF IInv, TypeOK, PaidInv, Unrecorded, Undebited
<1> QED
  BY <1>1, <1>2, <1>3, IInvInductive, PTL DEF Spec

-----------------------------------------------------------------------------
(* Books and rounds: the columns of miner_balances are bounded by sums over *)
(* the rounds.                                                              *)

\* What a round grants was computed by the task that created it, and its
\* block was recorded before.
AwardInv ==
    \A t \in Task :
        /\ pc[t] = "immature" => roundCredits[t] = award[t]
        /\ pc[t] \in {"block", "round", "immature"} => award[t] \in Awards
        /\ rounds[t] # "none" => roundCredits[t] \in Awards
        /\ pc[t] = "round" \/ rounds[t] # "none" => t \in blockRow

\* However many addresses, submissions and blocks there may be, only finitely
\* many rounds have been created and finitely many blocks seen.
Seen == {b \in Block : depth[b] # 0}
FiniteInv == IsFiniteSet(AllRounds) /\ IsFiniteSet(Seen)

\* The pending rounds that add_immature_credits has entered in the balances,
\* or whose task has ended without.
Settled == {t \in Pending : pc[t] # "immature"}

\* An address without a row has nothing, and the others no more than the
\* settled and the credited rounds grant.
OverInv ==
    /\ \A a \in Addr \ row : immature[a] = 0
    /\ \A a \in Addr :
          /\ immature[a] <= CreditOf(Settled, a)
          /\ balance[a] + paidTotal[a] <= CreditOf(Credited, a)

BookInv == AwardInv /\ FiniteInv /\ OverInv

LEMMA AwardInductive ==
  ASSUME IInv, AwardInv, [Next]_vars
  PROVE  AwardInv'
<1> USE DEF IInv, TypeOK, AwardInv
<1>1. ASSUME NEW t \in Task, TaskStep(t)
      PROVE  AwardInv'
  <2>1. CASE CreateMiningRound(t)
    BY <2>1 DEF CreateMiningRound, Goto
  <2>2. CASE AddImmatureCredits(t)
    BY <2>2 DEF AddImmatureCredits, Goto, dbRounds
  <2>3. CASE RecordBlock(t)
    BY <2>3 DEF RecordBlock, Goto
  <2>4. CASE ComputeCredits(t)
    BY <2>4 DEF ComputeCredits, Goto, dbRounds, RoundInv, TaskInv
  <2>5. CASE Submit(t) \/ SubmitRefused(t) \/ SubmitReplyLost(t) \/ CommitFails(t)
    BY <2>5 DEF Submit, SubmitRefused, SubmitReplyLost, CommitFails, StepAfter,
       Goto, dbRounds
  <2> QED
    BY <1>1, <2>1, <2>2, <2>3, <2>4, <2>5 DEF TaskStep
<1>2. CASE PollStep
  <2>1. UNCHANGED <<pc, award, roundCredits, blockRow>>
    BY <1>2 DEF PollStep, PollStart, PollFetch, PollError, PollUpdate,
       MatureRound, taskVars, dbRounds
  <2>2. \A t \in Task : rounds'[t] # "none" => rounds[t] # "none"
    BY <1>2 DEF PollStep, PollStart, PollFetch, PollError, PollUpdate,
       MatureRound, dbRounds, RoundInv, PollInv, Pending
  <2> QED
    BY <2>1, <2>2
<1>3. CASE PayStep \/ UNCHANGED vars
  BY <1>3 DEF PayStep, PayStart, DryRunPayout, SendToAddress, SendReplyLost,
     SendRejected, SendErrored, RecordPayout, DebitBalance, vars, taskVars,
     dbRounds
<1>4. CASE NodeStep
  <2>1. CASE \E t \in Task : NodeAccepts(t)
    BY <2>1 DEF NodeAccepts, StepAfter, Goto, dbRounds
  <2>2. CASE ~\E t \in Task : NodeAccepts(t)
    BY <1>4, <2>2 DEF NodeStep, NodeExtends, NodeReorganises, NodeReactivates,
       taskVars, dbRounds
  <2> QED
    BY <2>1, <2>2
<1>5. CASE Stops
  BY <1>5 DEF Stops, Crash, PollFails, PayFails, taskVars, dbRounds
<1> QED
  BY <1>1, <1>2, <1>3, <1>4, <1>5 DEF Next, Stops

\* One step creates one round at most and shows btxd one block at most.
LEMMA FiniteInductive ==
  ASSUME IInv, FiniteInv, [Next]_vars
  PROVE  FiniteInv'
<1> USE DEF IInv, TypeOK
<1>1. \E t \in Task : AllRounds' \subseteq AllRounds \cup {t}
  <2>1. CASE \E t \in Task : CreateMiningRound(t)
    BY <2>1 DEF CreateMiningRound, AllRounds
  <2>2. CASE MatureRound
    BY <2>2 DEF MatureRound, AllRounds, RoundInv, PollInv, Pending
  <2>3. CASE ~MatureRound /\ ~\E t \in Task : CreateMiningRound(t)
    <3>1. rounds' = rounds
      BY <2>3 DEF Next, vars, dbRounds, TaskStep, Submit, SubmitRefused,
         SubmitReplyLost, ComputeCredits, RecordBlock, AddImmatureCredits,
         CommitFails, PollStep, PollStart, PollFetch, PollError, PollUpdate,
         PayStep, PayStart, DryRunPayout, SendToAddress, SendReplyLost,
         SendRejected, SendErrored, RecordPayout, DebitBalance, NodeStep,
         NodeAccepts, NodeExtends, NodeReorganises, NodeReactivates, PollFails,
         PayFails, Crash
    <3> QED
      BY <3>1 DEF AllRounds
  <2> QED
    BY <2>1, <2>2, <2>3
<1>2. \E b \in Block : Seen' \subseteq Seen \cup {b}
  <2>0. BlockOf[pollTask] \in Block
    BY LedgerAssumption
  <2>1. CASE \E t \in Task : NodeAccepts(t)
    <3>1. PICK t \in Task : NodeAccepts(t)
      BY <2>1
    <3>2. \A b \in Block : b # BlockOf[t] /\ depth[b] = 0 => depth'[b] = 0
      BY <3>1, BuriedType, LedgerAssumption DEF NodeAccepts
    <3>3. Seen' \subseteq Seen \cup {BlockOf[t]} /\ BlockOf[t] \in Block
      BY <3>2, LedgerAssumption DEF Seen
    <3> QED
      BY <3>3
  <2>2. CASE NodeStep /\ ~\E t \in Task : NodeAccepts(t)
    <3>1. \A b \in Block : depth[b] = 0 => depth'[b] = 0
      <4>1. CASE NodeExtends
        BY <4>1, LedgerAssumption DEF NodeExtends, Buried
      <4>2. CASE \E k \in 1 .. Maturity - 1 : NodeReorganises(k)
        BY <4>2, LedgerAssumption DEF NodeReorganises
      <4>3. CASE \E b \in Block : NodeReactivates(b)
        BY <4>3, BuriedType, LedgerAssumption DEF NodeReactivates
      <4> QED
        BY <2>2, <4>1, <4>2, <4>3 DEF NodeStep
    <3> QED
      BY <2>0, <3>1 DEF Seen
  <2>3. CASE ~NodeStep
    <3>1. depth' = depth
      BY <2>3 DEF Next, vars, nodeVars, TaskStep, Submit, SubmitRefused,
         SubmitReplyLost, ComputeCredits, RecordBlock, CreateMiningRound,
         AddImmatureCredits, CommitFails, PollStep, PollStart, PollFetch,
         PollError, PollUpdate, MatureRound, PayStep, PayStart, DryRunPayout,
         SendToAddress, SendReplyLost, SendRejected, SendErrored, WalletSends,
         RecordPayout, DebitBalance, PollFails, PayFails, Crash
    <3> QED
      BY <2>0, <3>1 DEF Seen
  <2> QED
    BY <2>1, <2>2, <2>3
<1>3. ASSUME NEW S, NEW x, IsFiniteSet(S), NEW T \in SUBSET (S \cup {x})
      PROVE  IsFiniteSet(T)
  <2>1. IsFiniteSet(S \cup {x})
    BY <1>3, FS_AddElement
  <2> QED
    BY <2>1, FS_Subset
<1>4. IsFiniteSet(AllRounds')
  BY <1>1, <1>3 DEF FiniteInv
<1>5. IsFiniteSet(Seen')
  BY <1>2, <1>3 DEF FiniteInv
<1> QED
  BY <1>4, <1>5 DEF FiniteInv

\* What the rounds grant to an address.
GrantsTo(a) == [t \in Task |-> roundCredits[t][a]]

LEMMA CreditNat ==
  ASSUME TypeOK, IsFiniteSet(AllRounds), NEW a \in Addr, NEW T \in SUBSET AllRounds
  PROVE  /\ IsFiniteSet(T)
         /\ CreditOf(T, a) = SumFunctionOnSet(GrantsTo(a), T)
         /\ \A t \in T : t \in Task /\ GrantsTo(a)[t] \in Nat
                                    /\ GrantsTo(a)[t] = roundCredits[t][a]
         /\ CreditOf(T, a) \in Nat
         /\ \A U \in SUBSET T : CreditOf(U, a) <= CreditOf(T, a)
<1>1. IsFiniteSet(T)
  BY FS_Subset
<1>2. \A U : CreditOf(U, a) = SumFunctionOnSet(GrantsTo(a), U)
  BY DEF CreditOf, GrantsTo
<1>3. \A t \in T : /\ t \in Task /\ GrantsTo(a)[t] \in Nat
                   /\ GrantsTo(a)[t] = roundCredits[t][a]
  BY DEF TypeOK, GrantsTo, AllRounds
<1>4. \A U \in SUBSET T :
         /\ SumFunctionOnSet(GrantsTo(a), T) \in Nat
         /\ SumFunctionOnSet(GrantsTo(a), U) <= SumFunctionOnSet(GrantsTo(a), T)
  BY <1>1, <1>3, SumNat
<1> QED
  BY <1>1, <1>2, <1>3, <1>4

\* A new round is not settled before its credits are entered.
LEMMA GrantSums ==
  ASSUME IInv, FiniteInv, NEW t \in Task, CreateMiningRound(t), IInv', NEW a \in Addr
  PROVE  /\ CreditOf(Settled, a)' = CreditOf(Settled, a)
         /\ CreditOf(Credited, a)' = CreditOf(Credited, a)
<1>1. /\ Settled' = Settled /\ Credited' = Credited
      /\ t \notin Settled /\ t \notin Credited
      /\ \A u \in Task \ {t} : roundCredits'[u] = roundCredits[u]
  BY DEF CreateMiningRound, Goto, IInv, TypeOK, RoundInv, TaskInv, Settled,
     Pending, Credited
<1>2. ASSUME NEW T \in SUBSET AllRounds, t \notin T
      PROVE  SumFunctionOnSet(GrantsTo(a)', T) = SumFunctionOnSet(GrantsTo(a), T)
  <2>1. \A u \in T : GrantsTo(a)[u] \in Int /\ GrantsTo(a)[u] = GrantsTo(a)'[u]
    BY <1>1, <1>2 DEF GrantsTo, AllRounds, IInv, TypeOK
  <2>2. IsFiniteSet(T)
    BY CreditNat DEF IInv, FiniteInv
  <2> QED
    BY <2>1, <2>2, SumSame
<1>3. Settled \subseteq AllRounds /\ Credited \subseteq AllRounds
  BY DEF Settled, Pending, Credited, AllRounds
<1> QED
  BY <1>1, <1>2, <1>3 DEF CreditOf, GrantsTo

LEMMA AddSums ==
  ASSUME IInv, AwardInv, FiniteInv, NEW t \in Task, AddImmatureCredits(t),
         NEW a \in Addr
  PROVE  /\ CreditOf(Settled, a)' = award[t][a] + CreditOf(Settled, a)
         /\ CreditOf(Credited, a)' = CreditOf(Credited, a)
<1>1. /\ Settled' = Settled \cup {t} /\ Credited' = Credited
      /\ t \notin Settled /\ Settled \cup {t} \subseteq AllRounds
      /\ roundCredits' = roundCredits /\ roundCredits[t] = award[t]
  BY DEF AddImmatureCredits, Goto, dbRounds, IInv, TypeOK, RoundInv, TaskInv,
     Settled, Pending, Credited, AllRounds, AwardInv
<1>2. SumFunctionOnSet(GrantsTo(a), Settled \cup {t}) =
         GrantsTo(a)[t] + SumFunctionOnSet(GrantsTo(a), Settled)
  <2>1. \A u \in Settled \cup {t} : GrantsTo(a)[u] \in Int
    BY <1>1 DEF GrantsTo, AllRounds, IInv, TypeOK
  <2>2. IsFiniteSet(Settled)
    BY <1>1, FS_Subset DEF FiniteInv
  <2> QED
    BY <1>1, <2>1, <2>2, SumAdd
<1> QED
  BY <1>1, <1>2 DEF CreditOf, GrantsTo

\* mature_round moves one round from the one sum to the other.
LEMMA MatureSums ==
  ASSUME IInv, FiniteInv, MatureRound, NEW a \in Addr
  PROVE  /\ CreditOf(Settled, a) = roundCredits[pollTask][a] + CreditOf(Settled, a)'
         /\ CreditOf(Credited, a)' = roundCredits[pollTask][a] + CreditOf(Credited, a)
         /\ roundCredits[pollTask][a] \in Nat
         /\ CreditOf(Settled, a)' \in Nat /\ CreditOf(Credited, a) \in Nat
<1> DEFINE p == pollTask
<1>1. p \in Task /\ rounds[p] = "immature" /\ depth[BlockOf[p]] >= Maturity
  BY DEF MatureRound, IInv, RoundInv, PollInv, Pending
<1>2. pc[p] # "immature"
  BY <1>1, LedgerAssumption DEF IInv, TypeOK, RoundInv, TaskInv, Crediting
<1>3. /\ Settled' = Settled \ {p} /\ p \in Settled
      /\ Credited' = Credited \cup {p} /\ p \notin Credited
      /\ Settled \subseteq AllRounds /\ Credited \cup {p} \subseteq AllRounds
      /\ roundCredits' = roundCredits
  BY <1>1, <1>2 DEF MatureRound, taskVars, IInv, TypeOK, Settled, Pending,
     Credited, AllRounds
<1>4. \A u \in AllRounds : GrantsTo(a)[u] \in Nat
  BY DEF GrantsTo, AllRounds, IInv, TypeOK
<1>5. IsFiniteSet(Settled) /\ IsFiniteSet(Credited)
  BY <1>3, FS_Subset DEF FiniteInv
<1>6. SumFunctionOnSet(GrantsTo(a), Settled) =
         GrantsTo(a)[p] + SumFunctionOnSet(GrantsTo(a), Settled \ {p})
  BY <1>3, <1>4, <1>5, SumAny
<1>7. SumFunctionOnSet(GrantsTo(a), Credited \cup {p}) =
         GrantsTo(a)[p] + SumFunctionOnSet(GrantsTo(a), Credited)
  BY <1>3, <1>4, <1>5, SumAdd
<1>8. /\ CreditOf(Settled \ {p}, a) \in Nat /\ CreditOf(Credited, a) \in Nat
      /\ GrantsTo(a)[p] \in Nat
  BY <1>3, <1>4, CreditNat DEF IInv, FiniteInv
<1> QED
  BY <1>1, <1>3, <1>6, <1>7, <1>8 DEF CreditOf, GrantsTo

\* A task that ends before add_immature_credits settles its round.
LEMMA LossSums ==
  ASSUME IInv, FiniteInv, Crash \/ \E t \in Task : CommitFails(t), NEW a \in Addr
  PROVE  /\ CreditOf(Settled, a) <= CreditOf(Settled, a)'
         /\ CreditOf(Settled, a) \in Nat /\ CreditOf(Settled, a)' \in Nat
         /\ CreditOf(Credited, a)' = CreditOf(Credited, a)
<1>1. /\ Settled \subseteq Settled' /\ Settled' \subseteq AllRounds
      /\ Credited' = Credited /\ roundCredits' = roundCredits
  BY DEF Crash, CommitFails, Goto, dbRounds, IInv, TypeOK, Settled, Pending,
     Credited, AllRounds
<1>2. \A T \in SUBSET AllRounds :
         /\ CreditOf(T, a) \in Nat
         /\ \A U \in SUBSET T : CreditOf(U, a) <= CreditOf(T, a)
  BY CreditNat DEF IInv, FiniteInv
<1>3. /\ CreditOf(Settled, a) \in Nat /\ CreditOf(Settled', a) \in Nat
      /\ CreditOf(Settled, a) <= CreditOf(Settled', a)
  BY <1>1, <1>2
<1> QED
  BY <1>1, <1>3 DEF CreditOf

\* No other step changes what has been settled or credited.
BookStep ==
    \/ \E t \in Task : CreateMiningRound(t) \/ AddImmatureCredits(t) \/ CommitFails(t)
    \/ MatureRound \/ DebitBalance \/ Crash

LEMMA QuietStep ==
  ASSUME IInv, [Next]_vars, ~BookStep
  PROVE  UNCHANGED <<row, immature, balance, paidTotal, Settled, Credited, roundCredits>>
<1> USE DEF BookStep
<1>1. UNCHANGED <<dbBalances, rounds, roundCredits>>
  BY DEF Next, vars, TaskStep, Submit, SubmitRefused, SubmitReplyLost,
     ComputeCredits, RecordBlock, PollStep, PollStart, PollFetch, PollError,
     PollUpdate, PayStep, PayStart, DryRunPayout, SendToAddress, SendReplyLost,
     SendRejected, SendErrored, RecordPayout, NodeStep, NodeAccepts,
     NodeExtends, NodeReorganises, NodeReactivates, PollFails, PayFails,
     dbRounds, dbBalances
<1>2. \A t \in Task : pc'[t] = "immature" <=> pc[t] = "immature"
  <2>1. CASE \E t \in Task : TaskStep(t)
    BY <2>1 DEF TaskStep, Submit, SubmitRefused, SubmitReplyLost, ComputeCredits,
       RecordBlock, StepAfter, Goto, IInv, TypeOK
  <2>2. CASE NodeStep
    BY <2>2 DEF NodeStep, NodeAccepts, NodeExtends, NodeReorganises,
       NodeReactivates, StepAfter, Goto, taskVars, IInv, TypeOK
  <2>3. CASE PollStep \/ PayStep \/ PollFails \/ PayFails \/ UNCHANGED vars
    BY <2>3 DEF PollFails, PayFails, PollStep, PollStart, PollFetch, PollError, PollUpdate, PayStep,
       PayStart, DryRunPayout, SendToAddress, SendReplyLost, SendRejected,
       SendErrored, RecordPayout, vars, taskVars
  <2> QED
    BY <2>1, <2>2, <2>3 DEF Next
<1> QED
  BY <1>1, <1>2 DEF Settled, Pending, Credited, dbBalances

\* debit_balance moves the amount from balance_sats to paid_total_sats: the
\* clamp never bites.
LEMMA DebitMoves ==
  ASSUME IInv, DebitBalance
  PROVE  /\ UNCHANGED <<row, immature, Settled, Credited, roundCredits>>
         /\ \A a \in Addr : balance'[a] + paidTotal'[a] = balance[a] + paidTotal[a]
<1>1. UNCHANGED <<row, immature, Settled, Credited, roundCredits>>
  BY DEF DebitBalance, taskVars, dbRounds, Settled, Pending, Credited
<1>2. /\ payAddr \in Addr
      /\ payAmount[payAddr] \in Nat /\ payAmount[payAddr] <= balance[payAddr]
  BY DEF DebitBalance, IInv, PayInv, InFlightCovered, TypeOK
<1>3. \A x, y \in Nat : y <= x => Clamp(x - y) = x - y
  BY DEF Clamp
<1>4. Clamp(balance[payAddr] - payAmount[payAddr]) = balance[payAddr] - payAmount[payAddr]
  BY <1>2, <1>3 DEF IInv, TypeOK
<1>5. /\ balance' = [balance EXCEPT ![payAddr] = balance[payAddr] - payAmount[payAddr]]
      /\ paidTotal' = [paidTotal EXCEPT ![payAddr] = paidTotal[payAddr] + payAmount[payAddr]]
  BY <1>4 DEF DebitBalance, DebitAmount
<1> QED
  BY <1>1, <1>2, <1>5 DEF IInv, TypeOK

LEMMA OverInductive ==
  ASSUME IInv, BookInv, [Next]_vars, IInv'
  PROVE  OverInv'
<1> USE DEF BookInv
<1>0. /\ immature \in [Addr -> Nat] /\ balance \in [Addr -> Nat]
      /\ paidTotal \in [Addr -> Nat] /\ row \subseteq Addr
      /\ award \in [Task -> [Addr -> Nat]]
  BY DEF IInv, TypeOK
<1>1. CASE ~BookStep
  BY <1>1, QuietStep DEF OverInv, CreditOf
<1>2. ASSUME NEW t \in Task, CreateMiningRound(t)
      PROVE  OverInv'
  BY <1>2, GrantSums DEF CreateMiningRound, dbBalances, OverInv
<1>3. ASSUME NEW t \in Task, AddImmatureCredits(t)
      PROVE  OverInv'
  <2>1. /\ row' = row \cup {a \in Addr : award[t][a] > 0}
        /\ immature' = [a \in Addr |-> immature[a] + award[t][a]]
        /\ balance' = balance /\ paidTotal' = paidTotal
    BY <1>3 DEF AddImmatureCredits, Added
  <2>2. \A a \in Addr \ row' : immature'[a] = 0
    BY <1>0, <2>1 DEF OverInv
  <2>3. ASSUME NEW a \in Addr
        PROVE  /\ immature'[a] <= CreditOf(Settled, a)'
               /\ balance'[a] + paidTotal'[a] <= CreditOf(Credited, a)'
    <3>1. CreditOf(Settled, a) \in Nat
      BY CreditNat DEF IInv, FiniteInv, Settled, Pending, AllRounds
    <3> QED
      BY <1>0, <1>3, <2>1, <3>1, AddSums DEF OverInv
  <2> QED
    BY <2>2, <2>3 DEF OverInv
<1>4. CASE MatureRound
  <2>1. \A a \in Addr :
           /\ a \in row =>
                 /\ immature'[a] = Clamp(immature[a] - roundCredits[pollTask][a])
                 /\ balance'[a] = balance[a] + roundCredits[pollTask][a]
           /\ a \notin row => immature'[a] = immature[a] /\ balance'[a] = balance[a]
    BY <1>4 DEF MatureRound
  <2>2. row' = row /\ paidTotal' = paidTotal
    BY <1>4 DEF MatureRound
  <2>3. ASSUME NEW a \in Addr
        PROVE  /\ immature'[a] <= CreditOf(Settled, a)'
               /\ balance'[a] + paidTotal'[a] <= CreditOf(Credited, a)'
               /\ a \notin row => immature'[a] = 0
    <3>1. /\ CreditOf(Settled, a) = roundCredits[pollTask][a] + CreditOf(Settled, a)'
          /\ CreditOf(Credited, a)' = roundCredits[pollTask][a] + CreditOf(Credited, a)
          /\ roundCredits[pollTask][a] \in Nat
          /\ CreditOf(Settled, a)' \in Nat /\ CreditOf(Credited, a) \in Nat
      BY <1>4, MatureSums
    <3>2. CASE a \in row
      BY <1>0, <2>1, <2>2, <3>1, <3>2 DEF OverInv, Clamp
    <3>3. CASE a \notin row
      BY <1>0, <2>1, <2>2, <3>1, <3>3 DEF OverInv
    <3> QED
      BY <3>2, <3>3
  <2> QED
    BY <2>2, <2>3 DEF OverInv
<1>5. CASE DebitBalance
  BY <1>5, DebitMoves DEF OverInv, CreditOf
<1>6. CASE Crash \/ \E t \in Task : CommitFails(t)
  <2>1. UNCHANGED dbBalances
    BY <1>6 DEF Crash, CommitFails
  <2> QED
    BY <1>0, <1>6, <2>1, LossSums DEF OverInv, dbBalances
<1> QED
  BY <1>1, <1>2, <1>3, <1>4, <1>5, <1>6 DEF BookStep

LEMMA BookInductive ==
  /\ Init => BookInv
  /\ IInv /\ BookInv /\ [Next]_vars => BookInv'
<1>1. Init => BookInv
  <2> SUFFICES ASSUME Init PROVE BookInv
    OBVIOUS
  <2>1. AwardInv
    BY DEF Init, AwardInv
  <2>2. AllRounds = {} /\ Seen = {} /\ Settled = {} /\ Credited = {}
    BY DEF Init, AllRounds, Seen, Settled, Pending, Credited
  <2>3. FiniteInv
    BY <2>2, FS_EmptySet DEF FiniteInv
  <2>4. \A a \in Addr : CreditOf({}, a) = 0
    BY SumEmpty DEF CreditOf
  <2>5. OverInv
    BY <2>2, <2>4 DEF OverInv, Init, Zero
  <2> QED
    BY <2>1, <2>3, <2>5 DEF BookInv
<1>2. IInv /\ BookInv /\ [Next]_vars => BookInv'
  BY IInvInductive, AwardInductive, FiniteInductive, OverInductive DEF BookInv
<1> QED
  BY <1>1, <1>2

\* Whatever crashes, replies or commits are lost, the books grant nobody more
\* than the rounds: a commit that is lost is missing on the smaller side, and
\* the clamps of mature_round and debit_balance forgive nothing.
THEOREM NobodyOverCredited == Spec => []NeverOverCredited
<1>1. IInv /\ BookInv => NeverOverCredited
  <2> SUFFICES ASSUME IInv, BookInv, NEW a \in Addr
               PROVE  /\ immature[a] <= CreditOf(Pending, a)
                      /\ balance[a] + paidTotal[a] <= CreditOf(Credited, a)
    BY DEF NeverOverCredited
  <2>1. Settled \subseteq Pending /\ Pending \subseteq AllRounds
    BY DEF Settled, Pending, AllRounds
  <2>2. /\ CreditOf(Settled, a) <= CreditOf(Pending, a)
        /\ CreditOf(Settled, a) \in Nat /\ CreditOf(Pending, a) \in Nat
    BY <2>1, CreditNat DEF IInv, BookInv, FiniteInv
  <2> QED
    BY <2>2 DEF BookInv, OverInv, IInv, TypeOK
<1> QED
  BY <1>1, IInvInductive, BookInductive, PTL DEF Spec

-----------------------------------------------------------------------------
(* Without faults the ledger implements Accounts                           *)

\* A round whose credit_block has ended has a balance row for every address
\* it credits, so the UPDATE of mature_round finds them all.
RowInv ==
    \A t \in Task :
        /\ pc[t] = "immature" => roundCredits[t] = award[t]
        /\ rounds[t] # "none" /\ pc[t] # "immature" =>
              \A a \in Addr \ row : roundCredits[t][a] = 0

LEMMA RowInductive ==
  ASSUME MaxFaults = 0, IInv, RowInv, [Next]_vars, IInv'
  PROVE  RowInv'
<1> USE DEF IInv, TypeOK, RowInv
<1>1. ASSUME NEW t \in Task, TaskStep(t)
      PROVE  RowInv'
  <2>1. CASE CreateMiningRound(t)
    BY <2>1 DEF CreateMiningRound, Goto, dbBalances
  <2>2. CASE AddImmatureCredits(t)
    BY <2>2 DEF AddImmatureCredits, Added, Goto, dbRounds
  <2>3. CASE RecordBlock(t)
    BY <2>3 DEF RecordBlock, Goto, RoundInv, TaskInv, dbBalances
  <2>4. CASE Submit(t) \/ SubmitRefused(t) \/ ComputeCredits(t)
    BY <2>4 DEF Submit, SubmitRefused, ComputeCredits, Goto, RoundInv, TaskInv,
       dbRounds, dbBalances
  <2>5. ~SubmitReplyLost(t) /\ ~CommitFails(t)
    BY DEF SubmitReplyLost, CommitFails, AtMostFaults
  <2> QED
    BY <1>1, <2>1, <2>2, <2>3, <2>4, <2>5 DEF TaskStep
<1>2. CASE PollStep
  <2>1. UNCHANGED <<pc, award, roundCredits, row>>
    BY <1>2 DEF PollStep, PollStart, PollFetch, PollError, PollUpdate,
       MatureRound, taskVars, dbRounds, dbBalances
  <2>2. \A t \in Task : rounds'[t] # "none" => rounds[t] # "none"
    BY <1>2 DEF PollStep, PollStart, PollFetch, PollError, PollUpdate,
       MatureRound, dbRounds, RoundInv, PollInv, Pending
  <2> QED
    BY <2>1, <2>2
<1>3. CASE PayStep \/ UNCHANGED vars
  BY <1>3 DEF PayStep, PayStart, DryRunPayout, SendToAddress, SendReplyLost,
     SendRejected, SendErrored, RecordPayout, DebitBalance, vars, taskVars,
     dbRounds, dbBalances
<1>4. CASE NodeStep
  <2>1. CASE \E t \in Task : NodeAccepts(t)
    BY <2>1 DEF NodeAccepts, StepAfter, Goto, dbRounds, dbBalances, RoundInv, TaskInv
  <2>2. CASE ~\E t \in Task : NodeAccepts(t)
    BY <1>4, <2>2 DEF NodeStep, NodeExtends, NodeReorganises, NodeReactivates,
       taskVars, dbRounds, dbBalances
  <2> QED
    BY <2>1, <2>2
<1>5. ~PollFails /\ ~PayFails /\ ~Crash
  BY DEF PollFails, PayFails, Crash, AtMostFaults
<1> QED
  BY <1>1, <1>2, <1>3, <1>4, <1>5 DEF Next

LEMMA InitImplements == Init => Abstract!Init
  BY DEF Init, Abstract!Init, Zero

\* Only three commits are visible: the rest of the machinery is a stutter.
LEMMA StepImplements ==
  ASSUME MaxFaults = 0, IInv, RowInv, [Next]_vars
  PROVE  [Abstract!Next]_(Abstract!accounts)
<1> USE DEF IInv, TypeOK
<1>1. ASSUME NEW t \in Task, CreateMiningRound(t)
      PROVE  Abstract!Grant(t)
  BY <1>1 DEF CreateMiningRound, Abstract!Grant, RoundInv, TaskInv, dbBalances
<1>2. ASSUME MatureRound
      PROVE  Abstract!Mature(pollTask)
  <2>1. /\ pollTask \in Task /\ rounds[pollTask] = "immature"
        /\ depth[BlockOf[pollTask]] >= Maturity
    BY <1>2 DEF MatureRound, RoundInv, PollInv, Pending
  <2>2. pc[pollTask] # "immature"
    BY <2>1, LedgerAssumption DEF RoundInv, TaskInv, Crediting
  <2>3. \A a \in Addr \ row : roundCredits[pollTask][a] = 0
    BY <2>1, <2>2 DEF RowInv
  <2>4. balance' = [a \in Addr |-> balance[a] + roundCredits[pollTask][a]]
    BY <1>2, <2>1, <2>3 DEF MatureRound
  <2> QED
    BY <1>2, <2>1, <2>4 DEF MatureRound, Abstract!Mature
<1>3. ASSUME DebitBalance
      PROVE  Abstract!Pay(payAddr)
  <2>1. /\ payAddr \in Addr
        /\ payAmount[payAddr] \in 0 .. balance[payAddr]
    BY <1>3 DEF DebitBalance, PayInv, InFlightCovered
  <2>2. \A x \in Nat : \A y \in 0 .. x : Clamp(x - y) = x - y
    BY DEF Clamp
  <2>3. Clamp(balance[payAddr] - payAmount[payAddr]) = balance[payAddr] - payAmount[payAddr]
    BY <2>1, <2>2
  <2> QED
    BY <1>3, <2>1, <2>3 DEF DebitBalance, DebitAmount, Abstract!Pay, dbRounds
<1>4. ASSUME ~\E t \in Task : CreateMiningRound(t), ~MatureRound, ~DebitBalance
      PROVE  UNCHANGED Abstract!accounts
  BY <1>4 DEF Abstract!accounts, Next, vars, TaskStep, Submit, SubmitRefused,
     SubmitReplyLost, ComputeCredits, RecordBlock, AddImmatureCredits,
     CommitFails, PollStep, PollStart, PollFetch, PollError, PollUpdate,
     PayStep, PayStart, DryRunPayout, SendToAddress, SendReplyLost,
     SendRejected, SendErrored, RecordPayout, NodeStep, NodeAccepts,
     NodeExtends, NodeReorganises, NodeReactivates, PollFails, PayFails, Crash,
     dbRounds, dbBalances
<1>5. payAddr \in Addr \/ ~DebitBalance
  BY DEF DebitBalance, PayInv
<1> QED
  BY <1>1, <1>2, <1>3, <1>4, <1>5 DEF Abstract!Next

\* Without faults the commits of credit_block, the maturity thread and the
\* payout thread amount to atomic grants, maturations and payments: no
\* interleaving forgives, invents or repeats one.
THEOREM LedgerImplementsAccounts ==
  ASSUME MaxFaults = 0
  PROVE  Spec => ImplementsAccounts
<1>1. Init => RowInv
  BY DEF Init, RowInv
<1>2. IInv /\ RowInv /\ [Next]_vars => IInv' /\ RowInv'
  BY IInvInductive, RowInductive
<1> QED
  BY <1>1, <1>2, IInvInductive, InitImplements, StepImplements, PTL
  DEF Spec, ImplementsAccounts, Abstract!Spec

-----------------------------------------------------------------------------
(* Without faults the books are exact                                      *)

LEMMA NoFaults ==
  ASSUME MaxFaults = 0, IInv
  PROVE  /\ ~PollFails /\ ~PayFails /\ ~Crash
         /\ \A t \in Task : ~CommitFails(t)
         /\ \A a \in Addr : ~SendReplyLost(a)
  BY DEF IInv, TypeOK, PollFails, PayFails, Crash, CommitFails, SendReplyLost, AtMostFaults

LEMMA ExactInductive ==
  ASSUME MaxFaults = 0, IInv, RowInv, BookInv, BooksExact, [Next]_vars
  PROVE  BooksExact'
<1>0. /\ immature \in [Addr -> Nat] /\ balance \in [Addr -> Nat]
      /\ paidTotal \in [Addr -> Nat] /\ row \subseteq Addr
      /\ award \in [Task -> [Addr -> Nat]]
  BY DEF IInv, TypeOK
<1>a. BooksExact =
         \A a \in Addr : /\ immature[a] = CreditOf(Settled, a)
                         /\ balance[a] + paidTotal[a] = CreditOf(Credited, a)
  BY DEF BooksExact, Settled
<1>b. SUFFICES ASSUME NEW a \in Addr
               PROVE  /\ immature'[a] = CreditOf(Settled, a)'
                      /\ balance'[a] + paidTotal'[a] = CreditOf(Credited, a)'
  BY DEF BooksExact, Settled
<1>c. /\ immature[a] = CreditOf(Settled, a)
      /\ balance[a] + paidTotal[a] = CreditOf(Credited, a)
  BY <1>a
<1>1. CASE ~BookStep
  BY <1>1, <1>c, QuietStep DEF CreditOf
<1>2. ASSUME NEW t \in Task, CreateMiningRound(t)
      PROVE  /\ immature'[a] = CreditOf(Settled, a)'
             /\ balance'[a] + paidTotal'[a] = CreditOf(Credited, a)'
  BY <1>2, <1>c, IInvInductive, GrantSums DEF CreateMiningRound, dbBalances, BookInv
<1>3. ASSUME NEW t \in Task, AddImmatureCredits(t)
      PROVE  /\ immature'[a] = CreditOf(Settled, a)'
             /\ balance'[a] + paidTotal'[a] = CreditOf(Credited, a)'
  <2>1. /\ immature'[a] = immature[a] + award[t][a]
        /\ balance' = balance /\ paidTotal' = paidTotal
    BY <1>3 DEF AddImmatureCredits, Added
  <2>2. CreditOf(Settled, a)' = award[t][a] + CreditOf(Settled, a)
    BY <1>3, AddSums DEF BookInv
  <2>3. CreditOf(Credited, a)' = CreditOf(Credited, a)
    BY <1>3, AddSums DEF BookInv
  <2>4. immature[a] \in Nat /\ award[t][a] \in Nat
    BY <1>0
  <2> QED
    BY <1>c, <2>1, <2>2, <2>3, <2>4
<1>4. CASE MatureRound
  <2> DEFINE c == roundCredits[pollTask][a]
  <2>1. /\ CreditOf(Settled, a) = c + CreditOf(Settled, a)'
        /\ CreditOf(Credited, a)' = c + CreditOf(Credited, a)
        /\ c \in Nat /\ CreditOf(Settled, a)' \in Nat
    BY <1>4, MatureSums DEF BookInv
  <2>2. a \notin row => c = 0
    <3>1. pollTask \in Task /\ rounds[pollTask] = "immature"
          /\ depth[BlockOf[pollTask]] >= Maturity
      BY <1>4 DEF MatureRound, IInv, RoundInv, PollInv, Pending
    <3>2. pc[pollTask] # "immature"
      BY <3>1, LedgerAssumption DEF IInv, TypeOK, RoundInv, TaskInv, Crediting
    <3> QED
      BY <3>1, <3>2 DEF RowInv
  <2>3. /\ a \in row => /\ immature'[a] = Clamp(immature[a] - c)
                        /\ balance'[a] = balance[a] + c
        /\ a \notin row => immature'[a] = immature[a] /\ balance'[a] = balance[a]
        /\ paidTotal' = paidTotal
    BY <1>4 DEF MatureRound
  <2>4. \A x, y \in Nat : Clamp((x + y) - x) = y
    BY DEF Clamp
  <2>5. a \in row => immature'[a] = CreditOf(Settled, a)'
    BY <1>c, <2>1, <2>3, <2>4
  <2>6. balance[a] \in Nat /\ paidTotal[a] \in Nat
    BY <1>0
  <2> HIDE DEF c
  <2> QED
    BY <1>c, <2>1, <2>2, <2>3, <2>5, <2>6
<1>5. CASE DebitBalance
  BY <1>5, <1>c, DebitMoves DEF CreditOf
<1> QED
  BY <1>1, <1>2, <1>3, <1>4, <1>5, NoFaults DEF BookStep

\* Without faults the columns of miner_balances are exactly what the rounds
\* say, whatever the three threads of control interleave: mature_round finds
\* every row, and no clamp loses a unit.
THEOREM BooksAreExact ==
  ASSUME MaxFaults = 0
  PROVE  Spec => []BooksExact
<1> DEFINE Inv == IInv /\ RowInv /\ BookInv /\ BooksExact
<1>1. Init => Inv
  <2>1. Init => RowInv
    BY DEF Init, RowInv
  <2>2. Init => BooksExact
    <3> SUFFICES ASSUME Init PROVE BooksExact
      OBVIOUS
    <3>1. Pending = {} /\ Credited = {}
      BY DEF Init, Pending, Credited
    <3>2. \A a \in Addr : CreditOf({}, a) = 0
      BY SumEmpty DEF CreditOf
    <3>3. {t \in Pending : pc[t] # "immature"} = {}
      BY <3>1
    <3> QED
      BY <3>1, <3>2, <3>3 DEF BooksExact, Init, Zero
  <2> QED
    BY <2>1, <2>2, IInvInductive, BookInductive
<1>2. Inv /\ [Next]_vars => Inv'
  BY IInvInductive, RowInductive, BookInductive, ExactInductive
<1>3. Inv => BooksExact
  OBVIOUS
<1> HIDE DEF Inv
<1> QED
  BY <1>1, <1>2, <1>3, PTL DEF Spec

-----------------------------------------------------------------------------
(* Without faults the books and the wallet agree                           *)

\* What was sent is paid by the books, or in flight between sendtoaddress and
\* debit_balance.  A dry run pays by the books alone.
SentInv ==
    \A a \in Addr : /\ onchain[a] <= paidTotal[a] + InFlight(a)
                    /\ ~dryRun => onchain[a] = paidTotal[a] + InFlight(a)

LEMMA SentInductive ==
  ASSUME MaxFaults = 0, IInv, SentInv, [Next]_vars
  PROVE  SentInv'
<1> USE DEF IInv, TypeOK, PayInv, SentInv, InFlight
<1>0. Nobody \notin Addr /\ dryRun' = dryRun
  BY LedgerAssumption, DryRunIsFixed
<1>1. CASE UNCHANGED <<paidTotal, onchain, payAddr, payAmount>>
  BY <1>0, <1>1
<1>2. CASE PayStart
  BY <1>0, <1>2 DEF PayStart, dbBalances, nodeVars
<1>3. CASE \E a \in Addr : DryRunPayout(a)
  BY <1>0, <1>3 DEF DryRunPayout, IsNextRow, dbBalances, nodeVars
<1>4. CASE \E a \in Addr : SendToAddress(a)
  BY <1>0, <1>4 DEF SendToAddress, WalletSends, IsNextRow, dbBalances
<1>5. CASE \E a \in Addr : SendRejected(a) \/ SendErrored(a)
  BY <1>0, <1>5 DEF SendRejected, SendErrored, NextRow, Rest, IsNextRow,
     dbBalances, nodeVars
<1>6. CASE RecordPayout
  BY <1>0, <1>6 DEF RecordPayout, dbBalances, nodeVars
<1>7. CASE DebitBalance
  BY <1>0, <1>7 DEF DebitBalance, DebitAmount, NextRow, Rest, nodeVars
<1>8. CASE \/ UNCHANGED vars \/ PollStep \/ NodeStep
           \/ \E t \in Task : TaskStep(t)
  <2>1. UNCHANGED <<paidTotal, onchain, payVars>>
    BY <1>8 DEF vars, TaskStep, Submit, SubmitRefused, SubmitReplyLost,
       ComputeCredits, RecordBlock, CreateMiningRound, AddImmatureCredits,
       CommitFails, PollStep, PollStart, PollFetch, PollError, PollUpdate,
       MatureRound, NodeStep, NodeAccepts, NodeExtends, NodeReorganises,
       NodeReactivates, dbBalances, nodeVars
  <2> QED
    BY <2>1, <1>1 DEF payVars
<1> QED
  BY <1>2, <1>3, <1>4, <1>5, <1>6, <1>7, <1>8, NoFaults DEF Next, PayStep

LEMMA InitSent == Init => SentInv
  BY DEF Init, SentInv, InFlight, Zero

\* Without faults the chain shows exactly what the books call paid, and what
\* the payout thread has just sent.
THEOREM PaidExactlySent ==
  ASSUME MaxFaults = 0, DryRunSettings = {FALSE}
  PROVE  Spec => []PaidIsSent
<1> DEFINE Inv == IInv /\ SentInv /\ ~dryRun
<1>1. Init => Inv
  BY IInvInductive, InitSent DEF Init
<1>2. Inv /\ [Next]_vars => Inv'
  BY IInvInductive, SentInductive, DryRunIsFixed
<1>3. Inv => PaidIsSent
  BY DEF SentInv, PaidIsSent
<1> HIDE DEF Inv
<1> QED
  BY <1>1, <1>2, <1>3, PTL DEF Spec

\* When btxd charges nothing, what left the wallet is what the chain shows.
WalletInv == walletOut = SumFunctionOnSet(onchain, Addr)

LEMMA WalletInductive ==
  ASSUME TxFee = 0, IsFiniteSet(Addr), IInv, WalletInv, [Next]_vars
  PROVE  WalletInv'
<1>1. ASSUME NEW a \in Addr, WalletSends(a)
      PROVE  WalletInv'
  <2>1. /\ payAmount[a] \in Nat /\ onchain \in [Addr -> Nat] /\ walletOut \in Nat
    BY DEF IInv, TypeOK
  <2>2. /\ \A b \in Addr : onchain[b] \in Int
        /\ onchain'[a] = onchain[a] + payAmount[a]
        /\ \A b \in Addr \ {a} : onchain'[b] = onchain[b]
    BY <1>1, <2>1 DEF WalletSends
  <2>3. SumFunctionOnSet(onchain', Addr) = SumFunctionOnSet(onchain, Addr) + payAmount[a]
    BY <2>1, <2>2, SumChange
  <2>4. walletOut' = walletOut + payAmount[a]
    BY <1>1, <2>1 DEF WalletSends
  <2> QED
    BY <2>3, <2>4 DEF WalletInv
<1>2. CASE UNCHANGED <<onchain, walletOut>>
  BY <1>2 DEF WalletInv
<1>3. \/ \E a \in Addr : WalletSends(a)
      \/ UNCHANGED <<onchain, walletOut>>
  BY DEF Next, vars, TaskStep, Submit, SubmitRefused, SubmitReplyLost,
     ComputeCredits, RecordBlock, CreateMiningRound, AddImmatureCredits,
     CommitFails, PollStep, PollStart, PollFetch, PollError, PollUpdate,
     MatureRound, PayStep, PayStart, DryRunPayout, SendToAddress,
     SendReplyLost, SendRejected, SendErrored, RecordPayout, DebitBalance,
     NodeStep, NodeAccepts, NodeExtends, NodeReorganises, NodeReactivates,
     PollFails, PayFails, Crash, nodeVars
<1> QED
  BY <1>1, <1>2, <1>3

\* The final blocks, and the rounds that were credited for them: one each.
Final == {b \in Block : depth[b] >= Maturity}

LEMMA CreditedBlocks ==
  ASSUME IInv, BookInv
  PROVE  /\ IsFiniteSet(Credited) /\ IsFiniteSet(Final)
         /\ Cardinality(Credited) \in Nat /\ Cardinality(Final) \in Nat
         /\ Cardinality(Credited) <= Cardinality(Final)
<1>1. IsFiniteSet(Final)
  <2>1. Final \subseteq Seen
    BY LedgerAssumption DEF Final, Seen, IInv, TypeOK
  <2> QED
    BY <2>1, FS_Subset DEF BookInv, FiniteInv
<1> DEFINE f == [t \in Credited |-> BlockOf[t]]
<1>2. f \in Injection(Credited, Final)
  <2>1. \A t \in Credited : BlockOf[t] \in Final /\ t \in blockRow /\ t \in Task
    BY LedgerAssumption DEF Credited, Final, IInv, RoundInv, PollInv,
       CreditedIsMature, BookInv, AwardInv
  <2>2. \A t, u \in Credited : BlockOf[t] = BlockOf[u] => t = u
    BY <2>1 DEF IInv, RoundInv, ClaimInv, Claims
  <2> QED
    BY <2>1, <2>2 DEF Injection, IsInjective
<1>3. IsFiniteSet(Credited) /\ Cardinality(Credited) <= Cardinality(Final)
  <2> HIDE DEF f
  <2> QED
    BY <1>1, <1>2, FS_Injection
<1> QED
  BY <1>1, <1>3, FS_CardinalityType

\* All that was ever credited is at most one reward per final block.
LEMMA CreditsBounded ==
  ASSUME IsFiniteSet(Addr), \A c \in Awards : SumFunctionOnSet(c, Addr) <= Reward,
         IInv, BookInv
  PROVE  SumFunctionOnSet([a \in Addr |-> CreditOf(Credited, a)], Addr)
            <= Reward * Cardinality(Final)
<1> DEFINE grants == [a \in Addr |-> CreditOf(Credited, a)]
           column == [a \in Addr |-> GrantsTo(a)]
           total == RowSums(roundCredits, Credited, Addr)
<1>1. \A t \in Credited : /\ t \in Task /\ roundCredits[t] \in Awards
                          /\ \A a \in Addr : roundCredits[t][a] \in Int
  BY DEF Credited, BookInv, AwardInv, IInv, TypeOK
<1>2. /\ IsFiniteSet(Credited) /\ IsFiniteSet(Final)
      /\ Cardinality(Credited) \in Nat /\ Cardinality(Final) \in Nat
      /\ Cardinality(Credited) <= Cardinality(Final)
  BY CreditedBlocks
<1>3. \A t \in Credited : \A a \in Addr :
         roundCredits[t][a] \in Int /\ column[a][t] = roundCredits[t][a]
  BY <1>1 DEF GrantsTo
<1>4. grants = RowSums(column, Addr, Credited)
  BY DEF RowSums, CreditOf, GrantsTo
<1>5. SumFunctionOnSet(total, Credited) = SumFunctionOnSet(grants, Addr)
  <2> HIDE DEF grants, column
  <2> QED
    BY <1>2, <1>3, <1>4, SumSwap
<1>6. \A t \in Credited : total[t] \in Int /\ total[t] <= Reward
  BY <1>1, SumInt DEF RowSums
<1>7. SumFunctionOnSet(total, Credited) <= Reward * Cardinality(Credited)
  <2> HIDE DEF total
  <2> QED
    BY <1>2, <1>6, SumBound, LedgerAssumption
<1>8. SumFunctionOnSet(total, Credited) \in Int
  <2> HIDE DEF total
  <2> QED
    BY <1>2, <1>6, SumInt
<1>9. \A r, m, n \in Nat : m <= n => r * m <= r * n /\ r * m \in Nat /\ r * n \in Nat
  OBVIOUS
<1>10. /\ Reward * Cardinality(Credited) <= Reward * Cardinality(Final)
       /\ Reward * Cardinality(Credited) \in Nat /\ Reward * Cardinality(Final) \in Nat
  BY <1>2, <1>9, LedgerAssumption
<1> HIDE DEF grants, column, total
<1>11. SumFunctionOnSet(grants, Addr) <= Reward * Cardinality(Final)
  BY <1>5, <1>7, <1>8, <1>10
<1> QED
  BY <1>11 DEF grants

LEMMA BalancesCovered ==
  ASSUME IsFiniteSet(Addr), \A c \in Awards : SumFunctionOnSet(c, Addr) <= Reward,
         IInv, BookInv, SentInv, WalletInv
  PROVE  WalletCoversBalances
<1> DEFINE grants == [a \in Addr |-> CreditOf(Credited, a)]
           open == [a \in Addr |-> balance[a] - InFlight(a)]
           both == [a \in Addr |-> open[a] + onchain[a]]
<1>1. \A a \in Addr : /\ balance[a] \in Nat /\ paidTotal[a] \in Nat
                      /\ onchain[a] \in Nat /\ InFlight(a) \in Nat
                      /\ CreditOf(Credited, a) \in Nat
  <2>1. \A a \in Addr : CreditOf(Credited, a) \in Nat
    BY CreditNat DEF IInv, BookInv, FiniteInv, Credited, AllRounds
  <2> QED
    BY <2>1 DEF IInv, TypeOK, InFlight
<1>2. \A a \in Addr : /\ open[a] \in Int /\ onchain[a] \in Int
                      /\ both[a] = open[a] + onchain[a] /\ both[a] \in Int
                      /\ grants[a] \in Int /\ both[a] <= grants[a]
  BY <1>1 DEF BookInv, OverInv, SentInv
<1>3. SumFunctionOnSet(grants, Addr) <= Reward * Cardinality(Final)
  BY CreditsBounded
<1> HIDE DEF grants, open, both
<1>4. SumFunctionOnSet(both, Addr) = SumFunctionOnSet(open, Addr) + SumFunctionOnSet(onchain, Addr)
  BY <1>2, SumPlus
<1>5. SumFunctionOnSet(both, Addr) <= SumFunctionOnSet(grants, Addr)
  BY <1>2, SumMonotone
<1>6. /\ SumFunctionOnSet(open, Addr) \in Int /\ SumFunctionOnSet(onchain, Addr) \in Int
      /\ SumFunctionOnSet(grants, Addr) \in Int
  BY <1>2, SumInt
<1>7. Reward * Cardinality(Final) \in Nat /\ Reserve \in Nat
  BY CreditedBlocks, LedgerAssumption
<1>8. SumFunctionOnSet(open, Addr)
        <= (Reserve + Reward * Cardinality(Final)) - SumFunctionOnSet(onchain, Addr)
  BY <1>3, <1>4, <1>5, <1>6, <1>7
<1>9. Spendable = (Reserve + Reward * Cardinality(Final)) - walletOut
  <2>1. walletOut \in Nat
    BY DEF IInv, TypeOK
  <2> QED
    BY <1>7, <2>1 DEF Spendable, Final
<1>10. walletOut = SumFunctionOnSet(onchain, Addr)
  BY DEF WalletInv
<1>11. SumFunctionOnSet(open, Addr) <= Spendable
  BY <1>8, <1>9, <1>10
<1> QED
  BY <1>11 DEF WalletCoversBalances, open

\* Without faults and fees the wallet can pay everything the books owe, as soon
\* as they owe it: the coins of a round are spendable before it is credited,
\* one round is credited per block, and no award exceeds the coinbase (which is
\* what Pplns promises).
THEOREM WalletAlwaysCovers ==
  ASSUME MaxFaults = 0, TxFee = 0, IsFiniteSet(Addr),
         \A c \in Awards : SumFunctionOnSet(c, Addr) <= Reward
  PROVE  Spec => []WalletCoversBalances
<1> DEFINE Inv == IInv /\ BookInv /\ SentInv /\ WalletInv
<1>1. Init => Inv
  <2>1. Init => WalletInv
    <3> SUFFICES ASSUME Init PROVE WalletInv
      OBVIOUS
    <3>1. walletOut = 0 /\ \A a \in Addr : onchain[a] = 0
      BY DEF Init, Zero
    <3> QED
      BY <3>1, SumZero DEF WalletInv
  <2> QED
    BY <2>1, IInvInductive, BookInductive, InitSent
<1>2. Inv /\ [Next]_vars => Inv'
  BY IInvInductive, BookInductive, SentInductive, WalletInductive
<1>3. Inv => WalletCoversBalances
  BY BalancesCovered
<1> HIDE DEF Inv
<1> QED
  BY <1>1, <1>2, <1>3, PTL DEF Spec

=============================================================================
