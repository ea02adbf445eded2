------------------------------- MODULE Ledger -------------------------------
(***************************************************************************)
(* The money path of the pool: a block is submitted to btxd, credited to   *)
(* the miners of its PPLNS window, matured after coinbase_maturity         *)
(* confirmations and paid out.  Four parties interleave here:              *)
(*   - one coroutine per found block (server.py, _submit_block), whose     *)
(*     credit_block makes three separate commits;                          *)
(*   - the pplns-maturity thread (pplns.py, poll_maturity);                *)
(*   - the payout-worker thread (payouts.py, _run_payouts);                *)
(*   - btxd and its wallet, which extend and reorganise the chain.         *)
(* Every database method runs under one lock and ends in a commit, so one  *)
(* method is one action; a crash or an error falls between two of them.    *)
(***************************************************************************)
EXTENDS Integers, FiniteSets, Functions

CONSTANTS
    Addr,       \* payout addresses of the miners
    Task,       \* submissions of a block, one coroutine each
    Block,      \* blocks the pool's miners solve
    BlockOf,    \* the block each task submits
    Awards,     \* the credits credit_block may compute: what Pplns yields
    Reward,     \* what the coinbase of a block pays to the pool's wallet
    Maturity,   \* coinbase_maturity, in confirmations
    MinPayout,  \* min_payout_sats
    DryRunSettings, \* the values of payout_dry_run
    TxFee,      \* what btxd charges the wallet for one sendtoaddress
    Reserve,    \* what the wallet holds besides the rewards
    MaxFaults,  \* bound on crashes, lost replies and failing commits
    MaxReorgs,  \* bound on reorganisations
    Nobody      \* no address

Zero == [a \in Addr |-> 0]

ASSUME LedgerAssumption ==
    /\ BlockOf \in [Task -> Block]
    /\ Awards \subseteq [Addr -> Nat]
    /\ Reward \in Nat /\ Maturity \in Nat \ {0, 1} /\ MinPayout \in Nat
    /\ DryRunSettings \subseteq BOOLEAN
    /\ TxFee \in Nat /\ Reserve \in Nat
    /\ MaxFaults \in Nat /\ MaxReorgs \in Nat
    /\ Nobody \notin Addr

VARIABLES
    \* The submitting coroutines.
    pc,         \* the next step of each task
    award,      \* the credits its credit_block has computed
    \* The database.
    blockRow,   \* tasks whose row is in blocks
    rounds,     \* status in mining_rounds
    roundConf,  \* confirmations in mining_rounds
    roundCredits, \* round_credits, summed per address
    row,        \* addresses with a row in miner_balances
    immature, balance, paidTotal, \* the columns of miner_balances
    recorded,   \* sum of the payouts rows with status sent or dry_run
    lastRow,    \* status of the newest payouts row of an address
    \* The maturity thread.
    pollStep, pollTodo, pollTask, pollConf,
    \* The payout thread.
    payStep, payTodo, payAmount, payAddr,
    \* btxd and its wallet.
    depth,      \* confirmations of a block: 0 unknown, -1 off the active chain
    onchain,    \* coins sent to each address
    walletOut,  \* coins that left the wallet
    faults, reorgs,
    dryRun      \* payout_dry_run, read when the process starts

taskVars == <<pc, award>>
dbRounds == <<blockRow, rounds, roundConf, roundCredits>>
dbBalances == <<row, immature, balance, paidTotal>>
dbPayouts == <<recorded, lastRow>>
pollVars == <<pollStep, pollTodo, pollTask, pollConf>>
payVars == <<payStep, payTodo, payAmount, payAddr>>
nodeVars == <<depth, onchain, walletOut>>
vars == <<taskVars, dbRounds, dbBalances, dbPayouts, pollVars, payVars,
          nodeVars, faults, reorgs, dryRun>>

Init ==
    /\ pc = [t \in Task |-> "mining"]
    /\ award = [t \in Task |-> Zero]
    /\ blockRow = {}
    /\ rounds = [t \in Task |-> "none"]
    /\ roundConf = [t \in Task |-> 0]
    /\ roundCredits = [t \in Task |-> Zero]
    /\ row = {}
    /\ immature = Zero /\ balance = Zero /\ paidTotal = Zero
    /\ recorded = Zero
    /\ lastRow = [a \in Addr |-> "none"]
    /\ pollStep = "sleep" /\ pollTodo = {} /\ pollTask \in Task /\ pollConf = 0
    /\ payStep = "sleep" /\ payTodo = {} /\ payAmount = Zero /\ payAddr = Nobody
    /\ depth = [b \in Block |-> 0]
    /\ onchain = Zero
    /\ walletOut = 0
    /\ faults = 0 /\ reorgs = 0
    /\ dryRun \in DryRunSettings

Goto(t, step) == pc' = [pc EXCEPT ![t] = step]
AtMostFaults == faults < MaxFaults /\ faults' = faults + 1

-----------------------------------------------------------------------------
(* _submit_block: the RPC, then credit_block in an executor thread.        *)

Submit(t) ==
    /\ pc[t] = "mining"
    /\ Goto(t, "submitblock")
    /\ UNCHANGED <<award, dbRounds, dbBalances, dbPayouts, pollVars, payVars,
                   nodeVars, faults, reorgs, dryRun>>

\* Only null, "null" and "" mean that the block is on the chain.
StepAfterAny(answer) == "accepted"
StepAfter(answer) == IF answer = "null" THEN "accepted" ELSE "done"

\* An answer other than null, "null" or "" is logged and nothing is credited.
SubmitRefused(t) ==
    /\ pc[t] = "submitblock"
    /\ Goto(t, StepAfter("duplicate"))
    /\ UNCHANGED <<award, dbRounds, dbBalances, dbPayouts, pollVars, payVars,
                   nodeVars, faults, reorgs, dryRun>>

\* A timeout or a broken connection after btxd took the block: the exception
\* is logged and the handler returns.
SubmitReplyLost(t) ==
    /\ pc[t] = "accepted"
    /\ AtMostFaults
    /\ Goto(t, "done")
    /\ UNCHANGED <<award, dbRounds, dbBalances, dbPayouts, pollVars, payVars,
                   nodeVars, reorgs, dryRun>>

\* credit_block up to its first write: no positive credit means no round.
IsCredit(c) == \E a \in Addr : c[a] > 0

ComputeCredits(t) ==
    /\ pc[t] = "accepted"
    /\ \E c \in Awards :
          /\ award' = [award EXCEPT ![t] = c]
          /\ Goto(t, IF IsCredit(c) THEN "block" ELSE "done")
    /\ UNCHANGED <<dbRounds, dbBalances, dbPayouts, pollVars, payVars,
                   nodeVars, faults, reorgs, dryRun>>

RecordBlock(t) ==
    /\ pc[t] = "block"
    /\ blockRow' = blockRow \cup {t}
    /\ Goto(t, "round")
    /\ UNCHANGED <<award, rounds, roundConf, roundCredits, dbBalances,
                   dbPayouts, pollVars, payVars, nodeVars, faults, reorgs,
                   dryRun>>

CreateMiningRound(t) ==
    /\ pc[t] = "round"
    /\ rounds' = [rounds EXCEPT ![t] = "immature"]
    /\ roundCredits' = [roundCredits EXCEPT ![t] = award[t]]
    /\ Goto(t, "immature")
    /\ UNCHANGED <<award, blockRow, roundConf, dbBalances, dbPayouts,
                   pollVars, payVars, nodeVars, faults, reorgs, dryRun>>

\* ON CONFLICT DO UPDATE adds to the row that exists.
Replaced(old, new) == IF new > 0 THEN new ELSE old
Added(old, new) == old + new

AddImmatureCredits(t) ==
    /\ pc[t] = "immature"
    /\ row' = row \cup {a \in Addr : award[t][a] > 0}
    /\ immature' = [a \in Addr |-> Added(immature[a], award[t][a])]
    /\ Goto(t, "done")
    /\ UNCHANGED <<award, dbRounds, balance, paidTotal, dbPayouts, pollVars,
                   payVars, nodeVars, faults, reorgs, dryRun>>

\* A method raises before or in its statements: the exception ends
\* credit_block.  After them, it is the method followed by CommitFails; when
\* statements that were not committed last, Database says.
CommitFails(t) ==
    /\ pc[t] \in {"block", "round", "immature"}
    /\ AtMostFaults
    /\ Goto(t, "done")
    /\ UNCHANGED <<award, dbRounds, dbBalances, dbPayouts, pollVars, payVars,
                   nodeVars, reorgs, dryRun>>

TaskStep(t) ==
    \/ Submit(t) \/ SubmitRefused(t) \/ SubmitReplyLost(t) \/ ComputeCredits(t)
    \/ RecordBlock(t) \/ CreateMiningRound(t) \/ AddImmatureCredits(t)
    \/ CommitFails(t)

-----------------------------------------------------------------------------
(* poll_maturity, every 60 s.  The rounds come by id; any order is allowed *)
(* here.                                                                   *)

AllRounds == {t \in Task : rounds[t] # "none"}
Pending == {t \in Task : rounds[t] = "immature"}
IsAlmostMature(confirmations) == confirmations >= Maturity - 1
IsMature(confirmations) == confirmations >= Maturity

PollStart ==
    /\ pollStep = "sleep"
    /\ Pending # {}
    /\ pollTodo' = Pending
    /\ pollStep' = "fetch"
    /\ UNCHANGED <<taskVars, dbRounds, dbBalances, dbPayouts, pollTask,
                   pollConf, payVars, nodeVars, faults, reorgs, dryRun>>

\* Leave the current round for the next one, or for the next 60 s.
NextRound(t) ==
    /\ pollTodo' = pollTodo \ {t}
    /\ pollStep' = IF pollTodo = {t} THEN "sleep" ELSE "fetch"

PollFetch(t) ==
    /\ pollStep = "fetch" /\ t \in pollTodo
    /\ pollTask' = t
    /\ pollConf' = depth[BlockOf[t]]
    /\ pollStep' = "update"
    /\ UNCHANGED <<taskVars, dbRounds, dbBalances, dbPayouts, pollTodo,
                   payVars, nodeVars, faults, reorgs, dryRun>>

\* getblock raises: the round is left for the next poll.
SkipAndStop(t) == pollTodo' = {} /\ pollStep' = "dead"
Skip(t) == NextRound(t)

PollError(t) ==
    /\ pollStep = "fetch" /\ t \in pollTodo
    /\ Skip(t)
    /\ UNCHANGED <<taskVars, dbRounds, dbBalances, dbPayouts, pollTask,
                   pollConf, payVars, nodeVars, faults, reorgs, dryRun>>

PollUpdate ==
    /\ pollStep = "update"
    /\ roundConf' = [roundConf EXCEPT ![pollTask] = pollConf]
    /\ IF IsMature(pollConf)
       THEN pollStep' = "mature" /\ UNCHANGED pollTodo
       ELSE NextRound(pollTask)
    /\ UNCHANGED <<taskVars, blockRow, rounds, roundCredits, dbBalances,
                   dbPayouts, pollTask, pollConf, payVars, nodeVars, faults,
                   reorgs, dryRun>>

\* MAX(0, x): what the UPDATE statements of the ledger clamp to.
Unclamped(x) == x
Clamp(x) == IF x > 0 THEN x ELSE 0

\* mature_round: an UPDATE of an address without a row changes nothing.
MatureRound ==
    /\ pollStep = "mature"
    /\ LET credit == roundCredits[pollTask]
       IN  /\ immature' = [a \in Addr |-> IF a \in row
                              THEN Clamp(immature[a] - credit[a])
                              ELSE immature[a]]
           /\ balance' = [a \in Addr |-> IF a \in row
                              THEN balance[a] + credit[a] ELSE balance[a]]
    /\ rounds' = [rounds EXCEPT ![pollTask] = "credited"]
    /\ NextRound(pollTask)
    /\ UNCHANGED <<taskVars, blockRow, roundConf, roundCredits, row, paidTotal,
                   dbPayouts, pollTask, pollConf, payVars, nodeVars, faults,
                   reorgs, dryRun>>

\* update_round_confirmations or mature_round raises: maturity_loop logs it, and
\* the rounds that are left wait for the next poll.
PollFails ==
    /\ pollStep \in {"update", "mature"}
    /\ AtMostFaults
    /\ pollTodo' = {} /\ pollStep' = "sleep"
    /\ UNCHANGED <<taskVars, dbRounds, dbBalances, dbPayouts, pollTask,
                   pollConf, payVars, nodeVars, reorgs, dryRun>>

PollStep ==
    \/ PollStart
    \/ \E t \in Task : PollFetch(t) \/ PollError(t)
    \/ PollUpdate
    \/ MatureRound

-----------------------------------------------------------------------------
(* _run_payouts: a snapshot of the balances, then one transfer after the   *)
(* other, the largest first.                                               *)

AboveMinimum(a) == a \in row /\ balance[a] > MinPayout
Payable(a) == a \in row /\ balance[a] >= MinPayout

PayStart ==
    /\ payStep = "sleep"
    /\ payTodo' = {a \in Addr : Payable(a)}
    /\ payTodo' # {}
    /\ payAmount' = balance
    /\ payStep' = "send"
    /\ UNCHANGED <<taskVars, dbRounds, dbBalances, dbPayouts, pollVars,
                   payAddr, nodeVars, faults, reorgs, dryRun>>

Again(a) == payTodo
Rest(a) == payTodo \ {a}

\* Leave the current row for the next one, or for the next cycle.
NextRow(a) ==
    /\ payTodo' = Rest(a)
    /\ payStep' = IF Rest(a) = {} THEN "sleep" ELSE "send"
    /\ payAmount' = IF Rest(a) = {} THEN Zero ELSE payAmount
    /\ payAddr' = Nobody

\* The row whose turn it is.
IsNextRow(a) ==
    /\ payStep = "send"
    /\ a \in payTodo
    /\ \A b \in payTodo : payAmount[b] <= payAmount[a]

DryRunPayout(a) ==
    /\ dryRun
    /\ IsNextRow(a)
    /\ payAddr' = a
    /\ payStep' = "record"
    /\ UNCHANGED <<taskVars, dbRounds, dbBalances, dbPayouts, pollVars,
                   payTodo, payAmount, nodeVars, faults, reorgs, dryRun>>

\* What the wallet can spend: its reserve and the mature coinbases.
Spendable ==
    Reserve + Reward * Cardinality({b \in Block : depth[b] >= Maturity}) - walletOut

\* sendtoaddress as btxd executes it; the fee comes on top of the amount.
WalletSends(a) ==
    /\ Spendable >= payAmount[a] + TxFee
    /\ onchain' = [onchain EXCEPT ![a] = @ + payAmount[a]]
    /\ walletOut' = walletOut + payAmount[a] + TxFee
    /\ UNCHANGED depth

SendToAddress(a) ==
    /\ ~dryRun
    /\ IsNextRow(a)
    /\ WalletSends(a)
    /\ payAddr' = a
    /\ payStep' = "record"
    /\ UNCHANGED <<taskVars, dbRounds, dbBalances, dbPayouts, pollVars,
                   payTodo, payAmount, faults, reorgs, dryRun>>

\* The transfer is made, and the reply lost: "except Exception" skips the row.
SendReplyLost(a) ==
    /\ ~dryRun
    /\ IsNextRow(a)
    /\ AtMostFaults
    /\ WalletSends(a)
    /\ NextRow(a)
    /\ UNCHANGED <<taskVars, dbRounds, dbBalances, dbPayouts, pollVars, reorgs,
                   dryRun>>

\* An error object in the reply: "except RpcError" records a failed payout.
SendRejected(a) ==
    /\ ~dryRun
    /\ IsNextRow(a)
    /\ lastRow' = [lastRow EXCEPT ![a] = "failed"]
    /\ NextRow(a)
    /\ UNCHANGED <<taskVars, dbRounds, dbBalances, recorded, pollVars,
                   nodeVars, faults, reorgs, dryRun>>

\* An HTTP error or no connection: "except Exception" records nothing.
SendErrored(a) ==
    /\ ~dryRun
    /\ IsNextRow(a)
    /\ NextRow(a)
    /\ UNCHANGED <<taskVars, dbRounds, dbBalances, dbPayouts, pollVars,
                   nodeVars, faults, reorgs, dryRun>>

RecordPayout ==
    /\ payStep = "record"
    /\ recorded' = [recorded EXCEPT ![payAddr] = @ + payAmount[payAddr]]
    /\ lastRow' = [lastRow EXCEPT ![payAddr] = IF dryRun THEN "dry_run" ELSE "sent"]
    /\ payStep' = "debit"
    /\ UNCHANGED <<taskVars, dbRounds, dbBalances, pollVars, payTodo,
                   payAmount, payAddr, nodeVars, faults, reorgs, dryRun>>

\* What is debited is the amount of the snapshot, the one that was sent.
CurrentAmount(a) == balance[a]
DebitAmount(a) == payAmount[a]

DebitBalance ==
    /\ payStep = "debit"
    /\ balance' = [balance EXCEPT ![payAddr] = Clamp(@ - DebitAmount(payAddr))]
    /\ paidTotal' = [paidTotal EXCEPT ![payAddr] = @ + DebitAmount(payAddr)]
    /\ NextRow(payAddr)
    /\ UNCHANGED <<taskVars, dbRounds, row, immature, dbPayouts, pollVars,
                   nodeVars, faults, reorgs, dryRun>>

\* record_payout or debit_balance raises, the record of a rejected transfer
\* included: _loop logs it and the cycle is over, after a transfer, too.
PayFails ==
    /\ payStep \in {"record", "debit"} \/ (payStep = "send" /\ ~dryRun)
    /\ AtMostFaults
    /\ payStep' = "sleep" /\ payTodo' = {} /\ payAmount' = Zero /\ payAddr' = Nobody
    /\ UNCHANGED <<taskVars, dbRounds, dbBalances, dbPayouts, pollVars,
                   nodeVars, reorgs, dryRun>>

PayStep ==
    \/ PayStart
    \/ \E a \in Addr : \/ DryRunPayout(a) \/ SendToAddress(a)
                       \/ SendReplyLost(a) \/ SendRejected(a) \/ SendErrored(a)
    \/ RecordPayout
    \/ DebitBalance

-----------------------------------------------------------------------------
(* btxd (external) and the process itself.                                 *)

\* One more block on top of the active chain.
Buried == [b \in Block |-> IF depth[b] \in 1 .. Maturity - 1
                           THEN depth[b] + 1 ELSE depth[b]]

\* The one assumption on time: a block does not gather coinbase_maturity
\* confirmations before its credit_block has made its last commit.
Crediting == {"accepted", "block", "round", "immature"}
CreditsKeepUp ==
    \A t \in Task : pc[t] \in Crediting => depth'[BlockOf[t]] < Maturity

\* A block btxd has not seen extends the active chain: the answer is null.
NodeAccepts(t) ==
    /\ pc[t] = "submitblock"
    /\ depth[BlockOf[t]] = 0
    /\ depth' = [Buried EXCEPT ![BlockOf[t]] = 1]
    /\ CreditsKeepUp
    /\ Goto(t, StepAfter("null"))
    /\ UNCHANGED <<award, dbRounds, dbBalances, dbPayouts, pollVars, payVars,
                   onchain, walletOut, faults, reorgs, dryRun>>

NodeExtends ==
    /\ depth' = Buried
    /\ depth' # depth
    /\ CreditsKeepUp
    /\ UNCHANGED <<taskVars, dbRounds, dbBalances, dbPayouts, pollVars,
                   payVars, onchain, walletOut, faults, reorgs, dryRun>>

\* The top k blocks are replaced; coinbase_maturity is chosen so that a
\* block that deep is never replaced.
NodeReorganises(k) ==
    /\ reorgs < MaxReorgs
    /\ depth' = [b \in Block |-> IF depth[b] \in 1 .. k THEN -1 ELSE depth[b]]
    /\ depth' # depth
    /\ reorgs' = reorgs + 1
    /\ UNCHANGED <<taskVars, dbRounds, dbBalances, dbPayouts, pollVars,
                   payVars, onchain, walletOut, faults, dryRun>>

\* A replaced block is part of the active chain again.
NodeReactivates(b) ==
    /\ reorgs < MaxReorgs
    /\ depth[b] = -1
    /\ depth' = [Buried EXCEPT ![b] = 1]
    /\ CreditsKeepUp
    /\ reorgs' = reorgs + 1
    /\ UNCHANGED <<taskVars, dbRounds, dbBalances, dbPayouts, pollVars,
                   payVars, onchain, walletOut, faults, dryRun>>

NodeStep ==
    \/ \E t \in Task : NodeAccepts(t)
    \/ NodeExtends
    \/ \E k \in 1 .. Maturity - 1 : NodeReorganises(k)
    \/ \E b \in Block : NodeReactivates(b)

\* The process dies and starts again: coroutines and threads lose their
\* state, what was committed stays.
Crash ==
    /\ AtMostFaults
    /\ pc' = [t \in Task |-> IF pc[t] = "mining" THEN "mining" ELSE "done"]
    /\ pollStep' = "sleep" /\ pollTodo' = {}
    /\ payStep' = "sleep" /\ payTodo' = {} /\ payAmount' = Zero /\ payAddr' = Nobody
    /\ UNCHANGED <<award, dbRounds, dbBalances, dbPayouts, pollTask, pollConf,
                   nodeVars, reorgs, dryRun>>

Next ==
    \/ \E t \in Task : TaskStep(t)
    \/ PollStep
    \/ PayStep
    \/ NodeStep
    \/ PollFails \/ PayFails
    \/ Crash

Spec == Init /\ [][Next]_vars

\* The threads and executors run; the chain grows; a call to btxd that is
\* retried for ever succeeds some time.
Fairness ==
    /\ \A t \in Task : /\ WF_vars(ComputeCredits(t) \/ SubmitReplyLost(t))
                       /\ WF_vars(RecordBlock(t))
                       /\ WF_vars(CreateMiningRound(t))
                       /\ WF_vars(AddImmatureCredits(t))
                       /\ SF_vars(PollFetch(t))
    /\ WF_vars(PollStep)
    /\ WF_vars(NodeExtends)
    /\ WF_vars(PayStep)
    /\ \A a \in Addr : SF_vars(SendToAddress(a))

FairSpec == Spec /\ Fairness

-----------------------------------------------------------------------------
(* Properties *)

TypeOK ==
    /\ pc \in [Task -> {"mining", "submitblock", "accepted", "block", "round",
                        "immature", "done"}]
    /\ award \in [Task -> [Addr -> Nat]]
    /\ blockRow \subseteq Task
    /\ rounds \in [Task -> {"none", "immature", "credited"}]
    /\ roundConf \in [Task -> -1 .. Maturity]
    /\ roundCredits \in [Task -> [Addr -> Nat]]
    /\ row \subseteq Addr
    /\ immature \in [Addr -> Nat] /\ balance \in [Addr -> Nat]
    /\ paidTotal \in [Addr -> Nat] /\ recorded \in [Addr -> Nat]
    /\ lastRow \in [Addr -> {"none", "failed", "sent", "dry_run"}]
    /\ pollStep \in {"sleep", "fetch", "update", "mature"}
    /\ pollTodo \subseteq Task /\ pollTask \in Task /\ pollConf \in -1 .. Maturity
    /\ payStep \in {"sleep", "send", "record", "debit"}
    /\ payTodo \subseteq Addr /\ payAmount \in [Addr -> Nat]
    /\ payAddr \in Addr \cup {Nobody}
    /\ depth \in [Block -> -1 .. Maturity]
    /\ onchain \in [Addr -> Nat] /\ walletOut \in Nat
    /\ faults \in 0 .. MaxFaults /\ reorgs \in 0 .. MaxReorgs
    /\ dryRun \in BOOLEAN

\* What a set of rounds credits to an address.
CreditOf(T, a) == SumFunctionOnSet([t \in Task |-> roundCredits[t][a]], T)
Credited == {t \in Task : rounds[t] = "credited"}

\* What the payout thread has sent to a and not yet debited.
InFlight(a) == IF payAddr = a THEN payAmount[a] ELSE 0

\* A balance never falls below the amount the payout thread read in its
\* snapshot and is about to send, so the clamp of debit_balance never forgives
\* a payment (payouts.py reads the list once and debits much later).
InFlightCovered == \A a \in payTodo : payAmount[a] <= balance[a]

\* However many coroutines submit the same solution, a block is credited by
\* one of them at most (server.py credits on a null answer only).
OneRoundPerBlock ==
    \A t, u \in blockRow : BlockOf[t] = BlockOf[u] => t = u

\* Coins become payable only for blocks that can no longer leave the chain,
\* although poll_maturity acts on confirmations it read before two commits.
CreditedIsMature ==
    \A t \in Credited : /\ depth[BlockOf[t]] >= Maturity
                        /\ roundConf[t] >= Maturity

\* Without faults the columns of miner_balances are what the rounds say:
\* immature_sats the rounds not yet credited, balance_sats and
\* paid_total_sats together the credited ones.
BooksExact ==
    \A a \in Addr :
        /\ immature[a] = CreditOf({t \in Pending : pc[t] # "immature"}, a)
        /\ balance[a] + paidTotal[a] = CreditOf(Credited, a)

\* Whatever crashes, replies or commits are lost, nobody is credited or paid
\* by the books more than the rounds grant.
NeverOverCredited ==
    \A a \in Addr :
        /\ immature[a] <= CreditOf(Pending, a)
        /\ balance[a] + paidTotal[a] <= CreditOf(Credited, a)

\* Without faults the books and the chain agree on what was paid.
PaidIsSent ==
    \A a \in Addr : onchain[a] = paidTotal[a] + InFlight(a)

\* Whatever is lost, the books never claim a payment the chain did not make.
NothingPaidUnsent ==
    ~dryRun => \A a \in Addr :
        /\ paidTotal[a] <= recorded[a]
        /\ recorded[a] <= onchain[a]
        /\ paidTotal[a] + InFlight(a) <= onchain[a]

\* The wallet can always pay what the books owe as payable: a round is
\* credited after its coinbase is spendable and never exceeds it.
WalletCoversBalances ==
    SumFunctionOnSet([a \in Addr |-> balance[a] - InFlight(a)], Addr) <= Spendable

\* Without faults the three commits of credit_block, the maturity thread and
\* the payout thread together behave like atomic grants, maturations and
\* payments.
Abstract == INSTANCE Accounts WITH
    round <- rounds, alloc <- roundCredits, payable <- balance, paid <- paidTotal
ImplementsAccounts == Abstract!Spec

\* A round whose block has its confirmations is credited some time, in spite
\* of errors of getblock.
MatureIsCredited ==
    \A t \in Task : (t \in Pending /\ depth[BlockOf[t]] >= Maturity) ~> t \in Credited

\* A balance that reaches the minimum is paid some time, in spite of errors
\* of sendtoaddress.
PayableIsPaid ==
    \A a \in Addr : balance[a] >= MinPayout ~> balance[a] < MinPayout

-----------------------------------------------------------------------------
(* What the documents say, and the code does not keep.                     *)

\* docs/PRODUCTION_PLAN.md:183: what was sent is decremented from
\* balance_sats, so nobody gets more coins than the rounds granted.
NothingSentTwice ==
    \A a \in Addr : onchain[a] <= CreditOf(Credited, a)

=============================================================================
