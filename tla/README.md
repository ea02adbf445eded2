# Verification of btxpool

TLA+ models of the BTX mining pool in `src/pool`, the TLC configurations that
check them on small instances, and TLAPS proofs for all instances.

## 1. The system

One Python process. An asyncio loop serves the miners (Stratum); threads poll
btxd for templates, mature rewards and pay; a SQLite file holds the accounts;
an external solver process verifies shares; btxd (with its wallet) is reached
by JSON-RPC.

| component | state | operations | interacts with |
|---|---|---|---|
| Job manager (`job_manager.py`) | job table, current job, broadcast flag and job, sync flag | `refresh` from the poller, the long poller, start-up and the block path; `get_job`, `consume_broadcast_flag`, `take_broadcast_job` | btxd; broadcaster; sessions |
| Broadcaster (`__main__.py`, `poll_jobs`) | none but its position | read flag, take job, schedule a broadcast on the loop | job manager, Stratum server |
| Stratum server and sessions (`stratum/`) | sessions, authorization, session difficulty, share times for vardiff; per session a lock and what is written to its connection | authorize, push work, broadcast, submit, vardiff, close, stop, `_submit_block` | job manager, validator, ledger, miners |
| Share validator (`share_validator.py`) | the solver daemon, its pipe, a lock | `verify` | solver (external) |
| Difficulty (`difficulty.py`) | none | difficulty to target and back, digest comparison | job manager, validator |
| PPLNS engine (`pplns.py`) | none | `credit_block`, `poll_maturity` | ledger tables, btxd |
| Fees (`pplns.py`, `block_builder.py`) | none | basis points, distributable reward, coinbase split, window | PPLNS, block builder |
| Ledger (`database.py`) | `shares`, `blocks`, `mining_rounds`, `round_credits`, `miner_balances`, `payouts` | one locked, committing method per operation | all |
| Payout worker (`payouts.py`) | a snapshot of balances | `_run_payouts` | ledger, btxd wallet |
| Block builder (`block_builder.py`) | none | coinbase, merkle root, block | job manager, block path |
| Shared connection (`database.py`) | one SQLite connection, its lock, its open transaction | lock, execute, commit | every thread that calls a method of `PoolDatabase` |
| Schema and migration (`database.py`) | tables | create, migrate, each statement committed by itself | the file; every other method afterwards |
| RPC client (`btx_rpc.py`) | none | one call per request, errors told apart | btxd |
| Network monitor (`network_monitor.py`) | a cache of the network's difficulty | refresh from a thread, read | btxd; PPLNS |
| API, statistics, config, front end, scripts | caches | read | everything, read-only |

What is hard here, and what makes each component correct:

* *Ledger and payouts.* Crediting is three commits, maturing reads the chain
  and writes later, paying reads the balances, calls the wallet and writes
  twice; each gap can meet a crash, a lost reply, a reorganisation or another
  thread. Correct: nobody gets more than the rounds grant, everybody gets that,
  only for blocks that are final, and the wallet can pay it.
* *PPLNS.* The window is read while shares are recorded; amounts are floats
  truncated one by one. Correct: the window is the newest shares and no more
  than needed, nothing is allotted beyond the reward, little is left over.
* *Jobs.* Up to three refreshers overlap, each making several calls to btxd; the
  broadcaster and the loop deliver later. Correct: the current job is a job that
  can be submitted, jobs never change under a miner, a new block reaches every
  miner, flagged to drop old work.
* *Validator.* A line protocol over a pipe with a timeout. Correct: a verdict
  belongs to the share it was asked for.
* *Connection.* All threads write through one connection, nothing ever rolls it
  back, and a method that fails at its commit leaves its statements to the next
  commit of anybody. Correct: a method is all or nothing, for other threads and
  for a restart.
* *Migration.* It may be stopped between any two statements, one of which drops
  the table of miners. Correct: a later start comes through, no miner is lost.
* *Sessions.* Three kinds of coroutine write to a miner and wait for one lock,
  which is held while a slow miner reads. Correct: messages leave in an order a
  miner can follow, one miner does not hold up another, a stop ends.
* *Difficulty.* A miner's difficulty moves with its shares and is the weight of
  a share in PPLNS. Correct: it stays in its bounds and moves the right way.

`PROJECT.json` lists the hazards one by one, with the line and the properties
that cover each.

## 2. Plan

Most important first: who is paid what, what miners work on, how shares are judged.

| step | modules | state |
|---|---|---|
| 1 | `Accounts`, `Ledger`, `MCLedger`, `SumLemmas`, `LedgerProofs` | done |
| 2 | `Fees` | done; its theorems are in `PplnsProofs` |
| 3 | `Pplns`, `PplnsProofs` | done; its instance is part of `MCArithmetic` |
| 4 | `JobFlow`, `MCJobFlow`, `JobFlowProofs` | done |
| 5 | `Verifier`, `Shares`, `MCShares`, `SharesProofs` | done |
| 6 | `Encoding`, `Targets`, `MCArithmetic`, `ArithmeticProofs` | done |
| 7 | `AtomicStore`, `Connection`, `Database`, `MCDatabase`, `DatabaseProofs` | done |
| 8 | `Sessions`, `MCSessions`, `SessionsProofs` | done |
| 9 | `Pool`: a composition of `Shares`, `JobFlow` and `Ledger` at `_on_submit` and `_submit_block`, over abstract versions of the three | not done; `Accounts` and `Verifier` are two of them |

How the modules fit together:

* `Encoding` EXTENDS `Fees` for the division of the coinbase. It justifies the
  step of `JobFlow` that compares merkle roots (`RootBindsTemplate`), and
  `Targets` that no block is lost in `Shares` because its digest misses the share
  target (`BlockIsShare`).
* `Pplns` EXTENDS `Fees`; its result, the credits per address, is what
  `Ledger` takes from `Awards`. `Pplns` ends where `Ledger`'s `RecordBlock`
  begins.
* `Ledger` implements `Accounts`, the abstract specification of the books: a
  round is granted, matures and is paid, each in one step.
* `Shares` implements `Verifier`, the abstract specification of a share's way: a
  submission gets the verdict of its own share or an error, or, once a call gave up,
  what the result of another share is taken for; without threads, lock, pipes and
  process.
* `Connection` implements `AtomicStore`: a method happens at once or not at all,
  though it executes statement by statement and may fail at any of them. That is what
  `Ledger`, `Shares` and `Pplns` assume when a method of `PoolDatabase` is one
  action of theirs. `Database` EXTENDS `Connection` with the statements the code has
  and the threads that call them.
* `Sessions` opens up what is one step in `JobFlow`: `Deliver` writes a job to a
  miner at once and `told` is the last one written; in `Sessions` a push is two
  messages, waits for a lock, and the miner reads when it likes.
* `MCArithmetic` EXTENDS `Encoding`, `Targets` and `Pplns`, which do not
  interact; a behaviour takes the steps of one of them.
* `Shares` ends in `SubmitBlock`, where `Ledger`'s `Submit` and `JobFlow`'s
  `BlockFound` begin; `JobFlow` decides which jobs a share can be for.
* Every component module is parameterised by CONSTANTS with one named
  assumption and has no recursive operator, so that it can be proved about.

Left undone: step 9, and an abstract job board without refreshers (a template in,
the same job at every miner), which `JobFlow` would implement once btxd is quiet.
`ToldInv` (section 6) is the argument such a refinement would rest on.

## 3. Modules and code

### Ledger (`pplns.py`, `payouts.py`, `database.py`, `stratum/server.py`)

| state | code |
|---|---|
| `pc`, `award` | the position and local credits of one `_submit_block` coroutine |
| `blockRow`, `rounds`, `roundConf`, `roundCredits` | `blocks`, `mining_rounds`, `round_credits` |
| `row`, `immature`, `balance`, `paidTotal` | `miner_balances` |
| `recorded`, `lastRow` | `payouts`, as a sum and the newest status |
| `pollStep`, `pollTodo`, `pollTask`, `pollConf` | locals of `poll_maturity` |
| `payStep`, `payTodo`, `payAmount`, `payAddr` | locals of `_run_payouts` |
| `depth`, `onchain`, `walletOut` | btxd: confirmations, coins sent, coins left |

Every method of `PoolDatabase` takes one lock and commits, so a method is one
action: `RecordBlock`, `CreateMiningRound`, `AddImmatureCredits`,
`MatureRound`, `RecordPayout`, `DebitBalance`. Between two of them anything
else may happen. A call to btxd is split into what btxd does and what the
caller learns: `NodeAccepts` then `ComputeCredits` or `SubmitReplyLost`;
`SendToAddress`, `SendReplyLost`, `SendRejected` or `SendErrored`. `PollError`
is a failing `getblock`; `CommitFails`, `PollFails` and `PayFails` are a method
of the database that raises, which ends the `credit_block`, the poll or the payout
cycle it is called in (a method that raises at its commit is the method followed by
one of them, as the connection keeps its statements); `Crash` is the end
of the process at any point, after which the threads start from their first
line and the interrupted coroutines never resume.

btxd (external) extends the chain by a block, replaces up to
`Maturity - 1` blocks and may take replaced ones back. A block with
`coinbase_maturity` confirmations stays: that is what the parameter is for.
Confirmations are counted up to `Maturity`.

One assumption about time is made, `CreditsKeepUp`: a block does not get its
`coinbase_maturity` confirmations (100 in the configuration, hours) between
btxd's answer and the third commit of its `credit_block` (milliseconds).
Without it `poll_maturity` can credit a round before its
`add_immature_credits`, which then leaves a phantom immature amount
(`database.py:535`).

### Accounts

The promise: `Grant`, `Mature`, `Pay`. `Ledger` maps `mining_rounds.status`,
`round_credits`, `balance_sats` and `paid_total_sats` to it; every other column
and thread is invisible.

### Fees and Pplns (`pplns.py`, `block_builder.py`, `database.py`)

`Fees` has one operator per function: `pool_fee_bps`,
`distributable_reward`, `split_coinbase_value`, `window_work_target`.
Percentages and difficulties are whole thousandths; Python's `round` to even is
`Round`. `MCArithmetic` walks through rewards and percentages.

`Pplns` is `credit_block` up to its first write, with shares recorded at any
moment: `FindBlock` (the winning share is recorded before the block is
submitted), `CreditBlock` (reward, fee, target), `Query`
(`shares_for_pplns_window`, one statement, so one step), `Select` row by row,
`Check`, `Split` row by row, `Finish`. The quotient
`int(distributable * work / total)` is computed in floats by the code. `Split`
takes any natural whose exact product differs from the true one by less than
`Noise`. In doubles, with a window of `n` rows summed one by one,
the relative error of a quotient is about `(n + 2) * 2^-53`; for a reward of
2^31 units (20 coins) that is `(n + 2) * 2^-22` of a unit, and `Noise` over
`total` stands for it. TLC's `Noise` is larger than any real one. The two
theorems about `allotted` need `picked * Noise < total`, that is, windows of up
to about 2000 shares at that reward; for larger ones they bound the excess only
by `picked * Noise / total` units, which no property states.

### Encoding and Targets (`block_builder.py`, `difficulty.py`)

`Encoding` has one operator per writer (`varint`, `write_input`,
`write_output`, `serialize_segwit_tx`, `build_coinbase_tx`) and per reader
(`read_varint`, `txid_from_raw`, the search for the commitment). `Build`, `Commit` and `Hash` are the three
steps that `compute_template_merkle_root`, when a job is made, and
`assemble_block_hex`, when it is solved, have in common; they are taken side by
side for the two templates, and `Assembles` is the comparison of the roots in
`assemble_block_hex`. A transaction is a
sequence of bytes in which every field has the width it has in the code, so
that the positions the readers compute are the real ones, but a field of fixed
width is written as its number and filler, and a digest takes one cell instead
of 32. Hashing is injective. The two loops over inputs and outputs that the
code has in `txid_from_raw` and `_find_witness_commitment_vout` are one
operator, `Items`. The coinbase is the pool's own and never cut short, so the
handler of `IndexError` has no counterpart. `merkle_root` is a function of
the layers the loop makes; a leaf is a digest of a transaction, a pair's digest
one of two digests.

`TemplatesAssumption` says what the code takes for granted of btxd: values and
heights are natural numbers, and a height fits four bytes; a transaction occurs
once and spends something, so that its first outpoint is not the null one of a coinbase; a
commitment is the script that `_find_witness_commitment_vout` looks for, and is
there when the id of a transaction is not the hash of all of it. Of the
configuration it asks that no script is 65000 bytes long and no address is a
commitment; the auxiliary data are the same in every template.

`Targets` is `difficulty_to_share_target` and `compare_digest_le`. The code
divides floats, which are right to 53 of 256 bits, and clamps integers; the
model's quotients are exact. `BlockIsShare` rests on the clamp alone.

### JobFlow (`job_manager.py`, `__main__.py`, `stratum/`)

| state | code |
|---|---|
| `node`, `ibd` | btxd's template (tip and variant), `initialblockdownload` |
| `pc`, `gbt`, `challenge`, `since` | position and locals of each running `refresh`; how many jobs there were when its last call returned |
| `job`, `jobs`, `current`, `needsBroadcast`, `broadcastJob` | `JobManager`, its fields under its lock |
| `synced`, `scripts` | `_synced`, the resolved addresses |
| `step`, `held` | locals of `poll_jobs` |
| `scheduled` | coroutines handed to the loop and not started |
| `authorized`, `pushing`, `inbox`, `told` | sessions; `_push_work` not started; broadcasts to write; last job written |

`refresh` is `CheckSync`, `GetTemplate`, `GetChallenge`, `Apply`: btxd may
change between any two of these, so a job may combine a template with a
challenge of another moment. `Apply` is everything under the job manager's
lock: keep the job and replace its template, publish a job of the same block,
or publish one of a new block and prune. Pruning goes by `created_at`, which a job
gets when it is built, before the lock: `born` is how many jobs were published then,
any number from `since` to the current one, and `Pruned` leaves any `Limit` jobs of
which none was born before one that goes. So a job built early and published late
is among the oldest. The failures are `CheckFails`,
`FetchFails` and `ResolveFails`; the last one ends the poller thread.
`poll_jobs` takes its three locks in `ConsumeFlag`, `TakeJob` and `FallBack`,
then hands over in `Schedule`. On the loop, `Broadcast` starts one task per
session, `Deliver` writes, `PushWork` serves a new session.

A template is abstracted to its tip and a variant. Two variants may share a
merkle root (only the time moved) or not (transactions changed), since the
code compares both. Of the header nothing else can change within a block:
version and bits follow from the block before.

### Shares (`stratum/server.py`, `stratum/session.py`, `share_validator.py`)

| state | code |
|---|---|
| `difficulty`, `seen` | `_session_difficulty`, `_last_share_time` |
| `pc`, `share`, `offered`, `verdict` | one `_on_submit` per session |
| `tasks` | work the default executor has not started |
| `holder` | the validator's lock |
| `daemon`, `requests`, `replies`, `late` | the solver process and its pipes; `late` counts the calls that gave up on this process |
| `asked` | the shares this process was asked about; like `late`, read by properties only |
| `rows`, `submitted` | `shares`, blocks handed to `submitblock` |

`Take` is a thread of the executor starting a call; `Write` and `Restart` are
`_solve` with a running and with a new process; `Read`, `TimeOut` and `ReadEnd`
its three ends; `Reject`, `RecordShare` and `Accept` the rest of `_on_submit`, and
`RecordRaises` a `record_share` that raises in any of its three places: the
connection is closed without an answer, and a block is not submitted.
`Answer` and `Exit` are the solver (external). A row of `shares` keeps in the model
whether its verdict was read from a process that a call had given up on.

A share is a job, and a nonce and time (`Attempt`) the miner chose; miners may
submit the same nonce and time for two jobs, and such shares are twins. The solver
finds a digest that reaches the share target of its request (`Found`, `IsBlock`);
`ResultFor(y, x)` is what `verify` makes of the result of `y` when it asked about
`x`: the nonce and the time must be those of `x`, the digest is compared with the
targets of the job of `x`, `is_block` is taken as it is, and nothing in the reply
says which job it is for. (A solver that leaves nonce or time out of its result
would match more; the one modelled reports both.) A submission for an unknown job is
answered at once and touches nothing, so it has no action; `JobFlow` says which jobs
are known. Vardiff is on; the time between two shares is any of `Elapsed`.

The promise, `Verifier`: `Submit`, `Ask`, `Judge` or `GiveUp`, then `Refuse`, or
`Record` and for a block `SubmitBlock`, or `HangUp` when the connection ends without
an answer. An `Ask` goes to the solver that runs, or to a new one, which has been
asked about nothing else. `Judge` answers for the share that was asked; only when it
is `behind`, because a call gave up, may it answer with what the result of another
share this solver was asked about is taken for. `Shares` maps `pc` to the stage, the
verdict to what it says, `late > 0` to `behind`, and the rows to who is paid for
what. That a call which gives up leaves the verifier behind is finding 3.

### Connection, AtomicStore and Database (`database.py`)

| state | code |
|---|---|
| `ready`, `opening` | whether the constructor has returned; its next statement |
| `disk` | what is committed, and what a restart finds |
| `view` | what the connection reads: `disk` and the open transaction |
| `holder`, `next` | the method that holds `self._lock`; its next statement |
| `seen`, `answer` | the tables other threads saw last; how the last method ended |
| `task` | the next write of the coroutine in `credit_block` |
| `pay` | the next write of the payout thread, for whom and how much |
| `leant` | whether it ever sent a balance that was not committed; read by a property only |

`Connection` knows no method. `Call` takes the lock, `Step` executes one
statement in the transaction Python opens before the first that writes,
`Return` commits and gives the lock away. `Autocommit` is a statement of the
constructor, which is outside any transaction. There are three ways to fail:
`Refused`, the file is locked by another process when the transaction would
begin; `CommitRefused`, it is when the transaction would be committed, and the
statements stay in it for the next commit of anybody; `RolledBack`, SQLite
itself gives up the transaction, with what others left there. `Crash` leaves
what is on the disk.

`AtomicStore` is the promise: a method returns and is on the disk, or it raises
and has happened for this process, or has not, or took uncommitted methods
before it along; a restart finds the disk. `Connection` maps `view` to `seen`,
since nobody reads in the middle of a method.

`Database` is the code. `CreateTables`, `AddMetrics`, `AddColumn` and
`CreateNew` to `RenameNew` are `_init_schema` and `_migrate_schema` statement by
statement; the same statements follow in the same order after every start.
`StartFails` is a `CREATE TABLE` or `ALTER TABLE` of something that is there.
`CallShare`, `CallCredit`, `CallMature` and `CallPayout` are the threads;
`SendPayout` is the wallet's transfer between the payout thread's read and its
writes. Methods of one statement that only feed the dashboard, indices, and the
column `blocks_found` are left out; the schema before `miners` had canonical
names is reduced to its rows and to the columns it lacks.

### Sessions (`stratum/session.py`, `stratum/server.py`)

| state | code |
|---|---|
| `handler` | what `handle` waits for: a request, its answer to be drained, a share to be checked, the close |
| `push`, `starting` | the `_push_work` and `_push_job` of a session: the message each drains; tasks not started, the oldest first |
| `queue` | the session's `asyncio.Lock`: the holder, who has written, and those who wait, with what they will write |
| `wire`, `told` | written and not read by the miner; what it last read |
| `authorized`, `closed`, `difficulty` | `_authorized`, `_closed`, `_session_difficulty` |
| `connected`, `lost` | connections accepted; those asyncio has reported lost |
| `current`, `scheduled` | the newest job; broadcasts handed to the loop and not started |
| `registered` | `_sessions` of the server |
| `stopping`, `toClose`, `closing` | `stop`: how far it is, the sessions it has to close, the one it waits for |

An action is what a coroutine does between two `await`s that may wait. `Send`
asks for the lock and, if it is free, writes; `Drained` is the end of `drain`,
when the miner has left at most `HighWater` messages unread; `Release` hands the
lock to the next waiter, who writes at once. `ReadAuthorize`, `ReadSubmit` and
`ReadOther` take a request; `Authorized` starts the `_push_work`;
`PushDifficulty`, `PushJob` and `PushEnds` are both kinds of push; `Broadcast`
and `Gathered` are the two ends of `broadcast_job`; `Checked`, `Retarget` and
`KeepDifficulty` follow a share; `CheckRaises`, `AnswerFails`, `PushFails` and
`HandlerEnds` are the ways out; `StopBegins` to `StopReturns` are `stop`.

A message is its kind and its value, so that `HighWater` counts messages and
not bytes. The loop starts tasks in the order they were created. Nothing is
written to a connection that is lost, or closed with nothing left to send. A
second `mining.authorize` is read only when the `_push_work` of the first has
ended.

### Paired operators

Some decisions are operators with a neighbour the specification never calls:
`Added` and `Replaced`, `IsMature` and `IsAlmostMature`, `ResultFor`
without its comparison, `IsNewest` and `IsOldest`, `Kept` and `Lowered`, `Capped` and `Uncapped`, `OkFirst` and
`WorkFirst`, `Freed` and `StillHeld`, `LockIsFree` and `NoLock`. The neighbour is
a slip the code could plausibly have. `PROJECT.json` lists, for every checked
property, the exchange that TLC then finds violated, so that a property is
known to depend on the code.

## 4. Runs

`tlc -config <run>.cfg <module>` in this directory, for each run below.

| run | module | expected | distinct states |
|---|---|---|---|
| `Ledger` | `MCLedger` | holds | 22 thousand |
| `LedgerFaults` | `MCLedger` | holds | 686 thousand |
| `LedgerResend` | `MCLedger` | violated: finding 1 | - |
| `Arithmetic` | `MCArithmetic` | holds | 1.3 million |
| `JobFlow` | `MCJobFlow` | holds | 2.1 million |
| `JobFlowLive` | `MCJobFlow` | holds | 179 thousand |
| `JobFlowIdle` | `MCJobFlow` | violated: finding 2 | - |
| `Shares` | `MCShares` | holds | 348 thousand |
| `ShareLate` | `MCShares` | violated: finding 3 | - |
| `ShareWork` | `MCShares` | violated: finding 4 | - |
| `Database` | `MCDatabase` | holds | 515 thousand |
| `Sessions` | `MCSessions` | holds | 126 thousand |

**Ledger** shows what the books promise when nothing is lost: a round is
credited only for a final block (`CreditedIsMature`), the columns are exactly
what the rounds say (`BooksExact`), the chain agrees (`PaidIsSent`), the wallet
can pay all that is payable (`WalletCoversBalances`), the whole behaves like
`Accounts` (`ImplementsAccounts`), and every mature round is credited and every
payable balance paid (`MatureIsCredited`, `PayableIsPaid`) although any call to
btxd may fail. Two miners, two blocks in any order, two reorganisations,
maturity 2, a reward of 3 and a minimum of 2: a balance may reach the minimum
with one round or only with two, a window may leave dust, leave a miner out or
be empty, and a block may leave the chain and return before it matures.
`TxFee` is 0, because with any fee and an empty reserve the first transfer of a
whole balance is one the wallet cannot make (a hazard of its own).

**LedgerFaults** adds a fault (a crash, a lost reply, a method that raises), a
third submission that carries the solution of the first, and both values of
`payout_dry_run`. One fault is enough to meet every gap between two commits;
a second one only repeats what the first did, since a crash leaves nothing in
memory. It shows that a fault never makes the books grant or pay too much
(`NeverOverCredited`, `NothingPaidUnsent`), that a block is credited once
(`OneRoundPerBlock`), and that a balance covers what is about to be sent
(`InFlightCovered`).

**Arithmetic** has one state for each input of a function, and the three steps
of a block for each pair of templates. The fees are evaluated for rewards
0 to 60, where rounding shows most, and for 18 percentages around every special
value; integers of variable length on both sides of each change of width, at
two positions. Blocks combine two heights (the largest of one byte, the smallest
of two), two values, transactions with and without witnesses, one or more of
them, in both orders, with odd and even numbers of leaves, and configurations
with a developer, without one, and with one that gets everything; one payout
script starts like a commitment. `CoinbaseReadsBack` parses what the pool
submits, `RootBindsTemplate` compares each template with each other. Targets
have three digits to the base of four, with every network target from none to
the largest and difficulties on both sides of the reference. `Pplns` divides
rewards of 1, 5 and 101 over up to four shares of two miners, of works that end
the window after one share, after two, three or never, a work of 0 included;
shares are recorded between any two of its steps.

**JobFlow** lets two refreshers fetch and apply in any order. They are the long
poller and the block path; the poller makes the same calls in the same order
and differs in when it may start and in what ends it, which the two other runs
cover. One new block, one change of template, a table that keeps one old job
and four jobs in all let the older of two jobs be pruned, by a refresher that built
its own before or after the other's (`NewBlockPrunes`: as many stay as may, and the
newest), a flag be raised between the two
locks of `poll_jobs`, and a broadcast overtake a new session.
**JobFlowLive** checks that a miner always gets to btxd's template, with the
poller, the block path and one fault; the instance never makes more than four
jobs, so the bound of six does not stop the system before it settles.

**Shares** has two sessions of one worker, two jobs of which the second has the
harder block target, and three shares: a block of the first job, and of the second a
good share and a miss, which has the nonce and time of the block. There are two
threads of the executor, three submissions and two faults, so that a session can wait
for the lock, for a thread, behind a timeout and behind an exit, restart the solver
twice, and read the late result of a twin. It shows that every share gets its own
verdict until a call gives up, for all that the threads, the lock and the pipes do
(`ImplementsVerifier`), that a share is recorded for what it is not only by the late
result of a twin, and then for what that is worth (`FalseOnlyByTwin`), and that each
submission is answered or its connection closed (`EveryShareAnswered`).
`Elapsed` has a fast, a normal and a
slow time; the pool's difficulty starts at `vardiff_min` and twice that is
`vardiff_max`, so that both caps are met.

**Database** opens no file, or one of an older version with none, one or both of
two columns, in which one of two miners has a row and both have a share; then
shares, a block whose round has two payees, its maturity and a payout go
through the connection. Two faults: the first may leave statements in the open
transaction and the second take them away, or the first may cut the migration
and the second cut it again. It shows that a method is atomic
(`ImplementsAtomicStore`), that what two tables say of the same thing agrees for
every reader and for a restart (`TablesAgree`), that no stop of the migration
loses a miner (`MinersKept`), and that some start reaches the point where the
pool serves, unless the migration was cut after its `CREATE TABLE`
(`EventuallyServes`, `Blocked`).

**Sessions** has one miner that reads and one that never does, and connections
that buffer one message. Four events (requests, hang-ups, jobs, the stop) in any
order and two jobs let a broadcast overtake the `_push_work` of a new
authorization, vardiff meet either, every coroutine of the silent miner wait at
once, and a stop or a hang-up meet any of that. It shows that no work is on its
way before the answer to the authorization (`AnswerBeforeWork`), that the
difficulty in a miner's hands, or last on its way to it, is the one its shares
are counted with (`ToldDifficulty`), that a miner who reads gets the newest job whatever
the others do (`ReadersGetNewest`), that a handler waits for ever only for a
miner that neither reads nor hangs up (`HandlersGoOn`), and when a stop ends
(`StopEnds`).

Every bound is a constant named in its module (`MaxFaults`, `MaxReorgs`,
`MaxShares`, `MaxTip`, `MaxVar`, `MaxJobs`, `MaxQueue`, `MaxSubmits`,
`MaxReward`, `MaxEvents`). Deadlock is not checked: with bounded blocks, shares or
submissions each system comes to rest; that it does not rest too early is what
the liveness properties say.

## 5. Fairness

* `Ledger`: the steps of a coroutine that has its answer, of both threads, and
  the growth of the chain are weakly fair: an executor runs what it is given, a
  thread wakes up after its sleep. `SF` of `PollFetch` and `SendToAddress`
  says that a call that is retried for ever succeeds some time; with weak
  fairness alone btxd could fail every second call to a round for ever.
  Nothing is assumed of `Submit`, faults and reorganisations.
* `JobFlow`: btxd leaves its initial download; threads and the event loop run.
  Blocks, templates, sessions and failures are free.
* `Shares`: the event loop and the threads run and the solver answers or exits.
  Python's locks do not queue: that `Write` and `Restart` are weakly fair is
  enough because a behaviour has finitely many submissions; an endless stream
  of other sessions that always wins the lock is outside the run. A timeout is a fault, never assumed: the code tests its deadline
  only when the solver writes a line, so a silent solver holds the lock and
  every later share waits; `EveryShareAnswered` depends on the solver.
* `Database`: the constructor and a method that has the lock run on (`Opening`,
  `Execution`, `Returns`). Nothing is assumed of callers and faults.
* `Sessions`: the event loop does not stand still while a coroutine can go on,
  and the miners in `Reader` read. One `WF` for the whole loop is enough, as
  finitely many events leave it finitely many steps. Nothing is assumed of the
  other miners, of jobs, hang-ups and the stop.

## 6. Proofs

The proof modules hold for every value of the constants that satisfies the
named assumption of the component (`LedgerAssumption`, `PplnsAssumption`,
`TargetsAssumption`, `ArithmeticAssumption`, `TemplatesAssumption`, `JobFlowAssumption`,
`SharesAssumption`, `AttemptAssumption`, `ConnectionAssumption`, `DatabaseAssumption`,
`SessionsAssumption`): any number of miners, sessions, blocks, jobs, faults,
reorganisations, any methods of the database. `PROJECT.json` lists the theorems
with the properties they establish. Where a theorem assumes more, the hypothesis
stands in its statement:

* `MaxFaults = 0` in `LedgerImplementsAccounts`, `BooksAreExact`,
  `PaidExactlySent` and `WalletAlwaysCovers`. With faults they are false: a crash
  between two commits leaves a column behind, a lost reply a payment unbooked
  (sections 7 and 8). What survives faults is `NobodyOverCredited`,
  `BooksNeverAhead` and `PayoutsCovered`, which assume nothing.
* `DryRunSettings = {FALSE}` in `PaidExactlySent`: a dry run books what it does
  not send.
* `TxFee = 0`, finitely many addresses and awards that add up to no more than the
  reward in `WalletAlwaysCovers`. The last is what `NeverOverAllocated` proves of
  `Pplns`; with a fee the wallet does run short (section 8).
* `PoolConnection` in three theorems of `DatabaseProofs`: the constants of
  `Connection` are the methods and statements of `PoolDatabase`, as
  `Database.cfg` substitutes them.

**SumLemmas.** The books and the works of a window are sums over sets,
`SumFunctionOnSet` of the community modules, which is a recursive function over
the subsets of a set. An induction over an operator is out of reach, so each
fact is proved by a smallest counterexample, from the well-foundedness of the
numbers and of the finite subsets: `Least`, `CountUp`, `SmallestSubset`. Then
`SumStep` (one more element) and what follows from it: sums are natural,
monotone, split over disjoint sets, change by what one value changes, and may be
exchanged (`SumSwap`).

**LedgerProofs.** The invariant is `IInv`:

* `PayInv` adds to `InFlightCovered` that the rows the payout thread still has
  to serve have a row in `miner_balances`, and that the address in hand is one
  of them exactly while a payment is recorded and debited. Without the latter,
  `DebitBalance` could act for nobody.
* `RoundInv` is `TaskInv` (how far a coroutine is determines the status of its
  round), `ClaimInv` (a coroutine claims its block from btxd's null answer on,
  and btxd answers null only to a block it has not seen, so there is never a
  second claim) and `PollInv` (what the maturity thread read remains true until
  it acts: only this thread ends a pending round, and a final block stays
  final). `OneRoundPerBlock` and `CreditedIsMature` are not inductive without
  them: the first needs the claims of coroutines that have not written
  anything, the second the confirmations the thread read two commits ago.
* `NobodyOverCredited` needs `BookInv`: `AwardInv` (what a round grants is what
  the coroutine that made it had computed), `FiniteInv` (finitely many rounds have
  been made, so that sums over them mean something) and `OverInv` (what an address
  has in each column is at most the sum of the rounds concerned, and without a row
  it has nothing). An inequality is what a lost commit leaves, as each of them is
  missing on the smaller side. `BooksAreExact` turns it into an equation with
  `RowInv`.
* `PaidExactlySent` needs `SentInv`: coins and books differ by the amount in the
  payout thread's hands and nothing else; a dry run sends less.
* `WalletAlwaysCovers` adds `WalletInv`, that what left the wallet is the sum of
  what the addresses were sent. The sum over addresses of the sums over rounds is
  exchanged for the sum over rounds of their awards (`SumSwap`), each of which one
  reward covers; that two credited rounds have two blocks is `OneRoundPerBlock`,
  and that these blocks are spendable `CreditedIsMature`.
* `PaidInv` orders the three places that remember a payment: `paidTotal`
  follows `recorded`, which follows `onchain`, each one step behind.
* `LedgerImplementsAccounts` assumes `MaxFaults = 0` and needs `RowInv`: an
  address with a credit in a round has a row when the round matures, because
  `mature_round` updates rows and never inserts one. With a crash between the
  second and the third commit it is false, which is a known gap (section 8).

**PplnsProofs.** `PInv` names the partial sums of the window by a function
over the rows, so that the sum after each `Select` and `Split` is related to
the rows without recursion. `UpperStep` and `LowerStep` carry the accumulated
rounding error from one row to the next, and `NoMore` turns the bound on the
products into the bound on the amounts. `WindowInv` keeps, while rows are picked,
that `total` is the work of the picked ones and that the target was not reached
before the last of them; `FairInv` does per address what the partial sums do for
all: after each row of the division, what an address has is its work's part, up
to a unit and a rounding error for each of its rows. `SplitCoversDistributable`
needs no state; it rests on `TwoDivisions`: the floors of two numbers that add up
to `10000 * value` add up to at most `value`.

**ArithmeticProofs** has three parts. For the functions the invariant only says that an input
is one of those `MCArithmetic` enumerates, and the theorems are about the
functions. `LowerDifficultyIsEasier` rests on `Antitone`, that a larger divisor
has a smaller quotient. `DigitsCompared` says that the comparison of digests from
the highest digit down is the comparison of numbers: two numbers of which no
digit is left agree in everything above the digit where they first differ
(`SameDigits`), and quotients by the base keep the order (`ShiftedMonotone`).
With it, `ShareTargetBetween`, the clamp, gives `BlockAlwaysShare`. For
`VarintsReadBack`, `NumberReads` puts the digits together again from the highest
to the lowest (`Shifted` is what is left at each), `WidthSuffices` says that each
width is enough for the numbers it is chosen for, and `Concatenated` finds the
bytes behind any others. `ArithmeticAssumption` asks what the code has: numbers
of 64 bits, and a largest target that fits a digest.

The second part is the coinbase (`CoinbaseAlwaysReadsBack`). The parser finds each
output from the length of the script before it, which it reads on the way.
The lemmas say at which byte each field stands for any lengths of the scripts,
that each length is read as it was written (`VarintsReadBack`), and that the
commitment replaces bytes without moving others. `BlockInv` carries this
through `Build`, `Commit` and `Hash` for both templates.

The third part is the merkle root. `RootsDiffer`: two lists without repetition
that have the same root are the same list. A root is at the top of a tower of
layers (`IsTower`), and two towers with the same top have the same layer below
it, because hashing is injective; so they agree as far down as both go
(`TowersMeet`), and they end together because a pair's digest has two parts and
a leaf's has more (`AreLeaves`). Without repetition is needed: the code repeats the last
digest of an odd layer, and a list with its last transaction twice would have
the same root. `RootAlwaysBinds` goes on from the list to the template: the
coinbases are the same, hence their signature scripts and with them the heights
(`HeightsSame`: the encoding of BIP 34 is read back), the outputs and with them the
values; the same commitment stands for the same witnesses (`AlikeCommitted`), so
that transactions with the same ids are the same bytes. `RootInv` holds of the
roots what `BlockInv` holds of the coinbases.

The recursive functions of `Encoding` (layers, flattened lists, shifted numbers) are
chosen by their equations; that a function with these equations exists is shown by
a least counterexample (`LayersExist`, `FlattensExist`, `ShiftsExist`).

**JobFlowProofs.** `FlowInv` is `TypeOK`, `JobInv` (the current job is the
newest; every job fits its template and is clean; the jobs of the current
block are all in the table), `ToldInv` (the current job is somewhere on its
way: the flag is up, or the thread is about to take a job, or holds the
current one, or the last scheduled broadcast or the last notification of each
miner is the current one) and `InboxInv`. `ToldInv` is the argument why
lowering the flag before taking the job is safe and the reverse would not be.
`OldWorkDropped` is an action property from the same invariant, and so is
`NewBlockLeavesNewest`: only `Apply` changes the table, a job of a new block cuts it
to one of the sets `Pruned` allows, and the id of the new job is not yet in it
(`JobsFinite`), so that what is left of the old jobs is that set, for any `Limit`,
and its jobs are no older than those that are gone (`BlockPrunes`).

**SharesProofs.** `SafeInv` is `TypeOK`, `LockInv` (who reads holds the lock),
`PipeInv` (until a call gives up, the pipes contain the request or the reply of
the holder of the lock and nothing else), `AskedInv` (what is in the pipes was asked
of this process), `VerdictInv` (a verdict is the share's own, or was read late and is
what a share with the same nonce and time gives; it is kept from the reply to the
record) and `FalseOnlyByTwin`. `FalseAcceptsHaveTwins` is its last part. The twin is
the share whose reply was read: were it the share itself, the result would be its own
(`OwnResult`). That a twin is of another job is `AttemptAssumption`, a job, a nonce
and a time make one share.
`DifficultyBounded` rests on
`VardiffInBounds`: a slow share multiplies by more than one and a fast one by
less, so that each branch needs only the cap it has.

`SharesImplementVerifier` maps each step of `Shares` to one of `Verifier` or to
none: of the ends of a call, `PipeInv` says that a solver in step replies to
the share that was asked, so that `Judge` may give its verdict, and `AskedInv` that any
other reply is for a share the same solver was asked about; a `TimeOut` is
a `GiveUp` that leaves the verifier behind, and `Restart` an `Ask` of a new solver.
`NobodyWaitsInVain` is the absence of deadlock as an invariant: while a
submission is in the pool, the event loop, a thread or the solver has a step to take
for one of them. It needs `LiveInv`: the executor's queue has exactly the
submissions that wait for a thread, each once (`QueueInv`); who reads has a process to
read from, which owes a reply while it runs (`AwaitInv`); and a judged share
has a verdict (`JudgedInv`).

**DatabaseProofs.** `ConnectionImplementsAtomicStore` holds for any methods
with any number of statements. The invariant `IInv` is `Idle` (when nobody holds
the lock, others see what the connection reads) and `Running` (the tables after
`next - 1` statements of the holder, executed on what it found). What the first
`i` statements do is a recursive function whose domain depends on the method;
`AfterExists` shows that it exists, by a least counterexample. A method then
steps once, when it ends; all of its statements stutter.

The other three theorems are about the statements of `PoolDatabase`, with the
invariant `DInv` over the two versions of the tables that anybody can find, the
one in the file (`disk`) and the one the connection shows (`seen`):

* `Sound`: in each of them a round and its block have one status, a round has all
  its credits or none, and the counters are not ahead of the shares;
* `Booked`: what an address has in a balance or was paid is what some of the
  rounds that matured granted it. Some, because a round without
  `add_immature_credits` may have updated no row;
* `Known`, `Covered`, `Locked`: what the callers know stays true until they use it.
  A coroutine writes its round and its credits once and in order, a round is
  matured while it is immature, and a payment is debited while the balance covers it;
* `Start`: before the pool serves, the tables are those of one of the stages of
  the migration, and no row of a miner is missing from both of its tables.

`TablesAgree` alone is not inductive. The second statement of `mature_round` puts
right what the first one broke, so a method is taken as a whole (`ConnectionInv`
says what `view` is while it runs), and that its statements fit the tables rests
on what its caller knew when it took the lock. `AlwaysDInv` also shows
that a step of `DatabaseNext` is one of `Connection`'s `Next`, which carries the
refinement over (`DatabaseImplementsAtomicStore`).

**SessionsProofs.** What leaves for a miner, `Outgoing`, is what is on the wire
and what waits for the lock. The `Leaving` lemmas turn each use of the lock into
an operation on that one sequence: a `Send` appends, a `Release` leaves it as it
is, a `Receive` takes its head. For `DifficultyTold`, `Settled` says that the
last difficulty in it, or the told one, is the session's; every assignment of
`_session_difficulty` is in the same action as the request for the lock, which is
why the property survives any order of coroutines. For `AnsweredFirst`,
`Orderly` says that a handler has at most one message in the queue and that only
authorized sessions are pushed to, and `Sound` that work waits, and a session is
authorized, only when the answer is written ahead of it.

Only model-checked:

* every liveness property, which needs fairness and ENABLED: `MatureIsCredited`,
  `PayableIsPaid`, `EventuallyUpToDate`, `EveryShareAnswered`,
  `EventuallyServes`, `ReadersGetNewest`, `HandlersGoOn`, `StopEnds`.

Of `EveryShareAnswered` the part that is no liveness, that somebody can always move,
is `NobodyWaitsInVain`. Every invariant and every action property the passing runs
check is stated by a theorem.

## 7. Findings

1. `LedgerResend`, `NothingSentTwice` (`payouts.py:114`). `sendtoaddress` is
   called before anything is written. When its reply is lost, or the process
   ends before `debit_balance`, the balance is still there in the next cycle
   and is sent again. `docs/PRODUCTION_PLAN.md:183` says that a success
   decrements the balance.
2. `JobFlowIdle`, `IdleMinerGetsWork` (`job_manager.py:363`). The poller thread
   has no handler, and `refresh` passes on what is not an `RpcError`; one such
   error ends it, and without the long poller no job is ever made again. The
   message of `stratum/session.py:177` promises work once btxd is synced.
3. `ShareLate`, `MissIsTrue` (`share_validator.py:131`). A call that times out
   leaves its request in the pipe. Each later share is compared with the reply
   of the share before it and refused, until the solver exits, unless the two have
   the same nonce and time: then the later one passes for what the earlier is worth,
   whatever its job (section 8).
4. `ShareWork`, `WorkIsVerified` (`stratum/server.py:92`). The session
   difficulty, which moves against the speed of the worker, is recorded as the
   work of a share, while the share is verified against the pool's target. A
   slow worker is paid for more work than it proved.

## 8. Known gaps, modelled and shown by no run

* A lost reply of `submitblock` leaves an accepted block that is credited to
  nobody (`SubmitReplyLost`).
* A late reply is matched by nonce and time only (`share_validator.py:198`): after a
  call gave up, a share passes for what a share of another job with the same nonce
  and time is worth, a block included. `FalseOnlyByTwin` says that nothing else
  passes.
* A `record_share` that raises for a block closes the connection before the block is
  submitted (`RecordRaises`; `stratum/server.py:195`).
* A crash between the second and third commit of `credit_block` loses the
  credit of an address without a row (`MatureRound` updates, never inserts).
* A dry run debits the real balances (`payouts.py:95`); the repository's
  `README.md:144` calls it a simulation.
* The payout thread may send a balance that a failed commit left in the open
  transaction; if SQLite then gives up the transaction, the balance is back at
  its old value after the coins left (`leant`).
* A migration that was stopped after `CREATE TABLE miners_new` cannot be taken
  up: every later start fails at that statement (`Blocked`). One stopped after
  the `DROP` leaves the miners' rows in `miners_new` for good, behind a new and
  empty `miners`.
* `stop` waits for ever for a miner that neither reads nor hangs up (`Stalls`),
  and, with a Python whose `wait_closed` waits for all connections, for one that
  connected after the sessions to close were listed (`Late`).
* The hash of a block in the books is computed from the first 80 bytes of a
  header that is longer (`block_builder.py:358`); what btxd hashes is not in the
  repository.
* With a transaction fee the wallet cannot pay all balances (`TxFee`).
* An HTTP error or broken connection of `sendtoaddress` leaves no failed payout
  (`SendErrored`).
* Mining is not paused while btxd syncs: the current job goes on being pushed.
* `txid_from_raw` of a transaction with the marker of a witness in front hashes
  four bytes behind the outputs, which are the first of the witness and not the
  lock time, while the pool's own coinbase has marker and witness behind the
  outputs. The format of BTX's transactions is not in the repository, so it is
  open which of the two is meant.
* `take_broadcast_job` may hand out a newer job than the one whose flag was
  lowered, or none; the fallback to `current_job` makes both harmless
  (`ToldWhenQuiet`).

## 9. Not modelled

* The composition of `Shares`, `JobFlow` and `Ledger` in one module (section 2): where
  they meet, each stands for the other's step by itself. Start and stop of the threads: they are daemons, joined for a
  few seconds at most, so that a stop may cut them off anywhere, like `Crash` of
  `Ledger`.
* In a session, the requests for metrics, the push of the canonical name, and a
  second authorization while the work of the first is being pushed. The start and
  stop of the HTTP server.
* The bytes of a block's header, the seeds in it and the hash of a block, which
  line up fields of the job in a fixed order. Rounding of floats in
  `difficulty_to_share_target`. `target_to_difficulty`, which nothing calls.
* HTTP API, statistics, front end: read only. Configuration: its values are
  the constants. Deployment scripts: outside the running program.
* Names, last-seen times and metrics of miners, `set_stat` and log lines feed
  the dashboard only. Of the table of miners `Database` has the counters.
* Of a Stratum message only what it does is modelled, not its form; a
  malformed one is answered with an error and changes nothing.
* What btxd and the solver do inside is external; they appear as what the code
  calls and what it reads.
