------------------------------ MODULE Database ------------------------------
(***************************************************************************)
(* PoolDatabase, statement by statement (database.py): the constructor,    *)
(* which creates the tables or brings those of an older version up to      *)
(* date, and the methods with more than one statement together with those  *)
(* that write the same tables.  Connection says what a lock, a statement   *)
(* and a commit do; this module says which statements there are and who    *)
(* calls them.  Bounds: MaxShares, and MaxFaults of Connection.            *)
(***************************************************************************)
EXTENDS Connection, Sequences, FiniteSets, Functions

CONSTANTS
    Name,       \* canonical names of the miners
    Legacy,     \* those with a row in the table of the older version
    Payees,     \* the addresses of a round, in the order of its credits
    Block,      \* the blocks the pool finds
    Credit,     \* what a block's round grants to each of Payees
    Columns,    \* columns the older version lacks, in the order of the ALTERs
    MaxShares,  \* bound on the shares of a miner, valid and invalid ones
    NoRow       \* a miner without a row

Addr == {Payees[i] : i \in 1 .. Len(Payees)}
Row == [valid : 0 .. MaxShares, invalid : 0 .. MaxShares]

\* credits is a dict (pplns.py:71): an address has one entry.
ASSUME DatabaseAssumption ==
    /\ Legacy \subseteq Name
    /\ Payees \in Seq(Addr) /\ IsInjective(Payees)
    /\ Columns \in Seq(Range(Columns))
    /\ IsFiniteSet(Block)
    /\ Credit \in [Block -> [Addr -> Nat \ {0}]]
    /\ MaxShares \in Nat \ {0}
    /\ NoRow \notin Row

VARIABLES
    opening,    \* the next step of the constructor
    task,       \* the next write of the coroutine that submitted a block
    pay,        \* the payout thread: its next write, for whom, how much
    leant       \* it once sent a balance that was not committed yet

tasks == <<task, pay, leant>>
vars == <<connection, opening, tasks>>

-----------------------------------------------------------------------------
(* The tables.                                                             *)

Rows == [Name -> Row \cup {NoRow}]
NoRows == [n \in Name |-> NoRow]

PoolTables ==
    [layout : {"absent", "legacy", "canonical"},    \* of miners
     columns : SUBSET Range(Columns),               \* those present
     miners : Rows,
     spare : BOOLEAN, copy : Rows,                  \* miners_new
     shares : [Name -> 0 .. MaxShares],             \* rows in shares
     blocks : [Block -> {"none", "immature", "credited"}],  \* status
     rounds : [Block -> {"none", "immature", "credited"}],  \* status
     credits : [Block -> [Addr -> Nat]],            \* round_credits
     payee : SUBSET Addr,                           \* rows of miner_balances
     immature : [Addr -> Nat], balance : [Addr -> Nat], paid : [Addr -> Nat],
     payouts : [Addr -> Nat]]                       \* rows of payouts, summed

Zero == [a \in Addr |-> 0]

Empty ==
    [layout |-> "absent", columns |-> {}, miners |-> NoRows,
     spare |-> FALSE, copy |-> NoRows,
     shares |-> [n \in Name |-> 0],
     blocks |-> [b \in Block |-> "none"],
     rounds |-> [b \in Block |-> "none"],
     credits |-> [b \in Block |-> Zero],
     payee |-> {}, immature |-> Zero, balance |-> Zero, paid |-> Zero,
     payouts |-> Zero]

\* What an older version leaves: its miners have a share and an invalid one,
\* another miner has a share and no row, some of the columns are missing.
Older ==
    {[Empty EXCEPT
        !.layout = "legacy",
        !.columns = {Columns[i] : i \in 1 .. k},
        !.miners = [n \in Name |-> IF n \in Legacy
                                   THEN [valid |-> 1, invalid |-> 1]
                                   ELSE NoRow],
        !.shares = [n \in Name |-> 1]] : k \in 0 .. Len(Columns)}

-----------------------------------------------------------------------------
(* The constructor: every statement is committed by itself, and a process  *)
(* that is stopped or fails on the way begins again with the first.        *)

\* CREATE TABLE IF NOT EXISTS, for every table.
Created(db) ==
    IF db.layout # "absent" THEN db
    ELSE [db EXCEPT !.layout = "canonical", !.miners = NoRows,
                    !.columns = IF db.spare THEN @ ELSE Range(Columns)]

MissingUnchecked(db) == Range(Columns)
Missing(db) == Range(Columns) \ db.columns

\* The rows of miners, then a row for everyone who has only shares.
Copied(db) == [db EXCEPT !.copy = db.miners]
WithShares(db) ==
    [db EXCEPT !.copy =
        [n \in Name |-> IF @[n] = NoRow /\ db.shares[n] > 0
                        THEN [valid |-> 0, invalid |-> 0] ELSE @[n]]]
Counted(db) ==
    [db EXCEPT !.copy =
        [n \in Name |-> IF @[n] = NoRow THEN NoRow
                        ELSE [@[n] EXCEPT !.valid = db.shares[n]]]]
Dropped(db) == [db EXCEPT !.layout = "absent", !.miners = NoRows]
Renamed(db) ==
    [db EXCEPT !.layout = "canonical", !.miners = db.copy,
               !.spare = FALSE, !.copy = NoRows]

\* One statement of the constructor and the step after it.
Do(step, tables, then) ==
    /\ opening = step
    /\ Autocommit(tables)
    /\ opening' = then
    /\ UNCHANGED tasks

CreateTables == Do("tables", Created(view), "metrics")

\* The first of Columns is one of miners and goes before the rest,
AddMetrics ==
    LET new == Missing(view) \cap {Columns[1]}
    IN  Do("metrics", [view EXCEPT !.columns = @ \cup new],
           IF view.layout = "legacy" THEN "create" ELSE "columns")

\* which are columns of blocks.
AddColumn ==
    \E c \in Missing(view) \ view.columns :
        Do("columns", [view EXCEPT !.columns = @ \cup {c}], "columns")

\* _migrate_miners_to_canonical_pk
AfterCreateDrop == "drop"
AfterCreate == "copy"

CreateNew ==
    /\ ~view.spare
    /\ Do("create", [view EXCEPT !.spare = TRUE], AfterCreate)

CopyMiners == Do("copy", Copied(view), "shares")
CopyNames == Do("shares", WithShares(view), "count")
CountShares == Do("count", Counted(view), "drop")
DropOld == Do("drop", Dropped(view), "rename")
RenameNew == Do("rename", Renamed(view), "columns")

\* A statement that cannot be executed ends the process: a table or a column
\* that it creates is there already.
Fails ==
    \/ opening = "create" /\ view.spare
    \/ opening = "columns" /\ Missing(view) \cap view.columns # {}

StartFails ==
    /\ ~ready
    /\ Fails
    /\ opening' = "tables"
    /\ UNCHANGED <<connection, tasks>>

Serve ==
    /\ opening = "columns"
    /\ Missing(view) = {}
    /\ Open
    /\ opening' = "serving"
    /\ UNCHANGED tasks

Opening ==
    \/ CreateTables \/ AddMetrics \/ AddColumn \/ CreateNew \/ CopyMiners
    \/ CopyNames \/ CountShares \/ DropOld \/ RenameNew \/ StartFails \/ Serve

-----------------------------------------------------------------------------
(* The methods: their names and arguments, and their statements.           *)

\* What an address may be paid.
Granted(a, blocks) == SumFunctionOnSet([b \in Block |-> Credit[b][a]], blocks)
Payments == UNION {{a} \X (0 .. Granted(a, Block)) : a \in Addr}

PoolMethod ==
    ({"upsert_miner", "valid_share", "invalid_share"} \X Name) \cup
    ({"record_block", "create_round", "add_immature", "mature_round"} \X Block)
    \cup ({"record_payout", "debit_balance"} \X Payments)

PoolStatements(m) ==
    CASE m[1] = "valid_share" -> 2
      [] m[1] = "create_round" -> 1 + Len(Payees)
      [] m[1] = "add_immature" -> Len(Payees)
      [] m[1] = "mature_round" -> Len(Payees) + 2
      [] OTHER -> 1

\* UPDATE miners, which changes nothing when there is no row.
Tick(db, n, counter) ==
    IF db.miners[n] = NoRow THEN db
    ELSE [db EXCEPT !.miners[n][counter] = @ + 1]

Upserted(db, n) ==
    [db EXCEPT !.miners[n] =
        IF @ = NoRow THEN [valid |-> 0, invalid |-> 0] ELSE @]

Shared(db, i, n) ==
    IF i = 1 THEN Tick(db, n, "valid") ELSE [db EXCEPT !.shares[n] = @ + 1]

RoundCreated(db, i, b) ==
    IF i = 1 THEN [db EXCEPT !.rounds[b] = "immature"]
    ELSE LET a == Payees[i - 1]
         IN  [db EXCEPT !.credits[b][a] = Credit[b][a]]

ImmatureAdded(db, i, b) ==
    LET a == Payees[i]
    IN  [db EXCEPT !.payee = @ \cup {a}, !.immature[a] = @ + Credit[b][a]]

\* UPDATE miner_balances, which changes nothing when there is no row.
BalanceMoved(db, a, amount) ==
    IF a \notin db.payee THEN db
    ELSE [db EXCEPT !.immature[a] = IF @ > amount THEN @ - amount ELSE 0,
                    !.balance[a] = @ + amount]

Matured(db, i, b) ==
    IF i <= Len(Payees) THEN BalanceMoved(db, Payees[i], db.credits[b][Payees[i]])
    ELSE IF i = Len(Payees) + 1 THEN [db EXCEPT !.rounds[b] = "credited"]
    ELSE [db EXCEPT !.blocks[b] = "credited"]

Debited(db, a, amount) ==
    [db EXCEPT !.balance[a] = IF @ > amount THEN @ - amount ELSE 0,
               !.paid[a] = @ + amount]

PoolExecute(m, i, db) ==
    CASE m[1] = "upsert_miner" -> Upserted(db, m[2])
      [] m[1] = "valid_share" -> Shared(db, i, m[2])
      [] m[1] = "invalid_share" -> Tick(db, m[2], "invalid")
      [] m[1] = "record_block" -> [db EXCEPT !.blocks[m[2]] = "immature"]
      [] m[1] = "create_round" -> RoundCreated(db, i, m[2])
      [] m[1] = "add_immature" -> ImmatureAdded(db, i, m[2])
      [] m[1] = "mature_round" -> Matured(db, i, m[2])
      [] m[1] = "record_payout" ->
            [db EXCEPT !.payouts[m[2][1]] = @ + m[2][2]]
      [] m[1] = "debit_balance" -> Debited(db, m[2][1], m[2][2])

-----------------------------------------------------------------------------
(* The callers.                                                            *)

Asleep == <<"asleep">>

\* Share handlers run in the executor, in any order.
CallShare ==
    \E n \in Name :
        \/ Call(<<"upsert_miner", n>>)
        \/ /\ view.shares[n] < MaxShares
           /\ Call(<<"valid_share", n>>)
        \/ /\ view.miners[n] # NoRow
           /\ view.miners[n].invalid < MaxShares
           /\ Call(<<"invalid_share", n>>)

\* credit_block: three methods in a row.
NextWrite(write) ==
    CASE write = "record_block" -> "create_round"
      [] write = "create_round" -> "add_immature"
      [] write = "add_immature" -> "done"

CallCredit ==
    \E b \in Block : task[b] # "done" /\ Call(<<task[b], b>>)

\* The maturity thread; the round was created long ago.
CallMature ==
    \E b \in Block :
        /\ view.rounds[b] = "immature" /\ task[b] = "done"
        /\ Call(<<"mature_round", b>>)

\* The payout thread has read a balance and sent it.
SendPayout ==
    /\ ready /\ LockIsFree
    /\ pay = Asleep
    /\ \E a \in Addr :
          /\ view.balance[a] > 0
          /\ pay' = <<"record_payout", <<a, view.balance[a]>>>>
          /\ leant' = (leant \/ view.balance[a] # disk.balance[a])
    /\ UNCHANGED <<connection, opening, task>>

CallPayout == pay # Asleep /\ Call(pay)

ServeCall ==
    /\ CallShare \/ CallCredit \/ CallMature \/ CallPayout
    /\ UNCHANGED <<opening, tasks>>

Execution == Step /\ UNCHANGED <<opening, tasks>>

\* The caller goes on,
Returns ==
    /\ Return
    /\ task' = [b \in Block |-> IF holder = <<task[b], b>>
                                THEN NextWrite(task[b]) ELSE task[b]]
    /\ pay' = IF holder # pay THEN pay
              ELSE IF pay[1] = "record_payout" THEN <<"debit_balance", pay[2]>>
              ELSE Asleep
    /\ UNCHANGED <<opening, leant>>

\* or ends: an exception is logged and nothing is tried again.
Raises ==
    /\ Raise
    /\ task' = [b \in Block |-> IF holder = <<task[b], b>> THEN "done"
                                ELSE task[b]]
    /\ pay' = IF holder = pay THEN Asleep ELSE pay
    /\ UNCHANGED <<opening, leant>>

\* The coroutines and threads end with the process.  A block that was not
\* submitted yet may be found after the restart.
Dies ==
    /\ Crash
    /\ opening' = "tables"
    /\ task' = [b \in Block |-> IF task[b] = "record_block" THEN task[b]
                                ELSE "done"]
    /\ pay' = Asleep
    /\ UNCHANGED leant

-----------------------------------------------------------------------------
DatabaseInit ==
    /\ disk \in {Empty} \cup Older
    /\ view = disk /\ seen = disk
    /\ ready = FALSE /\ holder = Nobody /\ next = 1 /\ answer = "none"
    /\ faults = 0
    /\ opening = "tables"
    /\ task = [b \in Block |-> "record_block"]
    /\ pay = Asleep /\ leant = FALSE

DatabaseNext ==
    \/ Opening
    \/ ServeCall \/ SendPayout \/ Execution \/ Returns \/ Raises
    \/ Dies

\* The constructor and a method that has the lock run to their end.
DatabaseSpec ==
    /\ DatabaseInit /\ [][DatabaseNext]_vars
    /\ WF_vars(Opening) /\ WF_vars(Execution) /\ WF_vars(Returns)

-----------------------------------------------------------------------------
(* Properties *)

\* The tables a caller sees and those a restart finds.
Visible == {disk, seen}

\* A round and its block have one status, the round has all of its credits.
StatusesAgree(db) ==
    \A b \in Block :
        /\ db.rounds[b] # "none" => db.blocks[b] = db.rounds[b]
        /\ db.credits[b] = IF db.rounds[b] = "none" THEN Zero ELSE Credit[b]

\* No counter of valid shares is ahead of the shares.
CountersAgree(db) ==
    db.layout = "canonical" =>
        \A n \in Name : db.miners[n] # NoRow => db.miners[n].valid <= db.shares[n]

\* The credits of a round reach all of its payees or none of them, and the
\* coins that left a balance were balance before.
BooksWhole(db) ==
    \E granted \in SUBSET {b \in Block : db.rounds[b] = "credited"} :
        \A a \in Addr : db.balance[a] + db.paid[a] = Granted(a, granted)

\* What two tables say of the same thing agrees at every moment, for callers
\* and for a restart, wherever a method was cut: record_share, create_mining_round,
\* mature_round and debit_balance leave nothing half done.  For the balances it
\* takes a payout thread that has read committed ones only.
TablesAgree ==
    \A db \in Visible :
        StatusesAgree(db) /\ CountersAgree(db) /\ (~leant => BooksWhole(db))

\* Rows a stopped migration may leave: in miners or in miners_new.
Held(db, n) == {db.miners[n], db.copy[n]} \ {NoRow}

\* No step and no stop of the constructor loses the row of a miner or forgets
\* an invalid share: the row is in miners or, when a stop fell between DROP and
\* RENAME, in miners_new.
MinersKept ==
    [][\A n \in Name : \A old \in Held(disk, n) :
          \E new \in Held(disk', n) : new.invalid >= old.invalid]_vars

\* A stop cut the migration after CREATE TABLE miners_new: every later start
\* finds the table and cannot create it.
Blocked ==
    /\ view.spare /\ view.layout = "legacy"
    /\ opening \in {"tables", "metrics", "create"}

\* Whatever version the file is of, and wherever a start is stopped, some start
\* reaches the point where the pool serves, unless the migration was cut.
EventuallyServes == []<>(ready \/ Blocked)

=============================================================================
