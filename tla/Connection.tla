----------------------------- MODULE Connection -----------------------------
(***************************************************************************)
(* The one SQLite connection all threads of the pool share (database.py):  *)
(* a method takes the lock, executes its statements one by one, commits    *)
(* and releases the lock.  Python opens a transaction before the first     *)
(* statement that writes; nothing in the pool ever rolls one back, so a    *)
(* method whose commit fails leaves its statements to the next commit.     *)
(***************************************************************************)
EXTENDS Integers

CONSTANTS
    Method,             \* the methods with their arguments
    Statements(_),      \* how many statements a method executes
    Execute(_, _, _),   \* the tables after its i-th statement
    Tables,             \* contents of the tables
    MaxFaults,          \* bound on failing statements and crashes
    Nobody              \* the lock is free

ASSUME ConnectionAssumption ==
    /\ MaxFaults \in Nat
    /\ Nobody \notin Method
    /\ \A m \in Method : Statements(m) \in Nat

VARIABLES
    ready,      \* the constructor has returned
    disk,       \* what is committed
    view,       \* what this connection reads: with the open transaction
    holder,     \* the method that holds the lock
    next,       \* its next statement
    seen,       \* what it found: what other threads saw last
    answer,     \* how the last method ended
    faults

connection == <<ready, disk, view, holder, next, seen, answer, faults>>

Init ==
    /\ ready = FALSE
    /\ disk \in Tables /\ view = disk /\ seen = disk
    /\ holder = Nobody /\ next = 1
    /\ answer = "none"
    /\ faults = 0

AtMostFaults == faults < MaxFaults /\ faults' = faults + 1

\* A statement of the constructor is outside any transaction: it is committed
\* by itself.
Autocommit(tables) ==
    /\ ~ready
    /\ disk' = tables /\ view' = tables /\ seen' = tables
    /\ UNCHANGED <<ready, holder, next, answer, faults>>

Open ==
    /\ ~ready
    /\ ready' = TRUE
    /\ UNCHANGED <<disk, view, holder, next, seen, answer, faults>>

\* with self._lock
NoLock == TRUE
LockIsFree == holder = Nobody

Call(m) ==
    /\ ready
    /\ LockIsFree
    /\ holder' = m /\ next' = 1 /\ seen' = view
    /\ UNCHANGED <<ready, disk, view, answer, faults>>

CommittedEach == view'
Uncommitted == disk

Step ==
    /\ ready
    /\ holder # Nobody /\ next <= Statements(holder)
    /\ view' = Execute(holder, next, view)
    /\ disk' = Uncommitted
    /\ next' = next + 1
    /\ UNCHANGED <<ready, holder, seen, answer, faults>>

Ended == holder # Nobody /\ next = Statements(holder) + 1

\* The lock is released; others see what the connection sees.
Release(how) ==
    /\ holder' = Nobody /\ next' = 1 /\ seen' = view'
    /\ answer' = how

\* self._conn.commit()
Committed == view

Return ==
    /\ ready
    /\ Ended
    /\ disk' = Committed
    /\ UNCHANGED <<ready, view, faults>>
    /\ Release("returned")

\* Another process holds the file for longer than the five seconds sqlite3
\* waits: the first statement that writes is refused,
Refused ==
    /\ ready
    /\ holder # Nobody /\ next = 1
    /\ AtMostFaults
    /\ UNCHANGED <<ready, disk, view>>
    /\ Release("raised")

\* or the commit is, and the transaction stays open.
CommitRefused ==
    /\ ready
    /\ Ended
    /\ AtMostFaults
    /\ UNCHANGED <<ready, disk, view>>
    /\ Release("raised")

\* A full disk or an I/O error, at a statement or at the commit: SQLite gives
\* up the whole transaction, with what earlier methods left in it.
RolledBack ==
    /\ ready
    /\ holder # Nobody
    /\ AtMostFaults
    /\ view' = disk
    /\ Release("raised")
    /\ UNCHANGED <<ready, disk>>

Crash ==
    /\ AtMostFaults
    /\ ready' = FALSE
    /\ view' = disk
    /\ Release("none")
    /\ UNCHANGED disk

Raise == Refused \/ CommitRefused \/ RolledBack

Next ==
    \/ \E tables \in Tables : Autocommit(tables)
    \/ Open
    \/ \E m \in Method : Call(m)
    \/ Step \/ Return \/ Raise \/ Crash

Spec == Init /\ [][Next]_connection

-----------------------------------------------------------------------------
(* Properties *)

\* The tables after the first i statements of m, for every i.
After(m, tables) ==
    LET after[i \in 0 .. Statements(m)] ==
            IF i = 0 THEN tables ELSE Execute(m, i, after[i - 1])
    IN  after

Effect(m, tables) == After(m, tables)[Statements(m)]

\* Whatever fails, and however the threads interleave, the connection behaves
\* like a store whose methods are atomic: what Ledger, Shares and Pplns take
\* for granted of PoolDatabase, and what a restart may rely on.
Abstract == INSTANCE AtomicStore WITH view <- seen
ImplementsAtomicStore == Abstract!Spec

=============================================================================
