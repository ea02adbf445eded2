---------------------------- MODULE AtomicStore -----------------------------
(***************************************************************************)
(* What the callers of PoolDatabase rely on: a method happens at once; if  *)
(* it returns, its effect is in the file; if it raises, it has happened    *)
(* for this process and may still be lost, or it has not happened.         *)
(***************************************************************************)
CONSTANTS
    Method,         \* the methods with their arguments
    Effect(_, _),   \* the tables a method makes of the tables it finds
    Tables

VARIABLES
    ready,      \* the database is open
    disk,       \* what a restart finds
    view,       \* what the process sees
    answer      \* how the last method ended

store == <<ready, disk, view, answer>>

Init ==
    /\ ready = FALSE
    /\ disk \in Tables
    /\ view = disk
    /\ answer = "none"

\* While it opens, the database may rearrange its tables.
Rearrange ==
    /\ ~ready
    /\ disk' \in Tables
    /\ view' = disk'
    /\ UNCHANGED <<ready, answer>>

Open ==
    /\ ~ready
    /\ ready' = TRUE
    /\ UNCHANGED <<disk, view, answer>>

Returns(m) ==
    /\ ready
    /\ view' = Effect(m, view)
    /\ disk' = view'
    /\ answer' = "returned"
    /\ UNCHANGED ready

Raises(m) ==
    /\ ready
    /\ view' \in {Effect(m, view), view, disk}
    /\ answer' = "raised"
    /\ UNCHANGED <<ready, disk>>

Restart ==
    /\ ready' = FALSE
    /\ view' = disk
    /\ answer' = "none"
    /\ UNCHANGED disk

Next ==
    \/ Rearrange \/ Open \/ Restart
    \/ \E m \in Method : Returns(m) \/ Raises(m)

Spec == Init /\ [][Next]_store

=============================================================================
