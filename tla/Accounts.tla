------------------------------ MODULE Accounts ------------------------------
(***************************************************************************)
(* What the pool's ledger promises, without its commits, threads and       *)
(* snapshots: the credits of a round are fixed when the round is created,  *)
(* become payable all at once and only once, and what is paid is taken     *)
(* from what is payable.                                                   *)
(***************************************************************************)
EXTENDS Integers

CONSTANTS Addr, Task

VARIABLES
    round,      \* status of the round of each task
    alloc,      \* what the round grants to each address
    payable,    \* coins each address may ask for
    paid        \* coins each address was paid

accounts == <<round, alloc, payable, paid>>

Init ==
    /\ round = [t \in Task |-> "none"]
    /\ alloc = [t \in Task |-> [a \in Addr |-> 0]]
    /\ payable = [a \in Addr |-> 0]
    /\ paid = [a \in Addr |-> 0]

Grant(t) ==
    /\ round[t] = "none"
    /\ round' = [round EXCEPT ![t] = "immature"]
    /\ alloc'[t] \in [Addr -> Nat]
    /\ alloc' = [alloc EXCEPT ![t] = alloc'[t]]
    /\ UNCHANGED <<payable, paid>>

Mature(t) ==
    /\ round[t] = "immature"
    /\ round' = [round EXCEPT ![t] = "credited"]
    /\ payable' = [a \in Addr |-> payable[a] + alloc[t][a]]
    /\ UNCHANGED <<alloc, paid>>

Pay(a) ==
    /\ \E x \in 0 .. payable[a] :
          /\ payable' = [payable EXCEPT ![a] = @ - x]
          /\ paid' = [paid EXCEPT ![a] = @ + x]
    /\ UNCHANGED <<round, alloc>>

Next ==
    \/ \E t \in Task : Grant(t) \/ Mature(t)
    \/ \E a \in Addr : Pay(a)

Spec == Init /\ [][Next]_accounts

=============================================================================
