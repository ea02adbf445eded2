------------------------------ MODULE MCLedger ------------------------------
(***************************************************************************)
(* Instances of Ledger for TLC: two miners, two or three submissions and   *)
(* the credits a window yields for a coinbase of Reward.                   *)
(***************************************************************************)
EXTENDS Ledger, TLC
CONSTANTS a1, a2, t1, t2, t3, b1, b2

TwoBlocks == (t1 :> b1) @@ (t2 :> b2)
\* t1 and t2 carry the same solution.
SolvedTwice == (t1 :> b1) @@ (t2 :> b1) @@ (t3 :> b2)

\* A division that leaves dust, one that leaves the first miner out, and the
\* empty window.
SplitAwards == {(a1 :> 2) @@ (a2 :> 1), (a1 :> 0) @@ (a2 :> 2), Zero}
SomeAwards == SplitAwards \ {Zero}
=============================================================================
