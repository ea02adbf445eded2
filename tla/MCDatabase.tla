----------------------------- MODULE MCDatabase -----------------------------
(***************************************************************************)
(* Database for TLC: two miners, one of them known to the older version,   *)
(* one block whose round has two payees, and two columns to add.           *)
(***************************************************************************)
EXTENDS Database, TLC

CONSTANTS w1, w2, a1, a2, b1

MCLegacy == {w1}
MCPayees == <<a1, a2>>
MCCredit == (b1 :> (a1 :> 1 @@ a2 :> 2))
MCColumns == <<"metrics_updated_at", "status">>

=============================================================================
