----------------------------- MODULE MCSessions -----------------------------
(***************************************************************************)
(* Sessions for TLC: a miner that reads, and one that never does.          *)
(***************************************************************************)
EXTENDS Sessions

CONSTANTS s1, s2

=============================================================================
