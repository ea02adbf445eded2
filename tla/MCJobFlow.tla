------------------------------ MODULE MCJobFlow ------------------------------
(***************************************************************************)
(* Instances of JobFlow for TLC.                                           *)
(***************************************************************************)
EXTENDS JobFlow
CONSTANTS s1, s2
=============================================================================
