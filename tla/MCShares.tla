------------------------------- MODULE MCShares -------------------------------
(***************************************************************************)
(* Instances of Shares for TLC: two connections of one worker, two jobs of *)
(* which the second has the harder block target.                           *)
(***************************************************************************)
EXTENDS Shares
CONSTANTS s1, s2, w1, j1, j2, miss, good, best

OneWorker == [s \in Session |-> w1]

\* The block of the first job and the miss of the second are twins.
Jobs == [x \in Share |-> IF x = best THEN j1 ELSE j2]
Attempts == [x \in Share |-> IF x = good THEN 2 ELSE 1]
Digests == [x \in Share |-> IF x = miss THEN 9 ELSE IF x = good THEN 4 ELSE 2]
ShareTargets == [j \in Job |-> 5]
BlockTargets == [j \in Job |-> IF j = j1 THEN 2 ELSE 1]
=============================================================================
