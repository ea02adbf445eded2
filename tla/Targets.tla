------------------------------- MODULE Targets -------------------------------
(***************************************************************************)
(* From a difficulty to the target of a share, and the comparison of a     *)
(* digest with a target (difficulty.py).  A target is a number, and the    *)
(* sequence of its digits, the most significant first, where it is         *)
(* compared.  Difficulties are in millionths, and quotients exact: the     *)
(* code's are floats, right to 53 of the 256 bits.                         *)
(***************************************************************************)
EXTENDS Integers, Sequences, FiniteSets

CONSTANTS
    DIFF1_TARGET, MAX_TARGET, REFERENCE_SHARE_TARGET,
    NoTarget        \* the network target is not known

ASSUME TargetsAssumption ==
    /\ MAX_TARGET \in Nat
    /\ DIFF1_TARGET \in 1 .. MAX_TARGET
    /\ REFERENCE_SHARE_TARGET \in 1 .. MAX_TARGET
    /\ NoTarget \notin 0 .. MAX_TARGET

Million == 1000000
REFERENCE_POOL_DIFFICULTY == 1000

\* A target of zero stands for the easiest one.
BlockTarget(network) == IF network <= 0 THEN DIFF1_TARGET ELSE network

\* block_target / (difficulty * (block_target / REFERENCE_SHARE_TARGET)
\*                            / REFERENCE_POOL_DIFFICULTY)
Scaled(difficulty, target) ==
    (target * REFERENCE_SHARE_TARGET * REFERENCE_POOL_DIFFICULTY)
        \div (difficulty * target)

\* A share is never harder than a block.
AsScaled(share, target) == share
NotHarder(share, target) == IF share < target THEN target ELSE share
Limited(share) == IF share > MAX_TARGET THEN MAX_TARGET ELSE share

Usable(difficulty) ==
    IF difficulty <= 0 THEN REFERENCE_POOL_DIFFICULTY ELSE difficulty

difficulty_to_share_target(difficulty, network) ==
    LET d == Usable(difficulty)
        target == BlockTarget(network)
    IN  IF network = NoTarget THEN Limited((DIFF1_TARGET * Million) \div d)
        ELSE Limited(NotHarder(Scaled(d, target), target))

\* The first digit that differs decides.
FirstDifferent(D) == CHOOSE i \in D : \A j \in D : i <= j

compare_digest_le(digest, target) ==
    LET different == {i \in DOMAIN digest : digest[i] # target[i]}
    IN  different = {} \/ digest[FirstDifferent(different)] < target[FirstDifferent(different)]

=============================================================================
