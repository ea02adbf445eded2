-------------------------------- MODULE Fees --------------------------------
(***************************************************************************)
(* The arithmetic of the operator's fee: the fee in basis points, the part *)
(* of a reward that is distributed, the division of the coinbase and the   *)
(* work a PPLNS window must reach.  Percentages and difficulties are       *)
(* decimal numbers in the program; they are whole thousandths here, and    *)
(* the multiplier of the window is a whole number.                         *)
(***************************************************************************)
EXTENDS Integers

\* round(): to the nearest integer, a tie to the even one.
Round(n, d) ==
    LET q == n \div d
        r == n % d
    IN  IF 2 * r < d \/ (2 * r = d /\ q % 2 = 0) THEN q ELSE q + 1

\* pool_fee_bps: pool_fee_percent in thousandths to basis points in 0..10000.
Clipped(bps) == IF bps < 0 THEN 0 ELSE IF bps > 10000 THEN 10000 ELSE bps
pool_fee_bps(pct) == Clipped(Round(pct, 10))

\* What is left for the miners, rounded down; the operator keeps the rest.
MinersPartWithoutFee(reward, bps) == reward
MinersPart(reward, bps) == (reward * (10000 - bps)) \div 10000

distributable_reward(reward, bps) ==
    IF bps <= 0 \/ reward <= 0 THEN reward ELSE MinersPart(reward, bps)

\* What build_coinbase_tx pays the developer; the pool gets the rest.
DevValue(value, bps) == (value * bps) \div 10000

\* A developer's part below one unit is none, and never more than there is.
Divided(value, dev) ==
    IF dev <= 0 THEN [user |-> value, dev |-> 0]
    ELSE IF dev >= value THEN [user |-> 0, dev |-> value]
    ELSE [user |-> value - dev, dev |-> dev]

\* split_coinbase_value: what the pool's address and the developer's get.
split_coinbase_value(value, bps) ==
    IF bps <= 0 \/ value <= 0 THEN [user |-> value, dev |-> 0]
    ELSE Divided(value, DevValue(value, IF bps > 10000 THEN 10000 ELSE bps))

\* window_work_target: a fixed window if one is configured, otherwise a
\* multiple of the network's difficulty, and at least the multiplier itself.
\* One is the unit of the difficulties: 1.0.
One == 1000
window_work_target(difficulty, multiplier, fixed) ==
    LET scaled == (IF difficulty > 0 THEN difficulty ELSE 0) * multiplier
    IN  IF fixed # 0 THEN fixed * One
        ELSE IF scaled > One * multiplier THEN scaled ELSE One * multiplier

=============================================================================
