-------------------------------- MODULE Pplns --------------------------------
(***************************************************************************)
(* How a reward is divided (pplns.py, credit_block up to its first write;  *)
(* database.py, shares_for_pplns_window).  Sessions keep recording shares  *)
(* while an executor thread divides the reward of a block; the thread      *)
(* works on the rows of its one query.  Works and difficulties are whole   *)
(* thousandths; the floats of the code err by less than Noise, which is    *)
(* what separates their quotients from exact ones.                         *)
(***************************************************************************)
EXTENDS Fees, Sequences, FiniteSets, Functions

CONSTANTS
    Addr,         \* payout addresses of the miners
    Works,        \* difficulties a share may be recorded with
    Difficulties, \* what the network monitor may report, stale or not
    Multiplier,   \* pplns_window_multiplier
    Fixed,        \* pplns_window_work, 0 when absent
    Rewards,      \* coinbase values
    FeePercent,   \* pool_fee_percent, in thousandths
    Noise,        \* error of D * work / total, times total
    MaxShares     \* bound on the shares of a behaviour

ASSUME PplnsAssumption ==
    /\ Works \subseteq Nat /\ Difficulties \subseteq Nat
    /\ Multiplier \in Nat /\ Fixed \in Nat
    /\ Rewards \subseteq Nat /\ FeePercent \in Int
    /\ Noise \in Nat /\ MaxShares \in Nat

VARIABLES
    shares,        \* the table, oldest first
    step,          \* the next step of the crediting thread
    found,         \* the row of the share that solved the block
    distributable, target,
    rows,          \* how many rows the query returned
    picked, total, \* how many of them are in the window, and their work
    next,          \* the row of the window whose credit comes next
    credits,       \* per address, for add_immature_credits
    allotted       \* sum over credit_rows, for create_mining_round

vars == <<shares, step, found, distributable, target, rows, picked, total,
          next, credits, allotted>>

Init ==
    /\ shares = <<>>
    /\ step = "idle" /\ found = 0
    /\ distributable = 0 /\ target = 0
    /\ rows = 0 /\ picked = 0 /\ total = 0 /\ next = 1
    /\ credits = [a \in Addr |-> 0] /\ allotted = 0

-----------------------------------------------------------------------------
(* The sessions *)

RecordShare(a, w) ==
    /\ Len(shares) < MaxShares
    /\ shares' = Append(shares, [address |-> a, work |-> w])
    /\ UNCHANGED <<step, found, distributable, target, rows, picked, total,
                   next, credits, allotted>>

\* _on_submit records the share that solves a block before it submits it.
WinnerFirst(a, w) == Append(shares, [address |-> a, work |-> w])

FindBlock(a, w) ==
    /\ step = "idle" /\ Len(shares) < MaxShares
    /\ shares' = WinnerFirst(a, w)
    /\ found' = Len(shares) + 1
    /\ step' = "submitted"
    /\ UNCHANGED <<distributable, target, rows, picked, total, next, credits,
                   allotted>>

-----------------------------------------------------------------------------
(* The crediting thread *)

\* The reward is what the template promised; the difficulty is the monitor's.
CreditBlock(reward, difficulty) ==
    /\ step = "submitted"
    /\ distributable' = distributable_reward(reward, pool_fee_bps(FeePercent))
    /\ target' = window_work_target(difficulty, Multiplier, Fixed)
    /\ step' = IF target' <= 0 THEN "none" ELSE "query"
    /\ UNCHANGED <<shares, found, rows, picked, total, next, credits, allotted>>

\* ORDER BY id DESC: row i of the result is the i-th newest share.
Query ==
    /\ step = "query"
    /\ rows' = Len(shares)
    /\ step' = "select"
    /\ UNCHANGED <<shares, found, distributable, target, picked, total, next,
                   credits, allotted>>

Row(i) == shares[rows + 1 - i]

IsOverfull(work) == work > target
IsFull(work) == work >= target

Select ==
    /\ step = "select" /\ picked < rows
    /\ picked' = picked + 1
    /\ total' = total + Row(picked + 1).work
    /\ step' = IF IsFull(total') THEN "check" ELSE "select"
    /\ UNCHANGED <<shares, found, distributable, target, rows, next, credits,
                   allotted>>

\* No rows, or no work in them: nothing is credited.
Check ==
    /\ step = "check" \/ (step = "select" /\ picked = rows)
    /\ step' = IF picked = 0 \/ total <= 0 THEN "none" ELSE "split"
    /\ UNCHANGED <<shares, found, distributable, target, rows, picked, total,
                   next, credits, allotted>>

\* int(distributable * work / total_work): the floor of a float quotient.
Near(work) == LET q == (distributable * work) \div total IN {q - 1, q, q + 1}
AmountsRoundedUp(work) ==
    {n \in Near(work) : n \in Nat /\ n * total >= distributable * work}
Amounts(work) ==
    {n \in Near(work) : /\ n \in Nat
                        /\ n * total <= distributable * work + Noise
                        /\ (n + 1) * total > distributable * work - Noise}

\* A row of less than one unit gets nothing.
IsSmall(n) == n <= 1
IsNothing(n) == n <= 0

LastAmount(old, n) == n
Sum(old, n) == old + n

Split ==
    /\ step = "split" /\ next <= picked
    /\ next' = next + 1
    /\ \E n \in Amounts(Row(next).work) :
          IF IsNothing(n)
          THEN UNCHANGED <<credits, allotted>>
          ELSE /\ credits' = [credits EXCEPT ![Row(next).address] = Sum(@, n)]
               /\ allotted' = allotted + n
    /\ UNCHANGED <<shares, step, found, distributable, target, rows, picked,
                   total>>

\* What follows is Ledger's RecordBlock, or nothing.
Finish ==
    /\ step = "split" /\ next > picked
    /\ step' = IF allotted = 0 THEN "none" ELSE "credited"
    /\ UNCHANGED <<shares, found, distributable, target, rows, picked, total,
                   next, credits, allotted>>

Next ==
    \/ \E a \in Addr, w \in Works : RecordShare(a, w) \/ FindBlock(a, w)
    \/ \E r \in Rewards, d \in Difficulties : CreditBlock(r, d)
    \/ Query \/ Select \/ Check
    \/ Split \/ Finish

Spec == Init /\ [][Next]_vars

-----------------------------------------------------------------------------
(* Properties *)

TypeOK ==
    /\ shares \in Seq([address : Addr, work : Works])
    /\ step \in {"idle", "submitted", "query", "select", "check", "split",
                 "credited", "none"}
    /\ found \in Nat /\ distributable \in Nat /\ target \in Nat
    /\ rows \in Nat /\ picked \in Nat /\ total \in Nat /\ next \in Nat
    /\ credits \in [Addr -> Nat] /\ allotted \in Nat

WorkOf(R) == SumFunctionOnSet([i \in 1 .. rows |-> Row(i).work], R)
RowsOf(a) == {i \in 1 .. picked : Row(i).address = a}

\* The credits of a block never exceed its distributable reward, although
\* each of them is a float of its own that may be rounded upwards.
NoOverAllocation ==
    picked * Noise < total => allotted <= distributable

\* What the truncations leave to nobody is at most one unit per share of the
\* window, the rows that get nothing included.
DustBound ==
    step \in {"split", "credited", "none"} /\ next > picked /\ picked * Noise < total
        => distributable - allotted <= picked

\* Each address gets its part of the window's work, short by less than a unit
\* per share of its own (README.md:114).
FairShare ==
    step = "credited" => \A a \in Addr :
        LET n == Cardinality(RowsOf(a))
            part == distributable * WorkOf(RowsOf(a))
        IN  /\ credits[a] * total <= part + n * Noise
            /\ (credits[a] + n) * total + n * Noise >= part

\* The window is the newest shares, as many as reach the target and not one
\* more, or all there are (README.md:113), whatever is recorded meanwhile; the
\* share that found the block is among those it is taken from.
WindowIsMinimal ==
    step \in {"split", "credited"} =>
        /\ picked > 0 /\ total = WorkOf(1 .. picked)
        /\ WorkOf(1 .. picked - 1) < target
        /\ total >= target \/ picked = rows
        /\ found \in 1 .. rows

=============================================================================
