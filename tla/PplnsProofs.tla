----------------------------- MODULE PplnsProofs -----------------------------
(***************************************************************************)
(* Proofs about Pplns, for any shares, rewards, fees and windows: the      *)
(* credits of a block do not exceed its distributable reward and fall      *)
(* short of it by at most one unit per share.  The induction over the rows *)
(* is carried by a function of partial sums that the invariant asserts to  *)
(* exist.                                                                  *)
(***************************************************************************)
EXTENDS Pplns, SumLemmas, TLAPS

-----------------------------------------------------------------------------
(* The fee arithmetic (Fees), for every reward and every fee *)

LEMMA RoundType ==
  ASSUME NEW n \in Int
  PROVE  Round(n, 10) \in Int
<1>1. n \div 10 \in Int /\ (n \div 10) + 1 \in Int
  OBVIOUS
<1> QED
  BY <1>1 DEF Round

LEMMA ClippedRange == \A b \in Int : Clipped(b) \in Nat /\ Clipped(b) <= 10000
  BY DEF Clipped

\* A configured fee of any size becomes a share of the whole (pplns.py:17-19).
THEOREM FeeRange ==
  ASSUME NEW pct \in Int
  PROVE  pool_fee_bps(pct) \in Nat /\ pool_fee_bps(pct) <= 10000
<1>1. Round(pct, 10) \in Int
  BY RoundType
<1> QED
  BY <1>1, ClippedRange DEF pool_fee_bps

LEMMA DividedWhole ==
  \A value, dev \in Nat :
     /\ Divided(value, dev).user \in Nat
     /\ Divided(value, dev).dev \in Nat
     /\ Divided(value, dev).user + Divided(value, dev).dev = value
     /\ dev <= value => Divided(value, dev).user >= value - dev
  BY DEF Divided

\* The two divisions of a value by the same fee never grant more than it.
LEMMA Products ==
  ASSUME NEW value \in Nat, NEW bps \in Nat, bps <= 10000
  PROVE  /\ value * bps \in Nat
         /\ value * (10000 - bps) = 10000 * value - value * bps
         /\ value * (10000 - bps) \in Nat
  OBVIOUS

LEMMA TwoDivisions ==
  ASSUME NEW value \in Nat, NEW p \in Nat, NEW q \in Nat, p + q = 10000 * value
  PROVE  /\ p \div 10000 \in Nat /\ q \div 10000 \in Nat
         /\ (p \div 10000) + (q \div 10000) <= value
  OBVIOUS

LEMMA DevValueBounds ==
  ASSUME NEW value \in Nat, NEW bps \in Nat, bps <= 10000
  PROVE  /\ DevValue(value, bps) \in Nat
         /\ (value * (10000 - bps)) \div 10000 \in Nat
         /\ DevValue(value, bps) + (value * (10000 - bps)) \div 10000 <= value
<1> DEFINE p == value * bps
           q == value * (10000 - bps)
<1>1. p \in Nat /\ q \in Nat /\ p + q = 10000 * value
  BY Products
<1> HIDE DEF p, q
<1>2. /\ p \div 10000 \in Nat /\ q \div 10000 \in Nat
      /\ (p \div 10000) + (q \div 10000) <= value
  BY <1>1, TwoDivisions
<1> QED
  BY <1>2 DEF p, q, DevValue

\* The division of the coinbase is a division: nothing is created or lost
\* (block_builder.py:187-197, the amounts of the two outputs of build_coinbase_tx).
THEOREM SplitIsWhole ==
  ASSUME NEW value \in Nat, NEW bps \in Nat, bps <= 10000
  PROVE  /\ split_coinbase_value(value, bps).user \in Nat
         /\ split_coinbase_value(value, bps).dev \in Nat
         /\ split_coinbase_value(value, bps).user
            + split_coinbase_value(value, bps).dev = value
<1>1. CASE bps <= 0 \/ value <= 0
  BY <1>1 DEF split_coinbase_value
<1>2. CASE ~(bps <= 0 \/ value <= 0)
  <2>1. split_coinbase_value(value, bps) = Divided(value, DevValue(value, bps))
    BY <1>2 DEF split_coinbase_value
  <2>2. DevValue(value, bps) \in Nat
    BY DevValueBounds
  <2> QED
    BY <2>1, <2>2, DividedWhole
<1> QED
  BY <1>1, <1>2

\* The coins the pool's address receives from a coinbase cover what PPLNS
\* credits for it: floor(v(10000-b)/10000) <= v - floor(vb/10000).
THEOREM SplitCoversDistributable ==
  ASSUME NEW value \in Nat, NEW bps \in Nat, bps <= 10000
  PROVE  split_coinbase_value(value, bps).user >= distributable_reward(value, bps)
<1>1. CASE bps <= 0 \/ value <= 0
  BY <1>1 DEF split_coinbase_value, distributable_reward
<1>2. CASE ~(bps <= 0 \/ value <= 0)
  <2> DEFINE owed == (value * (10000 - bps)) \div 10000
             dev == DevValue(value, bps)
  <2>1. split_coinbase_value(value, bps) = Divided(value, dev)
    BY <1>2 DEF split_coinbase_value
  <2>2. distributable_reward(value, bps) = owed
    BY <1>2 DEF distributable_reward, MinersPart
  <2>3. dev \in Nat /\ owed \in Nat /\ dev + owed <= value
    BY DevValueBounds
  <2> HIDE DEF owed, dev
  <2>4. Divided(value, dev).user \in Nat /\ Divided(value, dev).user >= value - dev
    BY <2>3, DividedWhole
  <2> QED
    BY <2>1, <2>2, <2>3, <2>4
<1> QED
  BY <1>1, <1>2

-----------------------------------------------------------------------------
(* The invariant *)

Before == {"idle", "submitted", "query", "select", "check"}

Counters ==
    /\ rows <= Len(shares)
    /\ picked <= rows
    /\ step \in {"idle", "submitted", "query"} => picked = 0 /\ total = 0
    /\ step \in Before => next = 1 /\ allotted = 0
    /\ next >= 1 /\ next <= picked + 1
    /\ step = "split" => total > 0

\* s[j] is the work of the j newest rows of the window.
PartialSums(s) ==
    /\ s \in [0 .. picked -> Nat]
    /\ s[0] = 0 /\ s[picked] = total
    /\ \A j \in 1 .. picked : s[j] = s[j - 1] + Row(j).work
    /\ \A j \in 0 .. picked : s[j] <= total

\* What the rows before next got, between its bounds.
SplitSoFar(s) ==
    /\ allotted * total <= distributable * s[next - 1] + (next - 1) * Noise
    /\ distributable * s[next - 1]
         <= allotted * total + (next - 1) * (total + Noise)

Sums == \E s : PartialSums(s) /\ SplitSoFar(s)

PInv == TypeOK /\ Counters /\ Sums

-----------------------------------------------------------------------------
(* Arithmetic *)

LEMMA UpperStep ==
    ASSUME NEW al \in Nat, NEW t \in Nat, NEW D \in Nat, NEW S \in Nat,
           NEW w \in Nat, NEW n \in Nat, NEW k \in Nat, NEW e \in Nat,
           al * t <= D * S + k * e, n * t <= D * w + e
    PROVE  (al + n) * t <= D * (S + w) + (k + 1) * e
<1>1. (al + n) * t = al * t + n * t
  OBVIOUS
<1>2. D * (S + w) = D * S + D * w
  OBVIOUS
<1>3. (k + 1) * e = k * e + e
  OBVIOUS
<1>4. /\ al * t \in Nat /\ n * t \in Nat /\ D * S \in Nat
      /\ D * w \in Nat /\ k * e \in Nat
  OBVIOUS
<1> QED
  BY <1>1, <1>2, <1>3, <1>4

LEMMA LowerStep ==
    ASSUME NEW al \in Nat, NEW t \in Nat, NEW D \in Nat, NEW S \in Nat,
           NEW w \in Nat, NEW n \in Nat, NEW k \in Nat, NEW e \in Nat,
           D * S <= al * t + k * (t + e), (n + 1) * t > D * w - e
    PROVE  D * (S + w) <= (al + n) * t + (k + 1) * (t + e)
<1>1. (al + n) * t = al * t + n * t
  OBVIOUS
<1>2. D * (S + w) = D * S + D * w
  OBVIOUS
<1>3. (k + 1) * (t + e) = k * (t + e) + t + e
  OBVIOUS
<1>4. (n + 1) * t = n * t + t
  OBVIOUS
<1>5. /\ al * t \in Nat /\ n * t \in Nat /\ D * S \in Nat
      /\ D * w \in Nat /\ k * (t + e) \in Nat
  OBVIOUS
<1> QED
  BY <1>1, <1>2, <1>3, <1>4, <1>5

\* A product with t that exceeds another by less than t belongs to no larger
\* a factor.
LEMMA NoMore ==
    ASSUME NEW x \in Int, NEW y \in Int, NEW t \in Nat, NEW r \in Int,
           x * t <= y * t + r, r < t
    PROVE  x <= y
<1>1. SUFFICES ASSUME x >= y + 1 PROVE FALSE
  OBVIOUS
<1>2. (x - y - 1) * t >= 0
  BY <1>1
<1>3. (x - y - 1) * t = x * t - y * t - t
  OBVIOUS
<1>4. x * t \in Int /\ y * t \in Int
  OBVIOUS
<1> QED
  BY <1>2, <1>3, <1>4

-----------------------------------------------------------------------------
(* Types *)

LEMMA DistributableType ==
    ASSUME NEW r \in Nat
    PROVE  distributable_reward(r, pool_fee_bps(FeePercent)) \in Nat
<1> DEFINE bps == pool_fee_bps(FeePercent)
<1>1. bps \in Nat /\ bps <= 10000
  BY FeeRange, PplnsAssumption
<1>2. r * (10000 - bps) \in Nat
  BY <1>1, Products
<1>3. (r * (10000 - bps)) \div 10000 \in Nat
  BY <1>2
<1> QED
  BY <1>1, <1>3 DEF distributable_reward, MinersPart

LEMMA TargetType ==
    ASSUME NEW d \in Nat
    PROVE  window_work_target(d, Multiplier, Fixed) \in Nat
<1>1. /\ d * Multiplier \in Nat /\ 0 * Multiplier \in Nat
      /\ 1000 * Multiplier \in Nat /\ Fixed * 1000 \in Nat
  BY PplnsAssumption
<1> QED
  BY <1>1 DEF window_work_target, One

LEMMA RowType ==
    ASSUME TypeOK, Counters, NEW i \in 1 .. rows
    PROVE  Row(i) \in [address : Addr, work : Works] /\ Row(i).work \in Nat
<1>1. rows + 1 - i \in 1 .. Len(shares)
  BY DEF TypeOK, Counters
<1>2. Row(i) \in [address : Addr, work : Works]
  <2> DEFINE R == [address : Addr, work : Works]
  <2>1. shares \in Seq(R)
    BY DEF TypeOK
  <2> HIDE DEF R
  <2>2. shares[rows + 1 - i] \in R
    BY <1>1, <2>1
  <2> QED
    BY <2>2 DEF Row, R
<1>3. Row(i).work \in Works
  BY <1>2
<1> QED
  BY <1>2, <1>3, PplnsAssumption

LEMMA InitInv == Init => PInv
<1> SUFFICES ASSUME Init PROVE PInv
  OBVIOUS
<1>1. TypeOK
  BY DEF Init, TypeOK
<1>2. Counters
  BY DEF Init, Counters, Before
<1>3. PartialSums([j \in 0 .. 0 |-> 0])
  BY DEF Init, PartialSums
<1>4. SplitSoFar([j \in 0 .. 0 |-> 0])
  BY PplnsAssumption DEF Init, SplitSoFar
<1> QED
  BY <1>1, <1>2, <1>3, <1>4 DEF PInv, Sums

-----------------------------------------------------------------------------
(* Steps *)

\* A new share changes no row of a result that was already read.
LEMMA AppendKeeps ==
    ASSUME PInv, NEW x \in [address : Addr, work : Works],
           shares' = Append(shares, x),
           UNCHANGED <<distributable, target, rows, picked, total, next,
                       credits, allotted>>,
           found' \in Nat,
           \/ step' = step
           \/ step = "idle" /\ step' = "submitted"
    PROVE  PInv'
<1> USE DEF PInv
<1>1. TypeOK'
  BY DEF TypeOK
<1>2. Len(shares') = Len(shares) + 1 /\ Len(shares) \in Nat
  BY DEF TypeOK
<1>3. Counters'
  BY <1>2 DEF Counters, TypeOK, Before
<1>4. \A j \in 1 .. picked : Row(j)' = Row(j)
  <2> SUFFICES ASSUME NEW j \in 1 .. picked PROVE Row(j)' = Row(j)
    OBVIOUS
  <2>1. rows + 1 - j \in 1 .. Len(shares)
    BY DEF TypeOK, Counters
  <2> QED
    BY <2>1 DEF Row, TypeOK
<1>5. Sums'
  <2>1. PICK s : PartialSums(s) /\ SplitSoFar(s)
    BY DEF Sums
  <2>2. PartialSums(s)'
    BY <1>4, <2>1 DEF PartialSums
  <2>3. SplitSoFar(s)'
    BY <2>1 DEF SplitSoFar
  <2> QED
    BY <2>2, <2>3 DEF Sums
<1> QED
  BY <1>1, <1>3, <1>5

LEMMA SharesInv ==
    ASSUME PInv, NEW a \in Addr, NEW w \in Works,
           RecordShare(a, w) \/ FindBlock(a, w)
    PROVE  PInv'
<1> DEFINE x == [address |-> a, work |-> w]
<1>1. x \in [address : Addr, work : Works]
  OBVIOUS
<1>2. CASE RecordShare(a, w)
  <2>1. shares' = Append(shares, x) /\ found' \in Nat /\ step' = step
    BY <1>2 DEF RecordShare, PInv, TypeOK
  <2> QED
    BY <1>1, <1>2, <2>1, AppendKeeps DEF RecordShare
<1>3. CASE FindBlock(a, w)
  <2>1. /\ shares' = Append(shares, x) /\ found' \in Nat
        /\ step = "idle" /\ step' = "submitted"
    BY <1>3 DEF FindBlock, WinnerFirst, PInv, TypeOK
  <2> QED
    BY <1>1, <1>3, <2>1, AppendKeeps DEF FindBlock
<1> QED
  BY <1>2, <1>3

LEMMA CreditBlockInv ==
    ASSUME PInv, NEW r \in Rewards, NEW d \in Difficulties, CreditBlock(r, d)
    PROVE  PInv'
<1> USE DEF PInv
<1>1. distributable' \in Nat /\ target' \in Nat
  BY DistributableType, TargetType, PplnsAssumption DEF CreditBlock
<1>2. TypeOK'
  BY <1>1 DEF TypeOK, CreditBlock
<1>3. Counters'
  BY DEF Counters, CreditBlock, Before
<1>4. next = 1 /\ allotted = 0 /\ picked = 0 /\ total = 0
  BY DEF CreditBlock, Counters, Before
<1>5. PICK s : PartialSums(s)
  BY DEF Sums
<1>6. PartialSums(s)'
  BY <1>5 DEF PartialSums, CreditBlock, Row
<1>7. SplitSoFar(s)'
  BY <1>1, <1>4, <1>5, PplnsAssumption DEF SplitSoFar, PartialSums, CreditBlock
<1> QED
  BY <1>2, <1>3, <1>6, <1>7 DEF Sums

LEMMA QueryInv == ASSUME PInv, Query PROVE PInv'
<1> USE DEF PInv, Query
<1>1. TypeOK'
  BY DEF TypeOK
<1>2. Counters'
  BY DEF Counters, TypeOK, Before
<1>3. picked = 0
  BY DEF Counters
<1>4. PICK s : PartialSums(s) /\ SplitSoFar(s)
  BY DEF Sums
<1>5. PartialSums(s)'
  BY <1>3, <1>4 DEF PartialSums
<1>6. SplitSoFar(s)'
  BY <1>4 DEF SplitSoFar
<1> QED
  BY <1>1, <1>2, <1>5, <1>6 DEF Sums

LEMMA SelectInv == ASSUME PInv, Select PROVE PInv'
<1> USE DEF PInv
<1> DEFINE w == Row(picked + 1).work
<1>1. picked \in Nat /\ rows \in Nat /\ picked < rows /\ total \in Nat
  BY DEF TypeOK, Select
<1>2. w \in Nat
  BY <1>1, RowType
<1>3. picked' = picked + 1 /\ total' = total + w
  BY DEF Select
<1>4. TypeOK'
  BY <1>1, <1>2, <1>3 DEF TypeOK, Select
<1>5. step = "select" /\ step' \in {"select", "check"}
  BY DEF Select
<1>6. Counters'
  BY <1>1, <1>3, <1>5 DEF Counters, Before, Select, TypeOK
<1>7. PICK s : PartialSums(s)
  BY DEF Sums
<1>8. PICK s1 : s1 = [j \in 0 .. picked + 1 |-> IF j <= picked THEN s[j] ELSE total + w]
  OBVIOUS
<1>9. \A j : Row(j)' = Row(j)
  BY DEF Row, Select
<1>10. PartialSums(s1)'
  <2>1. s1 \in [0 .. picked' -> Nat]
    BY <1>1, <1>2, <1>3, <1>7, <1>8 DEF PartialSums
  <2>2. s1[0] = 0 /\ s1[picked'] = total'
    BY <1>1, <1>3, <1>7, <1>8 DEF PartialSums
  <2>3. \A j \in 1 .. picked' : s1[j] = s1[j - 1] + Row(j)'.work
    BY <1>1, <1>3, <1>7, <1>8, <1>9 DEF PartialSums
  <2>4. \A j \in 0 .. picked' : s1[j] <= total'
    BY <1>1, <1>2, <1>3, <1>7, <1>8 DEF PartialSums
  <2> QED
    BY <2>1, <2>2, <2>3, <2>4 DEF PartialSums
<1>11. SplitSoFar(s1)'
  <2>1. next' = 1 /\ allotted' = 0
    BY <1>5 DEF Counters, Before, Select
  <2>2. s1[0] = 0
    BY <1>1, <1>7, <1>8 DEF PartialSums
  <2>3. distributable' \in Nat /\ total' \in Nat
    BY <1>4 DEF TypeOK
  <2> QED
    BY <2>1, <2>2, <2>3, PplnsAssumption DEF SplitSoFar
<1> QED
  BY <1>4, <1>6, <1>10, <1>11 DEF Sums

\* Steps that leave the table, the window and the amounts alone.
LEMMA StepOnly ==
    ASSUME PInv, TypeOK', Counters',
           UNCHANGED <<shares, distributable, rows, picked, total, next, allotted>>
    PROVE  PInv'
<1>1. PICK s : PartialSums(s) /\ SplitSoFar(s)
  BY DEF PInv, Sums
<1>2. PartialSums(s)'
  BY <1>1 DEF PartialSums, Row
<1>3. SplitSoFar(s)'
  BY <1>1 DEF SplitSoFar
<1> QED
  BY <1>2, <1>3 DEF PInv, Sums

LEMMA CheckInv == ASSUME PInv, Check PROVE PInv'
<1>1. TypeOK'
  BY DEF TypeOK, Check, PInv
<1>2. Counters'
  BY DEF Counters, Check, PInv, Before, TypeOK
<1> QED
  BY <1>1, <1>2, StepOnly DEF Check

LEMMA FinishInv == ASSUME PInv, Finish PROVE PInv'
<1>1. TypeOK'
  BY DEF TypeOK, Finish, PInv
<1>2. Counters'
  BY DEF Counters, Finish, PInv, Before, TypeOK
<1> QED
  BY <1>1, <1>2, StepOnly DEF Finish

LEMMA SplitInv == ASSUME PInv, Split PROVE PInv'
<1> USE DEF PInv
<1> DEFINE w == Row(next).work
<1>1. /\ next \in Nat /\ next >= 1 /\ next <= picked /\ picked \in Nat
      /\ picked <= rows /\ total \in Nat /\ rows \in Nat
      /\ distributable \in Nat /\ allotted \in Nat /\ Noise \in Nat
  BY PplnsAssumption DEF TypeOK, Counters, Split
<1>2. w \in Nat /\ Row(next).address \in Addr
  BY <1>1, RowType
<1>3. PICK n \in Amounts(w) :
          IF IsNothing(n) THEN UNCHANGED <<credits, allotted>>
          ELSE /\ credits' = [credits EXCEPT ![Row(next).address] = Sum(@, n)]
               /\ allotted' = allotted + n
  BY DEF Split
<1>4. /\ n \in Nat /\ n * total <= distributable * w + Noise
      /\ (n + 1) * total > distributable * w - Noise
  BY <1>3 DEF Amounts
<1>5. allotted' = allotted + n
  BY <1>1, <1>3, <1>4 DEF IsNothing
<1>6. credits' \in [Addr -> Nat]
  BY <1>2, <1>3, <1>4 DEF TypeOK, Sum
<1>7. /\ next' = next + 1
      /\ UNCHANGED <<shares, step, found, distributable, target, rows, picked, total>>
  BY DEF Split
<1>8. TypeOK'
  BY <1>1, <1>4, <1>5, <1>6, <1>7 DEF TypeOK
<1>9. Counters'
  BY <1>1, <1>7 DEF Counters, Before, Split
<1>10. PICK s : PartialSums(s) /\ SplitSoFar(s)
  BY DEF Sums
<1>11. PartialSums(s)'
  BY <1>7, <1>10 DEF PartialSums, Row
<1>12. /\ s[next - 1] \in Nat /\ next - 1 \in Nat
       /\ s[next] = s[next - 1] + w
  BY <1>1, <1>10 DEF PartialSums
<1>13. (allotted + n) * total
          <= distributable * (s[next - 1] + w) + (next - 1 + 1) * Noise
  BY <1>1, <1>2, <1>4, <1>10, <1>12, UpperStep DEF SplitSoFar
<1>14. distributable * (s[next - 1] + w)
          <= (allotted + n) * total + (next - 1 + 1) * (total + Noise)
  BY <1>1, <1>2, <1>4, <1>10, <1>12, LowerStep DEF SplitSoFar
<1>15. next - 1 + 1 = next /\ next' - 1 = next
  BY <1>1, <1>7
<1>16. SplitSoFar(s)'
  BY <1>5, <1>7, <1>12, <1>13, <1>14, <1>15 DEF SplitSoFar
<1> QED
  BY <1>8, <1>9, <1>11, <1>16 DEF Sums

LEMMA NextInv == ASSUME PInv, [Next]_vars PROVE PInv'
<1>1. CASE Next
  BY <1>1, SharesInv, CreditBlockInv, QueryInv, SelectInv, CheckInv, SplitInv,
     FinishInv DEF Next
<1>2. CASE UNCHANGED vars
  <2>1. TypeOK' /\ Counters'
    BY <1>2 DEF PInv, TypeOK, Counters, vars
  <2> QED
    BY <1>2, <2>1, StepOnly DEF vars
<1> QED
  BY <1>1, <1>2

LEMMA Inductive == Spec => []PInv
<1> QED
  BY InitInv, NextInv, PTL DEF Spec

-----------------------------------------------------------------------------
(* Theorems *)

\* Counters, works and amounts keep their types (pplns.py:60-86).
THEOREM TypesKept == Spec => []TypeOK
<1>1. PInv => TypeOK
  BY DEF PInv
<1> QED
  BY <1>1, Inductive, PTL

\* However many shares are in the window, and however the rewards and the
\* works are rounded, the credits stay within the distributable reward as
\* long as the rounding errors together are less than a unit
\* (pplns.py:73-79).
THEOREM NeverOverAllocated == Spec => []NoOverAllocation
<1>1. ASSUME PInv, picked * Noise < total PROVE allotted <= distributable
  <2>1. PICK s : PartialSums(s) /\ SplitSoFar(s)
    BY <1>1 DEF PInv, Sums
  <2>2. /\ next \in Nat /\ next >= 1 /\ next <= picked + 1 /\ picked \in Nat
        /\ total \in Nat /\ distributable \in Nat /\ allotted \in Nat
        /\ Noise \in Nat
    BY <1>1, PplnsAssumption DEF PInv, TypeOK, Counters
  <2>3. s[next - 1] \in Nat /\ s[next - 1] <= total
    BY <2>1, <2>2 DEF PartialSums
  <2>4. distributable * s[next - 1] <= distributable * total
    BY <2>2, <2>3
  <2>5. (next - 1) * Noise <= picked * Noise
    BY <2>2
  <2>6. /\ distributable * s[next - 1] \in Int /\ distributable * total \in Int
        /\ (next - 1) * Noise \in Int /\ picked * Noise \in Int
        /\ allotted * total \in Int
    BY <2>2, <2>3
  <2>7. allotted * total <= distributable * total + picked * Noise
    BY <2>1, <2>4, <2>5, <2>6 DEF SplitSoFar
  <2> QED
    BY <1>1, <2>2, <2>6, <2>7, NoMore
<1>2. PInv => NoOverAllocation
  BY <1>1 DEF NoOverAllocation
<1> QED
  BY <1>2, Inductive, PTL

\* What is left to nobody is at most one unit per share of the window
\* (pplns.py:76-78).
THEOREM LittleIsLost == Spec => []DustBound
<1>1. ASSUME PInv, next > picked, picked * Noise < total
      PROVE  distributable - allotted <= picked
  <2>1. PICK s : PartialSums(s) /\ SplitSoFar(s)
    BY <1>1 DEF PInv, Sums
  <2>2. /\ picked \in Nat /\ total \in Nat /\ distributable \in Nat
        /\ allotted \in Nat /\ Noise \in Nat /\ next - 1 = picked
    BY <1>1, PplnsAssumption DEF PInv, TypeOK, Counters
  <2>3. distributable * total <= allotted * total + picked * (total + Noise)
    BY <2>1, <2>2 DEF PartialSums, SplitSoFar
  <2>4. picked * (total + Noise) = picked * total + picked * Noise
    BY <2>2
  <2>5. (allotted + picked) * total = allotted * total + picked * total
    BY <2>2
  <2>6. /\ allotted * total \in Int /\ picked * total \in Int
        /\ picked * Noise \in Int /\ distributable * total \in Int
    BY <2>2
  <2>7. distributable * total <= (allotted + picked) * total + picked * Noise
    BY <2>3, <2>4, <2>5, <2>6
  <2>8. distributable <= allotted + picked
    BY <1>1, <2>2, <2>6, <2>7, NoMore
  <2> QED
    BY <2>2, <2>8
<1>2. PInv => DustBound
  BY <1>1 DEF DustBound
<1> QED
  BY <1>2, Inductive, PTL

-----------------------------------------------------------------------------
(* The window *)

\* The works of the rows of the result.
WorkRow == [i \in 1 .. rows |-> Row(i).work]

\* The window ends with the row that fills it: before that row is taken the
\* work is below the target.
WindowInv ==
    /\ total = WorkOf(1 .. picked)
    /\ picked > 0 => WorkOf(1 .. picked - 1) < target
    /\ step = "query" => target > 0
    /\ step = "select" => total < target
    /\ step = "check" => total >= target
    /\ step \in {"split", "credited"} => picked > 0 /\ (total >= target \/ picked = rows)
    /\ step \in {"submitted", "query"} => found \in 1 .. Len(shares)
    /\ step \in {"select", "check", "split", "credited"} => found \in 1 .. rows

\* The works of the rows are summed in any order.
LEMMA WorkSums ==
  ASSUME TypeOK, Counters
  PROVE  /\ \A R \in SUBSET (1 .. rows) :
               IsFiniteSet(R) /\ WorkOf(R) \in Nat /\ WorkOf(R) = SumFunctionOnSet(WorkRow, R)
         /\ WorkOf({}) = 0
         /\ \A R \in SUBSET (1 .. rows) : \A i \in (1 .. rows) \ R :
               WorkOf(R \cup {i}) = Row(i).work + WorkOf(R)
<1>1. IsFiniteSet(1 .. rows)
  BY FS_Interval DEF TypeOK
<1>2. \A i \in 1 .. rows : WorkRow[i] \in Nat /\ WorkRow[i] = Row(i).work
  BY RowType DEF WorkRow
<1>3. \A R : WorkOf(R) = SumFunctionOnSet(WorkRow, R)
  BY DEF WorkOf, WorkRow
<1>4. \A R \in SUBSET (1 .. rows) : IsFiniteSet(R)
  BY <1>1, FS_Subset
<1>5. ASSUME NEW R \in SUBSET (1 .. rows)
      PROVE  SumFunctionOnSet(WorkRow, R) \in Nat
  <2>1. IsFiniteSet(R) /\ \A i \in R : WorkRow[i] \in Nat
    BY <1>2, <1>4
  <2> QED
    BY <2>1, SumNat
<1>6. ASSUME NEW R \in SUBSET (1 .. rows), NEW i \in (1 .. rows) \ R
      PROVE  WorkOf(R \cup {i}) = Row(i).work + WorkOf(R)
  <2>1. IsFiniteSet(R) /\ \A j \in R \cup {i} : WorkRow[j] \in Int
    BY <1>2, <1>4
  <2>2. SumFunctionOnSet(WorkRow, R \cup {i}) = WorkRow[i] + SumFunctionOnSet(WorkRow, R)
    BY <2>1, SumAdd
  <2> QED
    BY <1>2, <1>3, <2>2
<1>7. WorkOf({}) = 0
  BY <1>3, SumEmpty
<1> QED
  BY <1>3, <1>4, <1>5, <1>6, <1>7

\* Once the query has returned, its rows stay what they were.
LEMMA RowsStay ==
  ASSUME PInv, [Next]_vars, ~Query
  PROVE  /\ rows' = rows
         /\ \A i \in 1 .. rows : Row(i)' = Row(i)
         /\ \A R : WorkOf(R)' = WorkOf(R)
<1>1. rows' = rows
  BY DEF Next, vars, RecordShare, FindBlock, CreditBlock, Select, Check, Split, Finish
<1>2. \/ shares' = shares
      \/ \E x \in [address : Addr, work : Works] : shares' = Append(shares, x)
  BY DEF Next, vars, RecordShare, FindBlock, WinnerFirst, CreditBlock, Select,
     Check, Split, Finish
<1>3. ASSUME NEW i \in 1 .. rows
      PROVE  Row(i)' = Row(i)
  <2>1. rows + 1 - i \in 1 .. Len(shares)
    BY DEF PInv, TypeOK, Counters
  <2> DEFINE R == [address : Addr, work : Works]
  <2>2. shares \in Seq(R) /\ (shares' = shares \/ \E x \in R : shares' = Append(shares, x))
    BY <1>2 DEF PInv, TypeOK
  <2> HIDE DEF R
  <2>3. shares'[rows + 1 - i] = shares[rows + 1 - i]
    BY <2>1, <2>2
  <2> QED
    BY <1>1, <2>3 DEF Row
<1>4. WorkRow' = WorkRow
  BY <1>1, <1>3 DEF WorkRow
<1> QED
  BY <1>1, <1>3, <1>4 DEF WorkOf, WorkRow

LEMMA WindowInductive ==
  ASSUME PInv, WindowInv, [Next]_vars
  PROVE  WindowInv'
<1> USE DEF WindowInv
<1>0. /\ picked \in Nat /\ rows \in Nat /\ picked <= rows /\ total \in Nat
      /\ found \in Nat /\ Len(shares) \in Nat /\ target \in Nat
  BY DEF PInv, TypeOK, Counters
<1>1. CASE Query
  <2>1. picked = 0 /\ total = 0 /\ 1 .. 0 = {}
    BY <1>1 DEF Query, PInv, Counters
  <2>2. WorkOf({})' = 0
    BY SumEmpty DEF WorkOf
  <2> QED
    BY <1>0, <1>1, <2>1, <2>2 DEF Query
<1>2. CASE Select
  <2>1. /\ picked < rows /\ picked' = picked + 1 /\ step = "select"
        /\ total' = total + Row(picked + 1).work
        /\ step' = IF total' >= target THEN "check" ELSE "select"
        /\ UNCHANGED <<shares, found, target, rows>>
    BY <1>2 DEF Select, IsFull
  <2>2. /\ picked + 1 \in (1 .. rows) \ (1 .. picked)
        /\ 1 .. picked \in SUBSET (1 .. rows)
        /\ 1 .. picked + 1 = (1 .. picked) \cup {picked + 1}
    BY <1>0, <2>1
  <2>3. WorkOf(1 .. picked + 1) = Row(picked + 1).work + WorkOf(1 .. picked)
    <3>1. WorkOf((1 .. picked) \cup {picked + 1}) = Row(picked + 1).work + WorkOf(1 .. picked)
      BY <2>2, WorkSums DEF PInv
    <3> QED
      BY <2>2, <3>1
  <2>4. Row(picked + 1).work \in Nat
    BY <1>0, <2>1, RowType DEF PInv
  <2>5. picked' - 1 = picked
    BY <1>0, <2>1
  <2>6. total' = WorkOf(1 .. picked)'
    <3>1. WorkOf(1 .. picked)' = WorkOf(1 .. picked + 1)
      BY <2>1 DEF WorkOf, Row
    <3> QED
      BY <1>0, <2>1, <2>3, <2>4, <3>1
  <2>7. WorkOf(1 .. picked - 1)' < target'
    <3>1. WorkOf(1 .. picked - 1)' = WorkOf(1 .. picked)
      BY <2>1, <2>5 DEF WorkOf, Row
    <3> QED
      BY <2>1, <3>1
  <2>8. total' \in Nat
    BY <1>0, <2>1, <2>4
  <2> QED
    BY <1>0, <2>1, <2>6, <2>7, <2>8
<1>3. CASE ~Query /\ ~Select
  <2>1. \A R : WorkOf(R)' = WorkOf(R)
    BY <1>3, RowsStay
  <2>2. UNCHANGED <<picked, total, rows>>
    BY <1>3 DEF Next, vars, RecordShare, FindBlock, CreditBlock, Check, Split, Finish
  <2>3. CASE \E a \in Addr, w \in Works : RecordShare(a, w) \/ FindBlock(a, w)
    <3>1. Len(shares') = Len(shares) + 1
      BY <2>3 DEF RecordShare, FindBlock, WinnerFirst, PInv, TypeOK
    <3>2. target' = target
      BY <2>3 DEF RecordShare, FindBlock
    <3>3. \/ step' = step /\ found' = found
          \/ step' = "submitted" /\ found' = Len(shares) + 1
      BY <2>3 DEF RecordShare, FindBlock
    <3> QED
      BY <1>0, <2>1, <2>2, <3>1, <3>2, <3>3
  <2>4. CASE \E r \in Rewards, d \in Difficulties : CreditBlock(r, d)
    <3>1. picked = 0 /\ step = "submitted" /\ shares' = shares /\ found' = found
      BY <2>4 DEF CreditBlock, PInv, Counters
    <3>2. step' = "none" \/ (step' = "query" /\ target' > 0)
      <4>1. PICK r \in Rewards, d \in Difficulties : CreditBlock(r, d)
        BY <2>4
      <4>2. d \in Nat
        BY PplnsAssumption
      <4>3. target' \in Nat
        BY <4>1, <4>2, TargetType DEF CreditBlock
      <4> QED
        BY <4>1, <4>3 DEF CreditBlock
    <3> QED
      BY <1>0, <2>1, <2>2, <3>1, <3>2
  <2>5. CASE Check
    <3>1. /\ step \in {"select", "check"} /\ step' \in {"none", "split"}
          /\ step' = "split" => picked > 0
          /\ step = "select" => picked = rows
          /\ UNCHANGED <<shares, found, target>>
      BY <1>0, <2>5 DEF Check
    <3> QED
      BY <1>0, <2>1, <2>2, <3>1
  <2>6. CASE Split \/ Finish \/ UNCHANGED vars
    <3>1. /\ UNCHANGED <<shares, found, target>>
          /\ \/ step' = step
             \/ step = "split" /\ step' \in {"none", "credited"}
      BY <2>6 DEF Split, Finish, vars
    <3> QED
      BY <1>0, <2>1, <2>2, <3>1
  <2> QED
    BY <1>3, <2>3, <2>4, <2>5, <2>6 DEF Next
<1> QED
  BY <1>1, <1>2, <1>3

LEMMA InitWindow == Init => WindowInv
<1> SUFFICES ASSUME Init PROVE WindowInv
  OBVIOUS
<1>1. 1 .. picked = {} /\ picked = 0 /\ total = 0 /\ step = "idle"
  BY DEF Init
<1>2. WorkOf({}) = 0
  BY SumEmpty DEF WorkOf
<1> QED
  BY <1>1, <1>2 DEF WindowInv

\* The window is the newest shares down to the one that fills it, or all there
\* are, although shares are recorded while it is taken; the share that found
\* the block is among those it is taken from (pplns.py:60-72, server.py's
\* _on_submit records before it submits).
THEOREM WindowMinimal == Spec => []WindowIsMinimal
<1>1. PInv /\ WindowInv => WindowIsMinimal
  BY DEF WindowInv, WindowIsMinimal
<1>2. PInv /\ WindowInv /\ [Next]_vars => WindowInv'
  BY WindowInductive
<1> QED
  BY <1>1, <1>2, InitWindow, InitInv, NextInv, PTL DEF Spec

-----------------------------------------------------------------------------
(* The miners *)

\* The rows of an address that were already credited.
Done(a) == {i \in 1 .. next - 1 : Row(i).address = a}

\* What an address got lies between the bounds for the rows it was credited for.
FairSoFar(a) ==
    LET n == Cardinality(Done(a))
        part == distributable * WorkOf(Done(a))
    IN  /\ credits[a] * total <= part + n * Noise
        /\ part <= credits[a] * total + n * (total + Noise)

FairInv ==
    /\ step \in Before => \A a \in Addr : credits[a] = 0
    /\ step = "credited" => next > picked
    /\ \A a \in Addr : FairSoFar(a)

\* No row is credited before the window is known.
LEMMA NothingDone ==
  ASSUME TypeOK, Counters, next = 1, NEW a
  PROVE  Done(a) = {} /\ Cardinality(Done(a)) = 0 /\ WorkOf(Done(a)) = 0
<1>1. Done(a) = {}
  BY DEF Done
<1> QED
  BY <1>1, WorkSums, FS_EmptySet

LEMMA DoneType ==
  ASSUME TypeOK, Counters, NEW a
  PROVE  /\ Done(a) \in SUBSET (1 .. rows)
         /\ IsFiniteSet(Done(a)) /\ Cardinality(Done(a)) \in Nat
         /\ WorkOf(Done(a)) \in Nat
<1>1. Done(a) \in SUBSET (1 .. rows)
  BY DEF Done, TypeOK, Counters
<1> QED
  BY <1>1, WorkSums, FS_CardinalityType

LEMMA InitFair == Init => FairInv
<1> SUFFICES ASSUME Init PROVE FairInv
  OBVIOUS
<1>1. TypeOK /\ Counters
  BY InitInv DEF PInv
<1>2. next = 1 /\ total = 0 /\ distributable = 0 /\ step = "idle"
      /\ \A a \in Addr : credits[a] = 0
  BY DEF Init
<1>3. ASSUME NEW a \in Addr PROVE FairSoFar(a)
  BY <1>1, <1>2, <1>3, NothingDone, PplnsAssumption DEF FairSoFar
<1> QED
  BY <1>2, <1>3 DEF FairInv

\* The row that is credited adds to its address, within the same bounds.
LEMMA FairSplit ==
  ASSUME PInv, FairInv, Split, NEW a \in Addr
  PROVE  FairSoFar(a)'
<1> DEFINE w == Row(next).work
           k == Cardinality(Done(a))
           S == WorkOf(Done(a))
<1>1. /\ next \in Nat /\ next >= 1 /\ next <= picked /\ picked \in Nat
      /\ picked <= rows /\ total \in Nat /\ rows \in Nat
      /\ distributable \in Nat /\ Noise \in Nat /\ credits \in [Addr -> Nat]
  BY PplnsAssumption DEF PInv, TypeOK, Counters, Split
<1>2. w \in Nat /\ Row(next).address \in Addr
  BY <1>1, RowType DEF PInv
<1>3. /\ Done(a) \in SUBSET (1 .. rows) /\ IsFiniteSet(Done(a))
      /\ k \in Nat /\ S \in Nat
  BY DoneType DEF PInv
<1>4. PICK n \in Amounts(w) :
          IF IsNothing(n) THEN UNCHANGED <<credits, allotted>>
          ELSE /\ credits' = [credits EXCEPT ![Row(next).address] = Sum(@, n)]
               /\ allotted' = allotted + n
  BY DEF Split
<1>5. /\ n \in Nat /\ n * total <= distributable * w + Noise
      /\ (n + 1) * total > distributable * w - Noise
  BY <1>4 DEF Amounts
<1>6. credits' = [credits EXCEPT ![Row(next).address] = @ + n]
  BY <1>1, <1>2, <1>4, <1>5 DEF IsNothing, Sum
<1>7. /\ next' = next + 1 /\ next' - 1 = next
      /\ UNCHANGED <<shares, distributable, rows, total>>
  BY <1>1 DEF Split
<1>8. FairSoFar(a)
  BY DEF FairInv
<1>9. CASE Row(next).address = a
  <2>1. Done(a)' = Done(a) \cup {next}
    BY <1>1, <1>7, <1>9 DEF Done, Row
  <2>2. next \in (1 .. rows) \ Done(a)
    BY <1>1 DEF Done
  <2>3. Cardinality(Done(a))' = k + 1
    BY <1>3, <2>1, <2>2, FS_AddElement
  <2>4. WorkOf(Done(a))' = WorkOf(Done(a) \cup {next})
    BY <1>7, <2>1 DEF WorkOf, Row
  <2>5. WorkOf(Done(a) \cup {next}) = w + S
    BY <1>3, <2>2, WorkSums DEF PInv
  <2>6. WorkOf(Done(a))' = S + w
    BY <1>2, <1>3, <2>4, <2>5
  <2>7. credits'[a] = credits[a] + n /\ credits[a] \in Nat
    BY <1>1, <1>6, <1>9
  <2>8. /\ credits[a] * total <= distributable * S + k * Noise
        /\ distributable * S <= credits[a] * total + k * (total + Noise)
    BY <1>8 DEF FairSoFar
  <2> HIDE DEF w, k, S
  <2>9. (credits[a] + n) * total <= distributable * (S + w) + (k + 1) * Noise
    BY <1>1, <1>2, <1>3, <1>5, <2>7, <2>8, UpperStep
  <2>10. distributable * (S + w) <= (credits[a] + n) * total + (k + 1) * (total + Noise)
    BY <1>1, <1>2, <1>3, <1>5, <2>7, <2>8, LowerStep
  <2> QED
    BY <1>7, <2>3, <2>6, <2>7, <2>9, <2>10 DEF FairSoFar
<1>10. CASE Row(next).address # a
  <2>1. Done(a)' = Done(a)
    BY <1>1, <1>7, <1>10 DEF Done, Row
  <2>2. WorkOf(Done(a))' = WorkOf(Done(a))
    BY <1>7, <2>1 DEF WorkOf, Row
  <2>3. credits'[a] = credits[a]
    BY <1>1, <1>6, <1>10
  <2> QED
    BY <1>7, <1>8, <2>1, <2>2, <2>3 DEF FairSoFar
<1> QED
  BY <1>9, <1>10

\* Steps of the thread and of the sessions that credit nobody.
LEMMA FairStays ==
  ASSUME PInv, FairInv, [Next]_vars, ~Query,
         UNCHANGED <<distributable, total, next, credits>>, NEW a \in Addr
  PROVE  FairSoFar(a)'
<1>1. /\ \A i \in 1 .. rows : Row(i)' = Row(i)
      /\ \A R : WorkOf(R)' = WorkOf(R)
  BY RowsStay
<1>2. Done(a)' = Done(a)
  BY <1>1 DEF Done, PInv, TypeOK, Counters
<1>3. FairSoFar(a)
  BY DEF FairInv
<1> QED
  BY <1>1, <1>2, <1>3 DEF FairSoFar

LEMMA FairInductive ==
  ASSUME PInv, FairInv, [Next]_vars
  PROVE  FairInv'
<1>1. PInv'
  BY NextInv
<1>2. CASE Query \/ Select \/ \E r \in Rewards, d \in Difficulties : CreditBlock(r, d)
  <2>1. step \in Before /\ step' \in Before \cup {"none"}
    BY <1>2 DEF Query, Select, CreditBlock, Before
  <2>2. next' = 1 /\ credits' = credits
    BY <1>2, <2>1 DEF Query, Select, CreditBlock, PInv, Counters
  <2>3. \A a \in Addr : credits'[a] = 0
    BY <2>1, <2>2 DEF FairInv
  <2>4. ASSUME NEW a \in Addr PROVE FairSoFar(a)'
    <3>1. /\ Cardinality(Done(a))' = 0 /\ WorkOf(Done(a))' = 0
      <4>1. Done(a)' = {}
        BY <2>2 DEF Done
      <4>2. WorkOf({})' = 0
        BY SumEmpty DEF WorkOf
      <4>3. WorkOf(Done(a))' = WorkOf({})'
        BY <4>1 DEF WorkOf
      <4> QED
        BY <4>1, <4>2, <4>3, FS_EmptySet
    <3>2. distributable' \in Nat /\ total' \in Nat /\ Noise \in Nat
      BY <1>1, PplnsAssumption DEF PInv, TypeOK
    <3> QED
      BY <2>3, <3>1, <3>2 DEF FairSoFar
  <2> QED
    BY <2>1, <2>3, <2>4 DEF FairInv, Before
<1>3. CASE Split
  <2>1. step = "split" /\ step' = step
    BY <1>3 DEF Split
  <2> QED
    BY <1>3, <2>1, FairSplit DEF FairInv, Before
<1>4. CASE \/ \E a \in Addr, w \in Works : RecordShare(a, w) \/ FindBlock(a, w)
           \/ Check \/ Finish \/ UNCHANGED vars
  <2>1. UNCHANGED <<picked, distributable, total, next, credits>>
    BY <1>4 DEF RecordShare, FindBlock, Check, Finish, vars
  <2>2. ~Query
    BY <1>4 DEF Query, RecordShare, FindBlock, WinnerFirst, Check, Finish, vars
  <2>3. ASSUME NEW a \in Addr PROVE FairSoFar(a)'
    BY <2>1, <2>2, FairStays
  <2>4. /\ step' \in Before => step \in Before
        /\ step' = "credited" => next > picked
    BY <1>4 DEF RecordShare, FindBlock, Check, Finish, vars, Before, FairInv
  <2> QED
    BY <2>1, <2>3, <2>4 DEF FairInv
<1> QED
  BY <1>2, <1>3, <1>4 DEF Next

\* An address has its part of the window's work, less at most one unit per
\* share of its own, however many shares the window has and however the works
\* and the quotients are rounded (pplns.py:73-86, README.md:114).
THEOREM SharesAreFair == Spec => []FairShare
<1>1. ASSUME PInv, FairInv, step = "credited", NEW a \in Addr
      PROVE  LET n == Cardinality(RowsOf(a))
                 part == distributable * WorkOf(RowsOf(a))
             IN  /\ credits[a] * total <= part + n * Noise
                 /\ (credits[a] + n) * total + n * Noise >= part
  <2>1. Done(a) = RowsOf(a)
    BY <1>1 DEF Done, RowsOf, FairInv, PInv, TypeOK, Counters
  <2> DEFINE n == Cardinality(RowsOf(a))
             part == distributable * WorkOf(RowsOf(a))
  <2>2. n \in Nat /\ WorkOf(RowsOf(a)) \in Nat
    BY <1>1, <2>1, DoneType DEF PInv
  <2>3. /\ total \in Nat /\ distributable \in Nat /\ credits[a] \in Nat
        /\ Noise \in Nat
    BY <1>1, PplnsAssumption DEF PInv, TypeOK
  <2>4. /\ credits[a] * total <= part + n * Noise
        /\ part <= credits[a] * total + n * (total + Noise)
    BY <1>1, <2>1 DEF FairInv, FairSoFar
  <2>5. part \in Nat
    BY <2>2, <2>3
  <2> HIDE DEF n, part
  <2>6. credits[a] * total + n * (total + Noise) = (credits[a] + n) * total + n * Noise
    BY <2>2, <2>3
  <2>7. (credits[a] + n) * total + n * Noise >= part
    BY <2>2, <2>3, <2>4, <2>5, <2>6
  <2> QED
    BY <2>4, <2>7 DEF n, part
<1>2. PInv /\ FairInv => FairShare
  BY <1>1 DEF FairShare
<1>3. PInv /\ FairInv /\ [Next]_vars => FairInv'
  BY FairInductive
<1> QED
  BY <1>2, <1>3, InitFair, InitInv, NextInv, PTL DEF Spec

=============================================================================
