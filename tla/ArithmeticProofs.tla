--------------------------- MODULE ArithmeticProofs ---------------------------
(***************************************************************************)
(* What the functions of Fees, Encoding and Targets compute, for every     *)
(* input: the share targets of difficulty.py for every difficulty and      *)
(* every network target, the comparison of digests digit by digit, and the *)
(* variable-length integers of block_builder.py, written and read back.    *)
(* Then what the inputs of MCArithmetic are checked for, for any bounds.   *)
(* Then the coinbase: its layout, found again by the parser, before and    *)
(* after the commitment is put in place; and the merkle root, which tells  *)
(* apart what it is computed from, down to the fields of a template.       *)
(***************************************************************************)
EXTENDS MCArithmetic, PplnsProofs, SequenceTheorems

LEMMA Product ==
  ASSUME NEW a \in Nat, NEW b \in Nat
  PROVE  a * b \in Nat /\ (a > 0 /\ b > 0 => a * b > 0)
  OBVIOUS

LEMMA Quotient ==
  ASSUME NEW a \in Nat, NEW d \in Nat, d > 0
  PROVE  a \div d \in Nat /\ d * (a \div d) <= a /\ a < d * ((a \div d) + 1)
  OBVIOUS

\* A larger divisor has a smaller quotient.
LEMMA Antitone ==
  ASSUME NEW a \in Nat, NEW d \in Nat, NEW e \in Nat, 0 < d, d <= e
  PROVE  a \div e <= a \div d
<1> DEFINE p == a \div d
           q == a \div e
<1>1. p \in Nat /\ a < d * (p + 1) /\ q \in Nat /\ e * q <= a
  BY Quotient
<1> HIDE DEF p, q
<1>2. SUFFICES ASSUME p + 1 <= q PROVE FALSE
  BY <1>1 DEF p, q
<1>3. d * (p + 1) <= d * q /\ d * q <= e * q
  BY <1>1, <1>2
<1> QED
  BY <1>1, <1>3

LEMMA ConstantsTyped ==
  /\ MAX_TARGET \in Nat /\ DIFF1_TARGET \in Nat /\ REFERENCE_SHARE_TARGET \in Nat
  /\ 0 < DIFF1_TARGET /\ DIFF1_TARGET <= MAX_TARGET
  BY TargetsAssumption

LEMMA UsableDifficulty ==
  ASSUME NEW difficulty \in Int
  PROVE  Usable(difficulty) \in Nat /\ Usable(difficulty) > 0
  BY DEF Usable, REFERENCE_POOL_DIFFICULTY

LEMMA ScaledType ==
  ASSUME NEW d \in Nat, d > 0, NEW goal \in Nat, goal > 0
  PROVE  Scaled(d, goal) \in Nat
<1> DEFINE a == goal * REFERENCE_SHARE_TARGET * REFERENCE_POOL_DIFFICULTY
           b == d * goal
<1>1. a \in Nat
  BY ConstantsTyped, Product DEF REFERENCE_POOL_DIFFICULTY
<1>2. b \in Nat /\ b > 0
  BY Product
<1> HIDE DEF a, b
<1>3. a \div b \in Nat
  BY <1>1, <1>2, Quotient
<1> QED
  BY <1>3 DEF Scaled, a, b

LEMMA ScaledAntitone ==
  ASSUME NEW d \in Nat, NEW e \in Nat, 0 < d, d <= e, NEW goal \in Nat, goal > 0
  PROVE  Scaled(e, goal) <= Scaled(d, goal)
<1> DEFINE a == goal * REFERENCE_SHARE_TARGET * REFERENCE_POOL_DIFFICULTY
<1>1. a \in Nat
  BY ConstantsTyped, Product DEF REFERENCE_POOL_DIFFICULTY
<1>2. d * goal \in Nat /\ e * goal \in Nat /\ 0 < d * goal
  BY Product
<1>3. d * goal <= e * goal
  OBVIOUS
<1> HIDE DEF a
<1>4. a \div (e * goal) <= a \div (d * goal)
  BY <1>1, <1>2, <1>3, Antitone
<1> QED
  BY <1>4 DEF Scaled, a

LEMMA BlockTargetType ==
  ASSUME NEW network \in Int, network <= MAX_TARGET
  PROVE  /\ BlockTarget(network) \in Nat /\ BlockTarget(network) > 0
         /\ network <= BlockTarget(network) /\ BlockTarget(network) <= MAX_TARGET
  BY ConstantsTyped DEF BlockTarget

LEMMA LimitedMonotone ==
  ASSUME NEW p \in Nat, NEW q \in Nat, p <= q, NEW least \in Nat
  PROVE  Limited(NotHarder(p, least)) <= Limited(NotHarder(q, least))
<1>1. /\ NotHarder(p, least) \in Nat /\ NotHarder(q, least) \in Nat
      /\ NotHarder(p, least) <= NotHarder(q, least)
  BY DEF NotHarder
<1> QED
  BY <1>1, ConstantsTyped DEF Limited

\* Whatever the difficulty, a share is never harder than a block and fits in
\* 256 bits: the largest digest that makes a block makes a share
\* (difficulty.py:37-41).
THEOREM ShareTargetBetween ==
  ASSUME NEW difficulty \in Int, NEW network \in 0 .. MAX_TARGET
  PROVE  /\ difficulty_to_share_target(difficulty, network) \in network .. MAX_TARGET
         /\ difficulty_to_share_target(difficulty, network) > 0
<1> DEFINE d == Usable(difficulty)
           goal == BlockTarget(network)
           share == Scaled(d, goal)
<1>1. d \in Nat /\ d > 0
  BY UsableDifficulty
<1>2. /\ network \in Int /\ network <= MAX_TARGET /\ MAX_TARGET \in Nat
      /\ network # NoTarget
  BY TargetsAssumption
<1>3. /\ goal \in Nat /\ goal > 0
      /\ network <= goal /\ goal <= MAX_TARGET
  BY <1>2, BlockTargetType
<1>4. share \in Nat
  BY <1>1, <1>3, ScaledType
<1>5. difficulty_to_share_target(difficulty, network) = Limited(NotHarder(share, goal))
  BY <1>2 DEF difficulty_to_share_target
<1> HIDE DEF d, goal, share
<1> QED
  BY <1>2, <1>3, <1>4, <1>5 DEF Limited, NotHarder

\* A lower difficulty never has a harder target, whatever the network's target
\* and whether it is known (difficulty.py:24-40): a miner whose difficulty is
\* lowered loses no share it would have had.
THEOREM LowerDifficultyIsEasier ==
  ASSUME NEW lower \in Int, NEW difficulty \in Int, 0 < lower, lower <= difficulty,
         NEW network \in (0 .. MAX_TARGET) \cup {NoTarget}
  PROVE  difficulty_to_share_target(difficulty, network)
           <= difficulty_to_share_target(lower, network)
<1>1. /\ Usable(lower) = lower /\ Usable(difficulty) = difficulty
      /\ lower \in Nat /\ difficulty \in Nat /\ difficulty > 0
  BY DEF Usable
<1>2. CASE network = NoTarget
  <2> DEFINE a == DIFF1_TARGET * Million
  <2>1. a \in Nat
    BY ConstantsTyped DEF Million
  <2> HIDE DEF a
  <2>2. a \div lower \in Nat /\ a \div difficulty \in Nat
    BY <1>1, <2>1, Quotient
  <2>3. a \div difficulty <= a \div lower
    BY <1>1, <2>1, Antitone
  <2>4. Limited(a \div difficulty) <= Limited(a \div lower)
    BY <2>2, <2>3, ConstantsTyped DEF Limited
  <2> QED
    BY <1>1, <1>2, <2>4 DEF difficulty_to_share_target, a
<1>3. CASE network # NoTarget
  <2> DEFINE goal == BlockTarget(network)
             p == Scaled(difficulty, goal)
             q == Scaled(lower, goal)
  <2>1. network \in Int /\ network <= MAX_TARGET
    BY <1>3, ConstantsTyped
  <2>2. goal \in Nat /\ goal > 0
    BY <2>1, BlockTargetType
  <2> HIDE DEF goal
  <2>3. p \in Nat /\ q \in Nat
    BY <1>1, <2>2, ScaledType
  <2>4. p <= q
    BY <1>1, <2>2, ScaledAntitone
  <2>5. Limited(NotHarder(p, goal)) <= Limited(NotHarder(q, goal))
    <3> HIDE DEF p, q
    <3> QED
      BY <2>2, <2>3, <2>4, LimitedMonotone
  <2> QED
    BY <1>1, <1>3, <2>5 DEF difficulty_to_share_target, goal
<1> QED
  BY <1>2, <1>3

-----------------------------------------------------------------------------
(* The digits of a number.  Shifted is defined by recursion: such a        *)
(* function exists.                                                        *)

Shifts(f, n, base, k) ==
    f = [i \in 0 .. k |-> IF i = 0 THEN n ELSE f[i - 1] \div base]

LEMMA ShiftsExist ==
  ASSUME NEW n, NEW base, NEW width \in Nat
  PROVE  \E f : Shifts(f, n, base, width)
<1> DEFINE S == {k \in Nat : ~ \E f : Shifts(f, n, base, k)}
<1>1. SUFFICES ASSUME S # {} PROVE FALSE
  OBVIOUS
<1>2. S \in SUBSET Nat
  OBVIOUS
<1>3. PICK k \in S : \A j \in S : ~ (j < k)
  <2> HIDE DEF S
  <2> QED
    BY <1>1, <1>2, Least
<1>4. CASE k = 0
  <2> DEFINE f == [i \in 0 .. 0 |-> n]
  <2>1. Shifts(f, n, base, 0)
    BY DEF Shifts
  <2> QED
    BY <1>4, <2>1
<1>5. CASE k # 0
  <2>1. PICK g : Shifts(g, n, base, k - 1)
    BY <1>3, <1>5
  <2> DEFINE f == [i \in 0 .. k |-> IF i = 0 THEN n ELSE g[i - 1] \div base]
  <2>2. \A i \in 0 .. k - 1 : g[i] = f[i]
    BY <2>1 DEF Shifts
  <2>3. \A i \in 0 .. k : i # 0 => g[i - 1] = f[i - 1]
    <3> HIDE DEF f
    <3>1. k \in Nat
      OBVIOUS
    <3>2. \A i \in 0 .. k : i # 0 => i - 1 \in 0 .. k - 1
      BY <3>1
    <3> QED
      BY <2>2, <3>2
  <2>4. f = [i \in 0 .. k |-> IF i = 0 THEN n ELSE f[i - 1] \div base]
    BY <2>3
  <2>5. Shifts(f, n, base, k)
    BY <2>4 DEF Shifts
  <2> QED
    BY <2>5
<1> QED
  BY <1>4, <1>5

LEMMA Division ==
  ASSUME NEW n \in Nat, NEW base \in Nat, base > 0
  PROVE  /\ n \div base \in Nat /\ n % base \in 0 .. base - 1
         /\ n = base * (n \div base) + (n % base)
  OBVIOUS

\* Of two numbers with the same rest the last digit decides.
LEMMA LastDigit ==
  ASSUME NEW x \in Nat, NEW y \in Nat, NEW base \in Nat, base > 0,
         x \div base = y \div base
  PROVE  /\ x < y <=> x % base < y % base
         /\ x = y <=> x % base = y % base
<1> DEFINE rest == base * (x \div base)
           p == x % base
           q == y % base
<1>1. x = rest + p /\ y = rest + q /\ p \in Int /\ q \in Int
  BY Division
<1>2. rest \in Int
  BY Division
<1> HIDE DEF rest, p, q
<1>3. x < y <=> p < q
  BY <1>1, <1>2
<1>4. x = y <=> p = q
  BY <1>1, <1>2
<1> QED
  BY <1>3, <1>4 DEF p, q

LEMMA DivisionMonotone ==
  ASSUME NEW n \in Nat, NEW m \in Nat, n <= m, NEW base \in Nat, base > 0
  PROVE  n \div base <= m \div base
<1> DEFINE p == n \div base
           q == m \div base
<1>1. p \in Nat /\ q \in Nat /\ base * p <= n /\ m < base * (q + 1)
  BY Quotient
<1> HIDE DEF p, q
<1>2. SUFFICES ASSUME q + 1 <= p PROVE FALSE
  BY <1>1 DEF p, q
<1>3. base * (q + 1) <= base * p
  BY <1>1, <1>2
<1>4. base * (q + 1) \in Nat /\ base * p \in Nat
  BY <1>1
<1> QED
  BY <1>1, <1>3, <1>4

LEMMA ShiftedShifts ==
  ASSUME NEW n, NEW base, NEW width \in Nat
  PROVE  Shifts(Shifted(n, base, width), n, base, width)
  BY ShiftsExist DEF Shifts, Shifted

LEMMA ShiftedIs ==
  ASSUME NEW n \in Nat, NEW base \in Nat, base > 0, NEW width \in Nat
  PROVE  /\ Shifted(n, base, width)[0] = n
         /\ \A i \in 1 .. width :
               Shifted(n, base, width)[i] = Shifted(n, base, width)[i - 1] \div base
         /\ \A i \in 0 .. width : Shifted(n, base, width)[i] \in Nat
<1> DEFINE f == Shifted(n, base, width)
<1>1. Shifts(f, n, base, width)
  BY ShiftedShifts
<1> HIDE DEF f
<1>2. f[0] = n /\ \A i \in 1 .. width : f[i] = f[i - 1] \div base
  BY <1>1 DEF Shifts
<1> DEFINE Q == {i \in 0 .. width : f[i] \in Nat}
<1>3. 0 \in Q
  BY <1>2
<1>4. \A i \in 1 .. width : i - 1 \in Q => i \in Q
  BY <1>2, Division
<1>5. \A i \in 0 .. width : i \in Q
  <2> HIDE DEF Q
  <2> QED
    BY <1>3, <1>4, CountUp
<1> QED
  BY <1>2, <1>5 DEF f

LEMMA ShiftedMonotone ==
  ASSUME NEW n \in Nat, NEW m \in Nat, n <= m,
         NEW base \in Nat, base > 0, NEW width \in Nat
  PROVE  \A i \in 0 .. width : Shifted(n, base, width)[i] <= Shifted(m, base, width)[i]
<1> DEFINE f == Shifted(n, base, width)
           g == Shifted(m, base, width)
           Q == {i \in 0 .. width : f[i] <= g[i]}
<1>1. /\ f[0] = n /\ g[0] = m
      /\ \A i \in 1 .. width : f[i] = f[i - 1] \div base /\ g[i] = g[i - 1] \div base
      /\ \A i \in 0 .. width : f[i] \in Nat /\ g[i] \in Nat
  BY ShiftedIs
<1> HIDE DEF f, g
<1>2. 0 \in Q
  BY <1>1
<1>3. ASSUME NEW i \in 1 .. width, i - 1 \in Q PROVE i \in Q
  <2>1. f[i - 1] \in Nat /\ g[i - 1] \in Nat /\ f[i - 1] <= g[i - 1]
    BY <1>1, <1>3
  <2>2. f[i - 1] \div base <= g[i - 1] \div base
    BY <2>1, DivisionMonotone
  <2> QED
    BY <1>1, <2>2
<1>4. \A i \in 0 .. width : i \in Q
  <2> HIDE DEF Q
  <2> QED
    BY <1>2, <1>3, CountUp
<1> QED
  BY <1>4 DEF f, g

\* Numbers with the same last digits from the k-th on, and the same rest, ...
LEMMA SameDigits ==
  ASSUME NEW n \in 0 .. MAX_TARGET, NEW m \in 0 .. MAX_TARGET,
         NEW k \in 0 .. Width,
         \A i \in 1 .. k : Digits(n)[i] = Digits(m)[i]
  PROVE  Shifted(n, Base, Width)[Width - k] = Shifted(m, Base, Width)[Width - k]
<1> DEFINE f == Shifted(n, Base, Width)
           g == Shifted(m, Base, Width)
           top == Shifted(MAX_TARGET, Base, Width)
           Q == {j \in 0 .. k : f[Width - j] = g[Width - j]}
<1>1. /\ Width \in Nat /\ Base \in Nat /\ Base > 0 /\ MAX_TARGET \in Nat
      /\ top[Width] = 0 /\ n \in Nat /\ m \in Nat /\ n <= MAX_TARGET /\ m <= MAX_TARGET
  BY ArithmeticAssumption, ConstantsTyped
<1>2. /\ \A i \in 1 .. Width : f[i] = f[i - 1] \div Base /\ g[i] = g[i - 1] \div Base
      /\ \A i \in 0 .. Width : f[i] \in Nat /\ g[i] \in Nat
  BY <1>1, ShiftedIs
<1>3. f[Width] <= top[Width] /\ g[Width] <= top[Width]
  BY <1>1, ShiftedMonotone
<1>4. \A i \in 1 .. k : f[Width - i] % Base = g[Width - i] % Base
  <2>1. \A i \in 1 .. Width : /\ Digits(n)[i] = f[Width - i] % Base
                              /\ Digits(m)[i] = g[Width - i] % Base
    BY DEF Digits
  <2>2. \A i \in 1 .. k : i \in 1 .. Width
    BY <1>1
  <2> HIDE DEF f, g
  <2> QED
    BY <2>1, <2>2
<1> HIDE DEF f, g, top
<1>5. 0 \in Q
  BY <1>1, <1>2, <1>3
<1>6. ASSUME NEW j \in 1 .. k, j - 1 \in Q PROVE j \in Q
  <2>1. PICK i \in 1 .. Width : i = Width - (j - 1) /\ i - 1 = Width - j
    BY <1>1
  <2>2. f[i] = g[i] /\ f[i - 1] % Base = g[i - 1] % Base
    BY <1>4, <1>6, <2>1
  <2>3. i - 1 \in 0 .. Width
    BY <1>1
  <2>4. f[i] = f[i - 1] \div Base /\ g[i] = g[i - 1] \div Base
        /\ f[i - 1] \in Nat /\ g[i - 1] \in Nat
    BY <1>2, <2>1, <2>3
  <2>5. PICK x \in Nat, y \in Nat : x = f[i - 1] /\ y = g[i - 1]
    BY <2>4
  <2>6. x \div Base = y \div Base /\ x % Base = y % Base
    BY <2>2, <2>4, <2>5
  <2>7. x = y
    BY <1>1, <2>6, LastDigit
  <2>8. f[i - 1] = g[i - 1]
    BY <2>5, <2>7
  <2>9. f[Width - j] = g[Width - j]
    BY <2>1, <2>8
  <2>10. j \in 0 .. k
    OBVIOUS
  <2> QED
    BY <2>9, <2>10
<1>7. \A j \in 0 .. k : j \in Q
  <2> HIDE DEF Q
  <2> QED
    BY <1>5, <1>6, CountUp
<1> QED
  BY <1>7 DEF f, g

\* The comparison of digests, digit by digit from the first, is that of the
\* numbers they stand for (difficulty.py: compare_digest_le).
THEOREM DigitsCompared ==
  ASSUME NEW n \in 0 .. MAX_TARGET, NEW m \in 0 .. MAX_TARGET
  PROVE  Reaches(n, m) <=> n <= m
<1> DEFINE f == Shifted(n, Base, Width)
           g == Shifted(m, Base, Width)
           D == {i \in DOMAIN Digits(n) : Digits(n)[i] # Digits(m)[i]}
<1>1. /\ Width \in Nat /\ Base \in Nat /\ Base > 0 /\ MAX_TARGET \in Nat
      /\ n \in Nat /\ m \in Nat
  BY ArithmeticAssumption, ConstantsTyped
<1>2. /\ f[0] = n /\ g[0] = m
      /\ \A i \in 1 .. Width : f[i] = f[i - 1] \div Base /\ g[i] = g[i - 1] \div Base
      /\ \A i \in 0 .. Width : f[i] \in Nat /\ g[i] \in Nat
  BY <1>1, ShiftedIs
<1>3. /\ D = {i \in 1 .. Width : Digits(n)[i] # Digits(m)[i]}
      /\ \A i \in 1 .. Width : /\ Digits(n)[i] = f[Width - i] % Base
                               /\ Digits(m)[i] = g[Width - i] % Base
  BY DEF Digits
<1>4. \A k \in 0 .. Width : (\A i \in 1 .. k : Digits(n)[i] = Digits(m)[i])
                              => f[Width - k] = g[Width - k]
  BY SameDigits
<1>5. /\ n <= m => \A i \in 0 .. Width : f[i] <= g[i]
      /\ m <= n => \A i \in 0 .. Width : g[i] <= f[i]
  BY <1>1, ShiftedMonotone
<1>6. Reaches(n, m) <=> (D = {} \/ Digits(n)[FirstDifferent(D)] < Digits(m)[FirstDifferent(D)])
  BY DEF Reaches, compare_digest_le
<1> HIDE DEF f, g, D
<1>7. CASE D = {}
  <2>1. f[Width - Width] = g[Width - Width]
    BY <1>1, <1>3, <1>4, <1>7
  <2>2. Width - Width = 0
    BY <1>1
  <2> QED
    BY <1>1, <1>2, <1>6, <1>7, <2>1, <2>2
<1>8. CASE D # {}
  <2> DEFINE d == FirstDifferent(D)
  <2>1. d \in D /\ \A j \in D : d <= j
    <3>1. D \in SUBSET Nat
      BY <1>1, <1>3
    <3>2. PICK k \in D : \A j \in D : ~ (j < k)
      BY <1>8, <3>1, Least
    <3>3. \A j \in D : k <= j
      BY <3>1, <3>2
    <3> QED
      BY <3>2, <3>3 DEF FirstDifferent
  <2> HIDE DEF d
  <2>2. PICK h \in 0 .. Width - 1 : h = Width - d /\ h + 1 = Width - (d - 1)
    BY <1>1, <1>3, <2>1
  <2>3. d \in 1 .. Width /\ d - 1 \in 0 .. Width
        /\ \A i \in 1 .. d - 1 : Digits(n)[i] = Digits(m)[i]
    BY <1>1, <1>3, <2>1
  <2>4. f[h + 1] = g[h + 1]
    BY <1>4, <2>2, <2>3
  <2>5. /\ f[h + 1] = f[h] \div Base /\ g[h + 1] = g[h] \div Base
        /\ f[h] \in Nat /\ g[h] \in Nat
    <3>1. h + 1 \in 1 .. Width /\ (h + 1) - 1 = h /\ h \in 0 .. Width
      BY <1>1
    <3> QED
      BY <1>2, <3>1
  <2>6. Digits(n)[d] = f[h] % Base /\ Digits(m)[d] = g[h] % Base /\ Digits(n)[d] # Digits(m)[d]
    BY <1>3, <2>1, <2>2, <2>3
  <2>7. /\ f[h] < g[h] <=> Digits(n)[d] < Digits(m)[d]
        /\ f[h] # g[h]
    <3>1. PICK x \in Nat, y \in Nat : x = f[h] /\ y = g[h]
      BY <2>5
    <3>2. x \div Base = y \div Base
      BY <2>4, <2>5, <3>1
    <3>3. (x < y <=> x % Base < y % Base) /\ (x = y <=> x % Base = y % Base)
      BY <1>1, <3>2, LastDigit
    <3> QED
      BY <2>6, <3>1, <3>3
  <2>8. n <= m <=> f[h] < g[h]
    <3>1. h \in 0 .. Width
      BY <1>1
    <3> QED
      BY <1>1, <1>5, <2>5, <2>7, <3>1
  <2> QED
    BY <1>6, <1>8, <2>7, <2>8 DEF d
<1> QED
  BY <1>7, <1>8

-----------------------------------------------------------------------------
(* Variable-length integers *)

LEMMA ByteShifts ==
  ASSUME NEW n \in Nat, NEW width \in Nat
  PROVE  LET h == Shifted(n, 256, width)
         IN  /\ h = [i \in 0 .. width |-> h[i]] /\ h[0] = n
             /\ \A i \in 1 .. width : h[i] = h[i - 1] \div 256
             /\ \A i \in 0 .. width : h[i] \in Nat
<1>1. PICK base \in Nat : base = 256
  OBVIOUS
<1>2. base > 0
  BY <1>1
<1> DEFINE h == Shifted(n, base, width)
<1>3. /\ h[0] = n
      /\ \A i \in 1 .. width : h[i] = h[i - 1] \div base
      /\ \A i \in 0 .. width : h[i] \in Nat
  BY <1>2, ShiftedIs
<1>4. Shifts(h, n, base, width)
  BY ShiftedShifts
<1> HIDE DEF h
<1>5. h = [i \in 0 .. width |-> h[i]]
  BY <1>4 DEF Shifts
<1> QED
  BY <1>1, <1>3, <1>5 DEF h

\* A number that has no digits behind the last of its field is read from it.
LEMMA NumberReads ==
  ASSUME NEW n \in Nat, NEW width \in Nat, NEW data, NEW pos \in Nat,
         \A i \in 1 .. width : data[pos + (i - 1)] = LittleEndian(n, width)[i],
         Shifted(n, 256, width)[width] = 0
  PROVE  Number(data, pos, width) = n
<1> DEFINE h == Shifted(n, 256, width)
           Reads(f) == f = [i \in 0 .. width |->
                              IF i = width THEN 0 ELSE data[pos + i] + 256 * f[i + 1]]
           g == CHOOSE f : Reads(f)
<1>1. /\ h[0] = n
      /\ \A i \in 1 .. width : h[i] = h[i - 1] \div 256
      /\ \A i \in 0 .. width : h[i] \in Nat
  BY ByteShifts
<1>2. h = [i \in 0 .. width |-> h[i]]
  BY ByteShifts
<1>3. \A i \in 1 .. width : LittleEndian(n, width)[i] = h[i - 1] % 256
  BY DEF LittleEndian
<1>4. h[width] = 0 /\ Number(data, pos, width) = g[0]
  BY DEF Number
<1> HIDE DEF h
<1>5. ASSUME NEW i \in 0 .. width, i # width
      PROVE  h[i] = data[pos + i] + 256 * h[i + 1]
  <2> DEFINE j == i + 1
  <2>1. j \in 1 .. width /\ j - 1 = i
    BY <1>5
  <2> HIDE DEF j
  <2>2. data[pos + i] = h[i] % 256 /\ h[j] = h[i] \div 256
    <3>1. data[pos + (j - 1)] = LittleEndian(n, width)[j]
      BY <2>1
    <3>2. LittleEndian(n, width)[j] = h[j - 1] % 256 /\ h[j] = h[j - 1] \div 256
      BY <1>1, <1>3, <2>1
    <3> QED
      BY <2>1, <3>1, <3>2
  <2>3. PICK x \in Nat : x = h[i]
    BY <1>1
  <2>4. x = 256 * (x \div 256) + (x % 256)
    OBVIOUS
  <2> QED
    BY <2>2, <2>3, <2>4 DEF j
<1>6. Reads(h)
  <2> DEFINE f == [i \in 0 .. width |->
                     IF i = width THEN 0 ELSE data[pos + i] + 256 * h[i + 1]]
  <2>1. ASSUME NEW i \in 0 .. width PROVE f[i] = h[i]
    <3>1. CASE i = width
      BY <1>4, <3>1
    <3>2. CASE i # width
      <4>1. h[i] = data[pos + i] + 256 * h[i + 1]
        BY <1>5, <3>2
      <4> QED
        BY <3>2, <4>1
    <3> QED
      BY <3>1, <3>2
  <2>2. f = [i \in 0 .. width |-> f[i]]
    OBVIOUS
  <2>3. h = f
    <3> HIDE DEF f
    <3> QED
      BY <1>2, <2>1, <2>2
  <2> QED
    BY <2>3
<1>7. Reads(g)
  <2> HIDE DEF Reads
  <2> QED
    BY <1>6
<1>8. /\ g[width] = 0
      /\ \A i \in 0 .. width : i # width => g[i] = data[pos + i] + 256 * g[i + 1]
  <2> HIDE DEF g
  <2> QED
    BY <1>7
<1> DEFINE Q == {k \in 0 .. width : g[width - k] = h[width - k]}
<1> HIDE DEF Reads, g
<1>9. 0 \in Q
  BY <1>4, <1>8
<1>10. ASSUME NEW k \in 1 .. width, k - 1 \in Q PROVE k \in Q
  <2>1. PICK i \in 0 .. width : i # width /\ i = width - k /\ i + 1 = width - (k - 1)
    OBVIOUS
  <2>2. g[i + 1] = h[i + 1]
    BY <1>10, <2>1
  <2>3. g[i] = h[i]
    BY <1>5, <1>8, <2>1, <2>2
  <2>4. g[width - k] = h[width - k]
    BY <2>1, <2>3
  <2> QED
    BY <2>4
<1>11. \A k \in 0 .. width : k \in Q
  <2> HIDE DEF Q
  <2> QED
    BY <1>9, <1>10, CountUp
<1>12. g[width - width] = h[width - width] /\ width - width = 0
  BY <1>11
<1> QED
  BY <1>1, <1>4, <1>12

LEMMA Halves ==
  ASSUME NEW n \in Nat
  PROVE  /\ n \div 256 \in Nat /\ (n \div 256) \div 256 = n \div 65536
         /\ n \div 65536 \in Nat /\ (n < 65536 => n \div 65536 = 0)
  OBVIOUS

\* What varint writes has no digits behind the last.
LEMMA WidthSuffices ==
  ASSUME NEW n \in Nat
  PROVE  /\ n < 65536 => Shifted(n, 256, 2)[2] = 0
         /\ n \div 65536 < 65536 => Shifted(n, 256, 4)[4] = 0
         /\ Fits(n) => Shifted(n, 256, 8)[8] = 0
<1> DEFINE p == n \div 65536
           q == p \div 65536
           r == q \div 65536
<1>1. p \in Nat /\ q \in Nat /\ r \in Nat
  BY Halves
<1>2. ASSUME NEW w \in {2, 4, 8}
      PROVE  /\ Shifted(n, 256, w)[2] = p
             /\ w >= 4 => Shifted(n, 256, w)[4] = q
             /\ w >= 8 => Shifted(n, 256, w)[8] = r \div 65536
  <2> DEFINE f == Shifted(n, 256, w)
  <2>0. w \in Nat
    BY <1>2
  <2>1. f[0] = n /\ \A i \in 1 .. w : f[i] = f[i - 1] \div 256
    BY <2>0, ByteShifts
  <2> HIDE DEF f
  <2>2. f[1] = f[0] \div 256 /\ f[2] = f[1] \div 256
    <3>1. 1 \in 1 .. w /\ 2 \in 1 .. w /\ 1 - 1 = 0 /\ 2 - 1 = 1
      OBVIOUS
    <3> QED
      BY <2>1, <3>1
  <2>3. f[2] = p
    BY <2>1, <2>2, Halves
  <2>4. ASSUME w >= 4 PROVE f[4] = q
    <3>1. 3 \in 1 .. w /\ 4 \in 1 .. w /\ 3 - 1 = 2 /\ 4 - 1 = 3
      BY <2>4
    <3>2. f[3] = f[2] \div 256 /\ f[4] = f[3] \div 256
      BY <2>1, <3>1
    <3> HIDE DEF p
    <3> QED
      BY <1>1, <2>3, <3>2, Halves
  <2>5. ASSUME w >= 8 PROVE f[8] = r \div 65536
    <3>1. /\ 5 \in 1 .. w /\ 6 \in 1 .. w /\ 5 - 1 = 4 /\ 6 - 1 = 5
          /\ 7 \in 1 .. w /\ 8 \in 1 .. w /\ 7 - 1 = 6 /\ 8 - 1 = 7
      BY <2>5
    <3>2. /\ f[5] = f[4] \div 256 /\ f[6] = f[5] \div 256
          /\ f[7] = f[6] \div 256 /\ f[8] = f[7] \div 256
      BY <2>1, <3>1
    <3>3. f[4] = q
      BY <2>4, <2>5
    <3> HIDE DEF q, p
    <3>4. f[6] = r
      BY <1>1, <3>2, <3>3, Halves
    <3> HIDE DEF r
    <3> QED
      BY <1>1, <3>2, <3>4, Halves
  <2> QED
    BY <2>3, <2>4, <2>5 DEF f
<1>3. r < 65536 => r \div 65536 = 0
  BY <1>1, Halves
<1>4. p < 65536 => q = 0
  BY <1>1, Halves
<1>5. n < 65536 => p = 0
  BY Halves
<1> HIDE DEF p, q, r
<1>6. 2 \in {2, 4, 8} /\ 4 \in {2, 4, 8} /\ 8 \in {2, 4, 8}
  OBVIOUS
<1> QED
  BY <1>2, <1>3, <1>4, <1>5, <1>6 DEF Fits, p, q, r

\* The elements of data behind the first few are those of s.
Continues(data, few, s) ==
    \A i \in 1 .. Len(s) : few + i \in DOMAIN data /\ data[few + i] = s[i]

LEMMA Concatenated ==
  ASSUME NEW Cell, NEW pre \in Seq(Cell), NEW s \in Seq(Cell), NEW post \in Seq(Cell)
  PROVE  Continues(pre \o s \o post, Len(pre), s)
  BY DEF Continues

LEMMA Parts ==
  ASSUME NEW Cell, NEW s \in Seq(Cell), NEW t \in Seq(Cell), NEW data, NEW few \in Nat
  PROVE  Continues(data, few, s \o t)
            <=> Continues(data, few, s) /\ Continues(data, few + Len(s), t)
<1>1. /\ Len(s \o t) = Len(s) + Len(t) /\ Len(s) \in Nat /\ Len(t) \in Nat
      /\ \A i \in 1 .. Len(s) : i \in 1 .. Len(s) + Len(t) /\ (s \o t)[i] = s[i]
      /\ \A i \in 1 .. Len(t) : /\ Len(s) + i \in 1 .. Len(s) + Len(t)
                                /\ (s \o t)[Len(s) + i] = t[i]
  BY ConcatProperties, LenProperties
<1>2. ASSUME Continues(data, few, s \o t)
      PROVE  Continues(data, few, s) /\ Continues(data, few + Len(s), t)
  <2>1. Continues(data, few, s)
    BY <1>1, <1>2 DEF Continues
  <2>2. \A i \in 1 .. Len(t) : few + (Len(s) + i) = (few + Len(s)) + i
    BY <1>1
  <2>3. Continues(data, few + Len(s), t)
    BY <1>1, <1>2, <2>2 DEF Continues
  <2> QED
    BY <2>1, <2>3
<1>3. ASSUME Continues(data, few, s), Continues(data, few + Len(s), t)
      PROVE  Continues(data, few, s \o t)
  <2> SUFFICES ASSUME NEW i \in 1 .. Len(s) + Len(t)
               PROVE  few + i \in DOMAIN data /\ data[few + i] = (s \o t)[i]
    BY <1>1 DEF Continues
  <2>1. CASE i <= Len(s)
    BY <1>1, <1>3, <2>1 DEF Continues
  <2>2. CASE ~(i <= Len(s))
    <3>1. PICK j \in 1 .. Len(t) : i = Len(s) + j /\ few + i = (few + Len(s)) + j
      <4>1. /\ i - Len(s) \in 1 .. Len(t) /\ i = Len(s) + (i - Len(s))
            /\ few + i = (few + Len(s)) + (i - Len(s))
        BY <1>1, <2>2
      <4> QED
        BY <4>1
    <3> QED
      BY <1>1, <1>3, <3>1 DEF Continues
  <2> QED
    BY <2>1, <2>2
<1> QED
  BY <1>2, <1>3

\* A marker and as many digits as it says.
Holds(bytes, n, mark, w) ==
    /\ Len(bytes) = w + 1 /\ bytes[1] = mark
    /\ \A i \in 1 .. w : bytes[i + 1] = LittleEndian(n, w)[i]

LEMMA BytesOf ==
  ASSUME NEW n \in Nat, NEW m \in Nat, NEW w \in Nat
  PROVE  /\ <<m>> \o LittleEndian(n, w) \in Seq(Nat)
         /\ Holds(<<m>> \o LittleEndian(n, w), n, m, w)
<1> DEFINE digits == LittleEndian(n, w)
<1>1. \A i \in 1 .. w : Shifted(n, 256, w)[i - 1] % 256 \in Nat
  <2>1. \A i \in 0 .. w : Shifted(n, 256, w)[i] \in Nat
    BY ByteShifts
  <2> QED
    BY <2>1
<1>2. digits \in [1 .. w -> Nat]
  BY <1>1 DEF LittleEndian
<1>3. digits \in Seq(Nat) /\ Len(digits) = w
  BY <1>2
<1> HIDE DEF digits
<1> QED
  BY <1>3 DEF Holds, digits

\* A marker and as many digits as it says, none of them missing.
Marked(n, mark, w) ==
    varint(n) = <<mark>> \o LittleEndian(n, w) /\ Shifted(n, 256, w)[w] = 0

LEMMA VarintIs ==
  ASSUME NEW n \in Nat, Fits(n)
  PROVE  \/ n < 253 /\ varint(n) = <<n>>
         \/ Marked(n, 253, 2) \/ Marked(n, 254, 4) \/ Marked(n, 255, 8)
<1>1. n \div 65536 \in Nat
  BY Halves
<1>2. CASE n < 253
  BY <1>2 DEF varint, IsOneByte
<1>3. CASE ~(n < 253) /\ n < 65536
  <2>1. varint(n) = <<253>> \o LittleEndian(n, 2)
    BY <1>3 DEF varint, IsOneByte
  <2> QED
    BY <1>3, <2>1, WidthSuffices DEF Marked
<1>4. CASE ~(n < 253) /\ ~(n < 65536) /\ n \div 65536 < 65536
  <2>1. varint(n) = <<254>> \o LittleEndian(n, 4)
    BY <1>4 DEF varint, IsOneByte
  <2> QED
    BY <1>4, <2>1, WidthSuffices DEF Marked
<1>5. CASE ~(n < 253) /\ ~(n < 65536) /\ ~(n \div 65536 < 65536)
  <2>1. varint(n) = <<255>> \o LittleEndian(n, 8)
    BY <1>5 DEF varint, IsOneByte
  <2> QED
    BY <2>1, WidthSuffices DEF Marked
<1> QED
  BY <1>2, <1>3, <1>4, <1>5

\* The width a reader takes from the first byte.
Announces(first, w) ==
    \/ first < 253 /\ w = 0
    \/ first = 253 /\ w = 2
    \/ first = 254 /\ w = 4
    \/ first = 255 /\ w = 8

Read(data, pos, value, behind) == read_varint(data)[pos] = [value |-> value, pos |-> behind]

LEMMA ReadsWidth ==
  ASSUME NEW data, NEW at \in Nat, at \in DOMAIN data, NEW w \in Nat, NEW first \in Nat,
         data[at] = first, Announces(first, w)
  PROVE  Read(data, at, IF w = 0 THEN first ELSE Number(data, at + 1, w), at + 1 + w)
  BY DEF Read, read_varint, Announces

LEMMA MarkedReads ==
  ASSUME NEW n \in Nat, NEW mark \in Nat, NEW w \in Nat, Shifted(n, 256, w)[w] = 0,
         Announces(mark, w), w # 0,
         NEW bytes \in Seq(Nat), Holds(bytes, n, mark, w),
         NEW data, NEW few \in Nat, Continues(data, few, bytes)
  PROVE  Read(data, few + 1, n, few + 1 + Len(bytes))
<1>1. /\ Len(bytes) = w + 1 /\ bytes[1] = mark
      /\ \A i \in 1 .. w : bytes[i + 1] = LittleEndian(n, w)[i]
  BY DEF Holds
<1>2. \A i \in 1 .. Len(bytes) : few + i \in DOMAIN data /\ data[few + i] = bytes[i]
  BY DEF Continues
<1>3. PICK pos \in Nat : pos = few + 1
  OBVIOUS
<1>4. pos \in DOMAIN data /\ data[pos] = mark
  <2>1. 1 \in 1 .. Len(bytes)
    BY <1>1
  <2> QED
    BY <1>1, <1>2, <1>3, <2>1
<1>5. PICK at \in Nat : at = pos + 1
  OBVIOUS
<1>6. \A i \in 1 .. w : data[at + (i - 1)] = LittleEndian(n, w)[i]
  <2> SUFFICES ASSUME NEW i \in 1 .. w PROVE data[at + (i - 1)] = LittleEndian(n, w)[i]
    OBVIOUS
  <2>1. i + 1 \in 1 .. Len(bytes) /\ few + (i + 1) = at + (i - 1)
    BY <1>1, <1>3, <1>5
  <2>2. data[few + (i + 1)] = bytes[i + 1]
    BY <1>2, <2>1
  <2> QED
    BY <1>1, <2>1, <2>2
<1>7. Number(data, at, w) = n
  BY <1>6, NumberReads, Zenon
<1>8. Read(data, pos, IF w = 0 THEN mark ELSE Number(data, pos + 1, w), pos + 1 + w)
  BY <1>4, ReadsWidth, Zenon
<1>9. pos + 1 + w = pos + Len(bytes)
  BY <1>1, <1>3
<1> QED
  BY <1>3, <1>5, <1>7, <1>8, <1>9 DEF Read

LEMMA VarintReads ==
  ASSUME NEW n \in Nat, Fits(n), NEW data, NEW few \in Nat, Continues(data, few, varint(n))
  PROVE  Read(data, few + 1, n, few + 1 + Len(varint(n)))
<1>1. CASE n < 253 /\ varint(n) = <<n>>
  <2>1. PICK pos \in Nat : pos = few + 1
    OBVIOUS
  <2>2. pos \in DOMAIN data /\ data[pos] = n /\ Len(varint(n)) = 1
    BY <1>1, <2>1 DEF Continues
  <2>3. Announces(n, 0)
    BY <1>1 DEF Announces
  <2>4. Read(data, pos, IF 0 = 0 THEN n ELSE Number(data, pos + 1, 0), pos + 1 + 0)
    BY <2>2, <2>3, ReadsWidth
  <2> QED
    BY <2>1, <2>2, <2>4 DEF Read
<1>2. ASSUME NEW mark \in Nat, NEW w \in Nat, Marked(n, mark, w), Announces(mark, w), w # 0
      PROVE  Read(data, few + 1, n, few + 1 + Len(varint(n)))
  <2>1. PICK bytes : bytes = <<mark>> \o LittleEndian(n, w)
    OBVIOUS
  <2>2. bytes \in Seq(Nat) /\ Holds(bytes, n, mark, w)
    BY <2>1, BytesOf
  <2>3. varint(n) = bytes /\ Shifted(n, 256, w)[w] = 0
    BY <1>2, <2>1 DEF Marked
  <2>4. Continues(data, few, bytes)
    BY <2>3
  <2>5. Read(data, few + 1, n, few + 1 + Len(bytes))
    BY <1>2, <2>2, <2>3, <2>4, MarkedReads, Zenon
  <2> QED
    BY <2>3, <2>5
<1>3. CASE Marked(n, 253, 2)
  <2>1. 253 \in Nat /\ 2 \in Nat /\ Announces(253, 2) /\ 2 # 0
    BY DEF Announces
  <2> QED
    BY <1>2, <1>3, <2>1, Zenon
<1>4. CASE Marked(n, 254, 4)
  <2>1. 254 \in Nat /\ 4 \in Nat /\ Announces(254, 4) /\ 4 # 0
    BY DEF Announces
  <2> QED
    BY <1>2, <1>4, <2>1, Zenon
<1>5. CASE Marked(n, 255, 8)
  <2>1. 255 \in Nat /\ 8 \in Nat /\ Announces(255, 8) /\ 8 # 0
    BY DEF Announces
  <2> QED
    BY <1>2, <1>5, <2>1, Zenon
<1> QED
  BY <1>1, <1>3, <1>4, <1>5, VarintIs

\* A number of 64 bits is read back as it was written, wherever it stands and
\* whatever follows it, and the parser goes on right behind it
\* (block_builder.py:16-23 and 134-143).
THEOREM VarintsReadBack ==
  ASSUME NEW n \in Nat, Fits(n), NEW data, NEW few \in Nat, Continues(data, few, varint(n))
  PROVE  read_varint(data)[few + 1] = [value |-> n, pos |-> few + 1 + Len(varint(n))]
  BY VarintReads DEF Read

LEMMA VarintBytes ==
  ASSUME NEW n \in Nat
  PROVE  varint(n) \in Seq(Nat) /\ Len(varint(n)) \in Nat \ {0}
<1>1. ASSUME NEW m \in {253, 254, 255}, NEW w \in {2, 4, 8}
      PROVE  /\ <<m>> \o LittleEndian(n, w) \in Seq(Nat)
             /\ Len(<<m>> \o LittleEndian(n, w)) \in Nat \ {0}
  <2>1. m \in Nat /\ w \in Nat
    BY <1>1
  <2>2. PICK bytes : bytes = <<m>> \o LittleEndian(n, w)
    OBVIOUS
  <2>3. bytes \in Seq(Nat) /\ Holds(bytes, n, m, w)
    BY <2>1, <2>2, BytesOf
  <2>4. Len(bytes) \in Nat \ {0}
    BY <2>1, <2>3 DEF Holds
  <2> QED
    BY <2>2, <2>3, <2>4
<1>2. <<n>> \in Seq(Nat) /\ Len(<<n>>) = 1
  OBVIOUS
<1> QED
  BY <1>1, <1>2 DEF varint

-----------------------------------------------------------------------------
(* The inputs *)

InputInv == input.kind = "none" \/ input \in FeeInput \cup VarintInput \cup TargetInput

LEMMA InputTypes ==
  /\ \A reward \in 0 .. MaxReward : reward \in Nat
  /\ Percents \subseteq Int /\ Ratings \subseteq Int /\ NoTarget \notin 0 .. MAX_TARGET
  /\ \A n \in Numbers : n \in Nat /\ Fits(n)
<1>1. MaxReward \in Nat /\ Percents \subseteq Int /\ Ratings \subseteq Int
  BY ArithmeticAssumption
<1>2. \A n \in Numbers : n \in Nat /\ Fits(n)
  BY ArithmeticAssumption
<1> QED
  BY <1>1, <1>2, TargetsAssumption

LEMMA InputsTyped == ArithmeticSpec => []InputInv
<1>1. ArithmeticInit => InputInv
  BY DEF ArithmeticInit, InputInv
<1>2. InputInv /\ [Choose \/ BuildBlock \/ DivideReward]_<<input, block, vars>> => InputInv'
  BY DEF InputInv, Choose, BuildBlock, DivideReward
<1> QED
  BY <1>1, <1>2, PTL DEF ArithmeticSpec

\* For every reward and percentage: the pool's part of the coinbase covers what
\* PPLNS hands out of it, though the two are rounded in different modules.
THEOREM PoolAlwaysCovers == ArithmeticSpec => []PoolCoversMiners
<1>1. InputInv => PoolCoversMiners
  <2> SUFFICES ASSUME InputInv, input.kind = "fee" PROVE split.user >= owed
    BY DEF PoolCoversMiners
  <2>1. input \in FeeInput
    BY DEF InputInv, FeeInput, VarintInput, TargetInput
  <2>2. input.reward \in Nat /\ input.percent \in Int
    BY <2>1, InputTypes DEF FeeInput
  <2>3. bps \in Nat /\ bps <= 10000
    BY <2>2, FeeRange DEF bps
  <2> HIDE DEF bps
  <2> QED
    BY <2>2, <2>3, SplitCoversDistributable DEF split, owed
<1> QED
  BY <1>1, InputsTyped, PTL

\* For every difficulty and every target of the network, a digest that makes a
\* block is a share: the validator, which asks for both, refuses no block.
THEOREM BlockAlwaysShare == ArithmeticSpec => []BlockIsShare
<1>1. InputInv => BlockIsShare
  <2> SUFFICES ASSUME InputInv, input.kind = "target", input.network # NoTarget,
                      NEW digest \in 0 .. MAX_TARGET, Reaches(digest, input.network)
               PROVE  Reaches(digest, ShareTarget)
    BY DEF BlockIsShare
  <2>1. input \in TargetInput
    BY DEF InputInv, FeeInput, VarintInput, TargetInput
  <2>2. input.network \in 0 .. MAX_TARGET /\ input.difficulty \in Int
    BY <2>1, InputTypes DEF TargetInput
  <2>3. ShareTarget \in input.network .. MAX_TARGET
    BY <2>2, ShareTargetBetween DEF ShareTarget
  <2> HIDE DEF ShareTarget
  <2>4. ShareTarget \in 0 .. MAX_TARGET /\ input.network <= ShareTarget
    BY <2>2, <2>3, ConstantsTyped
  <2>5. digest <= input.network
    BY <2>2, DigitsCompared
  <2>6. digest <= ShareTarget
    BY <2>2, <2>4, <2>5, ConstantsTyped
  <2> QED
    BY <2>4, <2>6, DigitsCompared
<1> QED
  BY <1>1, InputsTyped, PTL

\* For every number of 64 bits, where the parser meets it.
THEOREM VarintAlwaysReadsBack == ArithmeticSpec => []VarintReadsBack
<1>1. InputInv => VarintReadsBack
  <2> SUFFICES ASSUME InputInv, input.kind = "varint" PROVE VarintReadsBack
    BY DEF VarintReadsBack
  <2>1. input \in VarintInput
    BY DEF InputInv, FeeInput, VarintInput, TargetInput
  <2>2. input.number \in Numbers /\ input.pos \in {1, 3}
    BY <2>1 DEF VarintInput
  <2>3. input.number \in Nat /\ Fits(input.number)
    BY <2>2, InputTypes
  <2> DEFINE pre == [i \in 1 .. input.pos - 1 |-> 254]
             post == <<253, 1, 1>>
             n == input.number
             data == pre \o varint(n) \o post
  <2>4. pre \in Seq(Nat) /\ Len(pre) + 1 = input.pos /\ post \in Seq(Nat)
    BY <2>2
  <2> HIDE DEF pre, post
  <2>5. read_varint(data)[Len(pre) + 1] =
          [value |-> n, pos |-> Len(pre) + 1 + Len(varint(n))]
    <3>1. varint(n) \in Seq(Nat) /\ Len(pre) \in Nat
      BY <2>3, <2>4, VarintBytes, LenProperties
    <3>2. Continues(data, Len(pre), varint(n))
      BY <2>4, <3>1, Concatenated
    <3> HIDE DEF data, n
    <3> QED
      BY <2>3, <3>1, <3>2, VarintsReadBack DEF n
  <2>6. read_varint(data)[input.pos] =
          [value |-> n, pos |-> input.pos + Len(varint(n))]
    BY <2>4, <2>5
  <2> QED
    BY <2>6 DEF VarintReadsBack, pre, post
<1> QED
  BY <1>1, InputsTyped, PTL

-----------------------------------------------------------------------------
(* Counted lists *)

Repeats(f, a, g, k) == f = [i \in 0 .. k |-> IF i = 0 THEN a ELSE g[f[i - 1]]]

LEMMA RepeatsExist ==
  ASSUME NEW a, NEW g, NEW n \in Nat
  PROVE  \E f : Repeats(f, a, g, n)
<1> DEFINE S == {k \in Nat : ~ \E f : Repeats(f, a, g, k)}
<1>1. SUFFICES ASSUME S # {} PROVE FALSE
  OBVIOUS
<1>2. S \in SUBSET Nat
  OBVIOUS
<1>3. PICK k \in S : \A j \in S : ~ (j < k)
  <2> HIDE DEF S
  <2> QED
    BY <1>1, <1>2, Least
<1>4. CASE k = 0
  <2> DEFINE f == [i \in 0 .. 0 |-> a]
  <2>1. Repeats(f, a, g, 0)
    BY DEF Repeats
  <2> QED
    BY <1>4, <2>1
<1>5. CASE k # 0
  <2>1. PICK h : Repeats(h, a, g, k - 1)
    BY <1>3, <1>5
  <2> DEFINE f == [i \in 0 .. k |-> IF i = 0 THEN a ELSE g[h[i - 1]]]
  <2>2. \A i \in 0 .. k - 1 : h[i] = f[i]
    BY <2>1 DEF Repeats
  <2>3. \A i \in 0 .. k : i # 0 => h[i - 1] = f[i - 1]
    <3> HIDE DEF f
    <3>1. k \in Nat
      OBVIOUS
    <3>2. \A i \in 0 .. k : i # 0 => i - 1 \in 0 .. k - 1
      BY <3>1
    <3> QED
      BY <2>2, <3>2
  <2>4. f = [i \in 0 .. k |-> IF i = 0 THEN a ELSE g[f[i - 1]]]
    BY <2>3
  <2>5. Repeats(f, a, g, k)
    BY <2>4 DEF Repeats
  <2> QED
    BY <2>5
<1> QED
  BY <1>4, <1>5

\* The script of an item of a list, and where the next item begins.
ItemAt(data, p, before, behind, q) ==
    /\ p \in DOMAIN data
    /\ \E len \in Nat, at \in Nat :
         Read(data, p + before, len, at) /\ q = at + len + behind

\* Where the items begin, and what follows the last.
Begins(data, at, n, before, behind) ==
    \A i \in 1 .. n : ItemAt(data, at[i - 1], before, behind, at[i])

Parsed(items, n, at) ==
    items.count = n /\ \A i \in 0 .. n : items.at[i] = at[i]

LEMMA ItemsParsed ==
  ASSUME NEW data, NEW pos \in Nat, NEW before \in Nat, NEW behind \in Nat, NEW n \in Nat,
         NEW start \in Nat, Read(data, pos, n, start),
         NEW at, at[0] = start, Begins(data, at, n, before, behind)
  PROVE  Parsed(Items(data, pos, before, behind), n, at)
<1> DEFINE g == [p \in DOMAIN data |->
                   LET script == read_varint(data)[p + before]
                   IN  script.pos + script.value + behind]
           f == CHOOSE f : Repeats(f, start, g, n)
<1>1. read_varint(data)[pos] = [value |-> n, pos |-> start]
  BY DEF Read
<1>2. Items(data, pos, before, behind) = [count |-> n, at |-> f]
  BY <1>1 DEF Items, Repeats
<1>3. Repeats(f, start, g, n)
  BY RepeatsExist
<1>4. \A i \in 1 .. n : g[at[i - 1]] = at[i]
  <2> SUFFICES ASSUME NEW i \in 1 .. n PROVE g[at[i - 1]] = at[i]
    OBVIOUS
  <2>1. PICK p : p = at[i - 1]
    OBVIOUS
  <2>2. ItemAt(data, p, before, behind, at[i])
    BY <2>1 DEF Begins
  <2>3. PICK len \in Nat, q \in Nat : /\ Read(data, p + before, len, q)
                                     /\ at[i] = q + len + behind
    BY <2>2 DEF ItemAt
  <2>4. p \in DOMAIN data
    BY <2>2 DEF ItemAt
  <2>5. read_varint(data)[p + before] = [value |-> len, pos |-> q]
    BY <2>3 DEF Read
  <2> QED
    BY <2>1, <2>3, <2>4, <2>5
<1> HIDE DEF f, g
<1> DEFINE Q == {i \in 0 .. n : f[i] = at[i]}
<1>5. f[0] = start /\ \A i \in 1 .. n : f[i] = g[f[i - 1]]
  BY <1>3 DEF Repeats
<1>6. 0 \in Q
  BY <1>5
<1>7. \A i \in 1 .. n : i - 1 \in Q => i \in Q
  BY <1>4, <1>5
<1>8. \A i \in 0 .. n : i \in Q
  <2> HIDE DEF Q
  <2> QED
    BY <1>6, <1>7, CountUp
<1> QED
  BY <1>2, <1>8 DEF Parsed

-----------------------------------------------------------------------------
(* Sequences written one behind the other *)

Flattens(f, seqs, k) == f = [i \in 1 .. k |-> IF i = 1 THEN seqs[i] ELSE f[i - 1] \o seqs[i]]

LEMMA FlattensExist ==
  ASSUME NEW seqs, NEW n \in Nat
  PROVE  \E f : Flattens(f, seqs, n)
<1> DEFINE S == {k \in Nat : ~ \E f : Flattens(f, seqs, k)}
<1>1. SUFFICES ASSUME S # {} PROVE FALSE
  OBVIOUS
<1>2. S \in SUBSET Nat
  OBVIOUS
<1>3. PICK k \in S : \A j \in S : ~ (j < k)
  <2> HIDE DEF S
  <2> QED
    BY <1>1, <1>2, Least
<1>4. CASE k = 0
  <2> DEFINE f == [i \in 1 .. 0 |-> seqs[i]]
  <2>1. Flattens(f, seqs, 0)
    BY DEF Flattens
  <2> QED
    BY <1>4, <2>1
<1>5. CASE k # 0
  <2>1. PICK h : Flattens(h, seqs, k - 1)
    BY <1>3, <1>5
  <2> DEFINE f == [i \in 1 .. k |-> IF i = 1 THEN seqs[i] ELSE h[i - 1] \o seqs[i]]
  <2>2. \A i \in 1 .. k - 1 : h[i] = f[i]
    <3>1. \A i \in 1 .. k - 1 : i \in 1 .. k
      OBVIOUS
    <3> QED
      BY <2>1, <3>1 DEF Flattens
  <2>3. \A i \in 1 .. k : i # 1 => h[i - 1] = f[i - 1]
    <3> HIDE DEF f
    <3>1. k \in Nat
      OBVIOUS
    <3>2. \A i \in 1 .. k : i # 1 => i - 1 \in 1 .. k - 1
      BY <3>1
    <3> QED
      BY <2>2, <3>2
  <2>4. f = [i \in 1 .. k |-> IF i = 1 THEN seqs[i] ELSE f[i - 1] \o seqs[i]]
    BY <2>3
  <2>5. Flattens(f, seqs, k)
    BY <2>4 DEF Flattens
  <2> QED
    BY <2>5
<1> QED
  BY <1>4, <1>5

\* Each sequence continues data where the one before it ends.
LEMMA FlattenStrings ==
  ASSUME NEW Cell, NEW seqs \in Seq(Seq(Cell)), Len(seqs) > 0, NEW few \in Nat
  PROVE  /\ FlattenSeq(seqs) \in Seq(Cell)
         /\ \E off \in [0 .. Len(seqs) -> Nat] :
              /\ off[0] = few /\ off[Len(seqs)] = few + Len(FlattenSeq(seqs))
              /\ \A i \in 1 .. Len(seqs) : off[i] = off[i - 1] + Len(seqs[i])
              /\ \A data : Continues(data, few, FlattenSeq(seqs))
                             <=> \A i \in 1 .. Len(seqs) : Continues(data, off[i - 1], seqs[i])
<1>1. PICK n \in Nat : n = Len(seqs) /\ n > 0
  BY LenProperties
<1> DEFINE f == CHOOSE f : Flattens(f, seqs, n)
<1>2. FlattenSeq(seqs) = f[n]
  BY <1>1 DEF FlattenSeq, Flattens
<1>3. Flattens(f, seqs, n)
  BY FlattensExist
<1> HIDE DEF f
<1>4. \A i \in 1 .. n : seqs[i] \in Seq(Cell)
  BY <1>1
<1>5. f[1] = seqs[1] /\ \A i \in 1 .. n : i # 1 => f[i] = f[i - 1] \o seqs[i]
  <2>1. 1 \in 1 .. n
    BY <1>1
  <2> QED
    BY <1>3, <2>1 DEF Flattens
<1> DEFINE off == [i \in 0 .. n |-> IF i = 0 THEN few ELSE few + Len(f[i])]
           All(data, k) == \A i \in 1 .. k : Continues(data, off[i - 1], seqs[i])
           Q == {i \in 0 .. n - 1 :
                   /\ f[i + 1] \in Seq(Cell)
                   /\ off[i + 1] \in Nat /\ off[i + 1] = off[i] + Len(seqs[i + 1])
                   /\ \A data : Continues(data, few, f[i + 1]) <=> All(data, i + 1)}
<1>6. off[0] = few /\ \A i \in 1 .. n : off[i] = few + Len(f[i])
  BY <1>1
<1> HIDE DEF off
<1>7. 0 \in Q
  <2>1. f[1] \in Seq(Cell) /\ Len(f[1]) \in Nat /\ f[1] = seqs[1]
    BY <1>1, <1>4, <1>5
  <2>2. off[1] = few + Len(f[1])
    BY <1>1, <1>6
  <2>3. \A data : Continues(data, few, f[1]) <=> All(data, 1)
    BY <1>6, <2>1
  <2> QED
    BY <1>1, <1>6, <2>1, <2>2, <2>3
<1>8. ASSUME NEW i \in 1 .. n - 1, i - 1 \in Q PROVE i \in Q
  <2>1. PICK j \in 1 .. n : j # 1 /\ j = i + 1 /\ j - 1 = i /\ (i - 1) + 1 = i
    <3>1. i + 1 \in 1 .. n /\ i + 1 # 1 /\ (i + 1) - 1 = i /\ (i - 1) + 1 = i
      BY <1>1
    <3> QED
      BY <3>1
  <2>2. /\ f[i] \in Seq(Cell)
        /\ \A data : Continues(data, few, f[i]) <=> All(data, i)
    BY <1>8, <2>1
  <2>3. f[j] = f[i] \o seqs[j] /\ seqs[j] \in Seq(Cell)
    <3> HIDE DEF Q
    <3> QED
      BY <1>4, <1>5, <2>1
  <2>4. /\ f[j] \in Seq(Cell) /\ Len(f[j]) = Len(f[i]) + Len(seqs[j])
        /\ Len(f[i]) \in Nat /\ Len(seqs[j]) \in Nat
    BY <2>2, <2>3, ConcatProperties, LenProperties
  <2>5. off[i] = few + Len(f[i]) /\ off[j] = few + Len(f[j])
    BY <1>1, <1>6, <2>1
  <2>6. off[j] = off[i] + Len(seqs[j]) /\ off[j] \in Nat
    <3>1. PICK a \in Nat, b \in Nat : a = Len(f[i]) /\ b = Len(seqs[j])
      BY <2>4
    <3>2. off[i] = few + a /\ off[j] = few + (a + b)
      BY <2>4, <2>5, <3>1
    <3>3. few + (a + b) = (few + a) + b /\ few + (a + b) \in Nat
      OBVIOUS
    <3> QED
      BY <3>1, <3>2, <3>3
  <2>7. ASSUME NEW data PROVE Continues(data, few, f[j]) <=> All(data, j)
    <3>1. Continues(data, few, f[j])
             <=> Continues(data, few, f[i]) /\ Continues(data, off[i], seqs[j])
      <4>1. PICK x \in Seq(Cell), y \in Seq(Cell) : x = f[i] /\ y = seqs[j]
        BY <2>2, <2>3
      <4>2. Continues(data, few, x \o y)
               <=> Continues(data, few, x) /\ Continues(data, few + Len(x), y)
        BY Parts
      <4> QED
        BY <2>3, <2>5, <4>1, <4>2
    <3>2. All(data, j) <=> All(data, i) /\ Continues(data, off[j - 1], seqs[j])
      BY <2>1
    <3> QED
      BY <2>1, <2>2, <3>1, <3>2
  <2> QED
    BY <2>1, <2>4, <2>6, <2>7
<1>9. \A i \in 0 .. n - 1 : i \in Q
  <2>1. n - 1 \in Nat
    BY <1>1
  <2> HIDE DEF Q
  <2> QED
    BY <1>7, <1>8, <2>1, CountUp
<1>10. \A i \in 1 .. n : i - 1 \in Q /\ (i - 1) + 1 = i
  <2> HIDE DEF Q
  <2> QED
    BY <1>1, <1>9
<1>11. \A i \in 1 .. n : /\ f[i] \in Seq(Cell) /\ off[i] \in Nat
                         /\ off[i] = off[i - 1] + Len(seqs[i])
                         /\ \A data : Continues(data, few, f[i]) <=> All(data, i)
  BY <1>10
<1> HIDE DEF Q
<1>12. off \in [0 .. n -> Nat]
  <2>1. \A i \in 0 .. n : off[i] \in Nat
    BY <1>6, <1>11
  <2> QED
    BY <2>1 DEF off
<1>13. n \in 1 .. n
  BY <1>1
<1> QED
  BY <1>1, <1>2, <1>6, <1>11, <1>12, <1>13

LEMMA FlattenType ==
  ASSUME NEW Cell, NEW seqs \in Seq(Seq(Cell)), Len(seqs) > 0
  PROVE  FlattenSeq(seqs) \in Seq(Cell)
<1>1. 0 \in Nat
  OBVIOUS
<1> QED
  BY <1>1, FlattenStrings

-----------------------------------------------------------------------------
(* The coinbase *)

LEMMA FieldBytes ==
  ASSUME NEW n \in Nat, NEW width \in Nat \ {0}
  PROVE  Field(n, width) \in Seq(Nat) /\ Len(Field(n, width)) = width /\ Field(n, width)[1] = n
<1>1. PICK rest : rest = [i \in 1 .. width - 1 |-> 0]
  OBVIOUS
<1>2. rest \in Seq(Nat) /\ Len(rest) = width - 1
  BY <1>1
<1>3. <<n>> \in Seq(Nat) /\ Len(<<n>>) = 1 /\ <<n>>[1] = n
  OBVIOUS
<1>4. PICK first \in Seq(Nat) : first = <<n>>
  BY <1>3
<1>5. /\ first \o rest \in Seq(Nat) /\ Len(first \o rest) = Len(first) + Len(rest)
      /\ \A i \in 1 .. Len(first) + Len(rest) : (first \o rest)[i] =
            IF i <= Len(first) THEN first[i] ELSE rest[i - Len(first)]
  BY <1>2, ConcatProperties
<1>6. Field(n, width) = first \o rest
  BY <1>1, <1>4 DEF Field
<1> QED
  BY <1>2, <1>3, <1>4, <1>5, <1>6

LEMMA Wider ==
  ASSUME NEW Cell, Nat \subseteq Cell, NEW s \in Seq(Nat)
  PROVE  s \in Seq(Cell)
<1>1. Len(s) \in Nat /\ s \in [1 .. Len(s) -> Nat]
  BY LenProperties
<1>2. s \in [1 .. Len(s) -> Cell]
  BY <1>1
<1> QED
  BY <1>1, <1>2, SeqDef

LEMMA FieldIs ==
  ASSUME NEW Cell, Nat \subseteq Cell, NEW n \in Nat, NEW width \in Nat \ {0}
  PROVE  \E a \in Seq(Cell) : a = Field(n, width) /\ Len(a) = width /\ a[1] = n
<1>1. Field(n, width) \in Seq(Nat) /\ Len(Field(n, width)) = width /\ Field(n, width)[1] = n
  BY FieldBytes
<1>2. Field(n, width) \in Seq(Cell)
  BY <1>1, Wider, Zenon
<1> QED
  BY <1>1, <1>2

LEMMA VarintCells ==
  ASSUME NEW Cell, Nat \subseteq Cell, NEW n \in Nat
  PROVE  \E a \in Seq(Cell) : a = varint(n) /\ Len(a) \in Nat
<1>1. varint(n) \in Seq(Nat) /\ Len(varint(n)) \in Nat
  BY VarintBytes
<1>2. varint(n) \in Seq(Cell)
  BY <1>1, Wider, Zenon
<1> QED
  BY <1>1, <1>2

\* A length that two bytes can hold.
IsShort(n) == n < 65536

LEMMA ShortFits ==
  ASSUME NEW n \in Nat, IsShort(n)
  PROVE  Fits(n)
<1>0. n < 65536
  BY DEF IsShort
<1>1. n \div 65536 = 0
  BY <1>0, Halves
<1>2. 0 \div 65536 = 0
  BY Halves
<1> QED
  BY <1>1, <1>2 DEF Fits

\* What build_coinbase_tx is given for an output.
IsOutput(o, Cell) ==
    /\ o = [value |-> o.value, script |-> o.script]
    /\ o.value \in Nat /\ o.script \in Seq(Cell) /\ IsShort(Len(o.script))

\* Where the script of an output begins that stands behind the first few bytes.
ScriptFrom(few, o) == few + 8 + Len(varint(Len(o.script)))

\* An output is written as its value, the length of its script, the script.
OutputIs(o, Cell, a, b, ab, c) ==
    /\ a \in Seq(Cell) /\ Len(a) = 8 /\ a[1] = o.value /\ a = Field(o.value, 8)
    /\ b \in Seq(Cell) /\ b = varint(Len(o.script)) /\ Len(b) \in Nat
    /\ ab \in Seq(Cell) /\ ab = a \o b /\ Len(ab) = 8 + Len(b)
    /\ c \in Seq(Cell) /\ c = o.script /\ Len(c) \in Nat /\ IsShort(Len(c))
    /\ write_output(o) = ab \o c

LEMMA OutputParts ==
  ASSUME NEW Cell, Nat \subseteq Cell, NEW o, IsOutput(o, Cell)
  PROVE  \E a, b, ab, c : OutputIs(o, Cell, a, b, ab, c)
<1> DEFINE a == Field(o.value, 8)
           c == o.script
           b == varint(Len(c))
           ab == a \o b
<1>1. a \in Seq(Cell) /\ Len(a) = 8 /\ a[1] = o.value /\ a = Field(o.value, 8)
  <2>1. 8 \in Nat \ {0} /\ o.value \in Nat
    BY DEF IsOutput
  <2> HIDE DEF a
  <2>2. \E f \in Seq(Cell) : f = Field(o.value, 8) /\ Len(f) = 8 /\ f[1] = o.value
    BY <2>1, FieldIs, Zenon
  <2> QED
    BY <2>2, Zenon DEF a
<1>2. c \in Seq(Cell) /\ c = o.script /\ Len(c) \in Nat /\ IsShort(Len(c))
  BY LenProperties DEF IsOutput
<1> HIDE DEF c
<1>3. b \in Seq(Cell) /\ b = varint(Len(o.script)) /\ Len(b) \in Nat
  <2>1. \E f \in Seq(Cell) : f = varint(Len(c)) /\ Len(f) \in Nat
    BY <1>2, VarintCells, Zenon
  <2>2. b = varint(Len(c)) /\ Len(c) = Len(o.script)
    BY DEF c
  <2> HIDE DEF b
  <2> QED
    BY <2>1, <2>2, Zenon
<1> HIDE DEF a, b
<1>4. ab \in Seq(Cell) /\ ab = a \o b /\ Len(ab) = 8 + Len(b)
  <2>1. ab \in Seq(Cell) /\ Len(ab) = Len(a) + Len(b)
    BY <1>1, <1>3, ConcatProperties, Zenon
  <2> HIDE DEF ab
  <2>2. ab = a \o b
    BY DEF ab
  <2> QED
    BY <1>1, <2>1, <2>2
<1>5. write_output(o) = ab \o c
  BY Zenon DEF write_output, a, b, c
<1> HIDE DEF ab
<1> QED
  BY <1>1, <1>2, <1>3, <1>4, <1>5, Zenon DEF OutputIs

LEMMA OutputBytes ==
  ASSUME NEW Cell, Nat \subseteq Cell, NEW o, IsOutput(o, Cell)
  PROVE  /\ write_output(o) \in Seq(Cell) /\ Len(write_output(o)) \in Nat
         /\ Len(o.script) \in Nat /\ Len(varint(Len(o.script))) \in Nat
         /\ Len(write_output(o)) = 8 + Len(varint(Len(o.script))) + Len(o.script)
<1>1. PICK a, b, ab, c : OutputIs(o, Cell, a, b, ab, c)
  BY OutputParts, Zenon
<1>2. ab \o c \in Seq(Cell) /\ Len(ab \o c) = Len(ab) + Len(c)
  <2>1. ab \in Seq(Cell) /\ c \in Seq(Cell)
    BY <1>1, Zenon DEF OutputIs
  <2> QED
    BY <2>1, ConcatProperties, Zenon
<1>3. /\ Len(b) \in Nat /\ Len(c) \in Nat /\ Len(ab) = 8 + Len(b)
      /\ b = varint(Len(o.script)) /\ c = o.script /\ write_output(o) = ab \o c
  BY <1>1, Zenon DEF OutputIs
<1>4. Len(ab \o c) = 8 + Len(b) + Len(c) /\ 8 + Len(b) + Len(c) \in Nat
  <2>1. Len(b) \in Nat /\ Len(c) \in Nat
    BY <1>3, Zenon
  <2>2. 8 + Len(b) + Len(c) \in Nat
    BY <2>1
  <2> QED
    BY <1>2, <1>3, <2>2, Zenon
<1> QED
  BY <1>2, <1>3, <1>4, Zenon

\* An output that stands behind the first few bytes, as a parser finds it.
OutputIn(data, few, o) ==
    /\ few + 1 \in DOMAIN data /\ data[few + 1] = o.value
    /\ Read(data, few + 9, Len(o.script), ScriptFrom(few, o) + 1)
    /\ Continues(data, ScriptFrom(few, o), o.script)

LEMMA OutputReads ==
  ASSUME NEW Cell, Nat \subseteq Cell, NEW o, IsOutput(o, Cell),
         NEW data, NEW few \in Nat, Continues(data, few, write_output(o))
  PROVE  OutputIn(data, few, o)
<1>1. PICK a, b, ab, c : OutputIs(o, Cell, a, b, ab, c)
  BY OutputParts, Zenon
<1>2. /\ a \in Seq(Cell) /\ b \in Seq(Cell) /\ ab \in Seq(Cell) /\ c \in Seq(Cell)
      /\ Len(a) = 8 /\ a[1] = o.value /\ ab = a \o b /\ Len(ab) = 8 + Len(b)
      /\ Len(b) \in Nat /\ Len(c) \in Nat /\ IsShort(Len(c))
      /\ b = varint(Len(o.script)) /\ c = o.script /\ write_output(o) = ab \o c
  BY <1>1, Zenon DEF OutputIs
<1>3. Continues(data, few, ab) /\ Continues(data, few + Len(ab), c)
  <2>1. Continues(data, few, ab \o c)
    BY <1>2, Zenon
  <2> QED
    BY <1>2, <2>1, Parts, Zenon
<1>4. Continues(data, few, a) /\ Continues(data, few + Len(a), b)
  <2>1. Continues(data, few, a \o b)
    BY <1>2, <1>3, Zenon
  <2> QED
    BY <1>2, <2>1, Parts, Zenon
<1>5. few + 1 \in DOMAIN data /\ data[few + 1] = o.value
  <2>1. 1 \in 1 .. Len(a)
    BY <1>2
  <2> QED
    BY <1>2, <1>4, <2>1 DEF Continues
<1> DEFINE from == few + 8
           n == Len(c)
<1>6. from \in Nat /\ n \in Nat /\ IsShort(n)
  BY <1>2
<1>7. Read(data, from + 1, n, from + 1 + Len(varint(n)))
  <2>1. from = few + Len(a)
    BY <1>2
  <2>2. n = Len(o.script)
    BY <1>2
  <2>3. Fits(n)
    BY <1>6, ShortFits, Zenon
  <2> HIDE DEF from, n
  <2>4. Continues(data, from, varint(n))
    BY <1>2, <1>4, <2>1, <2>2, Zenon
  <2> QED
    BY <1>6, <2>3, <2>4, VarintReads, Zenon
<1>8. Len(varint(n)) = Len(b) /\ n = Len(o.script)
  BY <1>2, Zenon
<1>9. ScriptFrom(few, o) = few + 8 + Len(b)
  BY <1>2, Zenon DEF ScriptFrom
<1>10. /\ from + 1 = few + 9 /\ from + 1 + Len(b) = ScriptFrom(few, o) + 1
       /\ few + Len(ab) = ScriptFrom(few, o)
  BY <1>2, <1>9
<1> HIDE DEF from, n
<1> QED
  BY <1>2, <1>3, <1>5, <1>7, <1>8, <1>10, Zenon DEF OutputIn

Preamble(sig, n) == Field(2, 4) \o varint(1) \o write_input(sig) \o varint(n)
Ending(stack) ==
    (IF stack = <<>> THEN <<>>
     ELSE <<0, 1>> \o varint(1) \o varint(Len(stack))
            \o FlattenSeq([i \in DOMAIN stack |-> varint(1) \o <<stack[i]>>]))

LEMMA SerializedIs ==
  ASSUME NEW sig, NEW outputs, NEW stack
  PROVE  serialize_segwit_tx(sig, outputs, stack) =
            Preamble(sig, Len(outputs))
              \o FlattenSeq([i \in DOMAIN outputs |-> write_output(outputs[i])])
              \o Ending(stack) \o Field(0, 4)
  BY Zenon DEF serialize_segwit_tx, Preamble, Ending

\* A transaction of one input, with that script, and without a marker.
Opens(data, sig) ==
    /\ 5 \in DOMAIN data /\ 6 \in DOMAIN data /\ data[5] = 1 /\ data[6] = 0
    /\ Read(data, 42, Len(sig), 42 + Len(varint(Len(sig))))
    /\ Continues(data, 41 + Len(varint(Len(sig))), sig)

\* What a parser that starts at the fifth byte finds: one input, then as many
\* outputs as there are.
LEMMA PreambleReads ==
  ASSUME NEW Cell, Nat \subseteq Cell, NEW sig \in Seq(Cell), IsShort(Len(sig)),
         NEW n \in Nat, IsShort(n)
  PROVE  /\ Preamble(sig, n) \in Seq(Cell) /\ Len(Preamble(sig, n)) \in Nat
         /\ \A data : Continues(data, 0, Preamble(sig, n)) => Opens(data, sig)
         /\ \A data : Continues(data, 0, Preamble(sig, n)) =>
              \E pos \in Nat : /\ End(Inputs(data)) = pos
                               /\ Read(data, pos, n, Len(Preamble(sig, n)) + 1)
<1> DEFINE a == Field(2, 4)
           b == varint(1)
           c == Field(0, 36)
           m == Len(sig)
           d == varint(m)
           e == Field(255, 4)
           f == varint(n)
           ab == a \o b
           cd == c \o d
           cds == cd \o sig
           g == cds \o e
           abg == ab \o g
<1>0. 2 \in Nat /\ 0 \in Nat /\ 4 \in Nat \ {0} /\ 36 \in Nat \ {0}
  OBVIOUS
<1>1. /\ a \in Seq(Cell) /\ Len(a) = 4
      /\ c \in Seq(Cell) /\ Len(c) = 36 /\ c[1] = 0
      /\ e \in Seq(Cell) /\ Len(e) = 4
  <2>1. \E x \in Seq(Cell) : x = Field(2, 4) /\ Len(x) = 4 /\ x[1] = 2
    BY <1>0, FieldIs
  <2>2. \E x \in Seq(Cell) : x = Field(0, 36) /\ Len(x) = 36 /\ x[1] = 0
    BY <1>0, FieldIs
  <2>3. e \in Seq(Cell) /\ Len(e) = 4
    <3> DEFINE last == 255
    <3>1. last \in Nat /\ e = Field(last, 4)
      OBVIOUS
    <3> HIDE DEF last, e
    <3>2. \E x \in Seq(Cell) : x = Field(last, 4) /\ Len(x) = 4 /\ x[1] = last
      BY <1>0, <3>1, FieldIs, Zenon
    <3> QED
      BY <3>1, <3>2, Zenon
  <2> HIDE DEF e
  <2> QED
    BY <2>1, <2>2, <2>3, Zenon
<1>2. b \in Seq(Cell) /\ Len(b) = 1 /\ b[1] = 1
  <2>1. b = <<1>>
    BY DEF varint, IsOneByte
  <2> DEFINE one == <<1>>
  <2>2. one \in Seq(Nat) /\ Len(one) = 1 /\ one[1] = 1
    OBVIOUS
  <2>3. b \in Seq(Nat) /\ Len(b) = 1 /\ b[1] = 1
    BY <2>1, <2>2, Zenon
  <2> QED
    BY <2>3, Wider, Zenon
<1>3. m \in Nat /\ IsShort(m)
  BY LenProperties
<1>4. d \in Seq(Cell) /\ Len(d) \in Nat /\ f \in Seq(Cell) /\ Len(f) \in Nat
  <2> HIDE DEF m
  <2>1. \E x \in Seq(Cell) : x = varint(m) /\ Len(x) \in Nat
    BY <1>3, VarintCells, Zenon
  <2>2. \E x \in Seq(Cell) : x = varint(n) /\ Len(x) \in Nat
    BY VarintCells, Zenon
  <2> QED
    BY <2>1, <2>2, Zenon
<1> HIDE DEF a, b, c, d, e, f
<1>8. ab \in Seq(Cell) /\ Len(ab) = 5
  <2>1. ab \in Seq(Cell) /\ Len(ab) = Len(a) + Len(b)
    BY <1>1, <1>2, ConcatProperties, Zenon
  <2>2. 4 + 1 = 5
    OBVIOUS
  <2> QED
    BY <1>1, <1>2, <2>1, <2>2, Zenon
<1>9. cd \in Seq(Cell) /\ Len(cd) = 36 + Len(d)
  <2>1. cd \in Seq(Cell) /\ Len(cd) = Len(c) + Len(d)
    BY <1>1, <1>4, ConcatProperties, Zenon
  <2> QED
    BY <1>1, <2>1, Zenon
<1> HIDE DEF ab, cd
<1>10. cds \in Seq(Cell) /\ Len(cds) = 36 + Len(d) + m
  <2>1. cds \in Seq(Cell) /\ Len(cds) = Len(cd) + Len(sig)
    BY <1>9, ConcatProperties, Zenon
  <2> QED
    BY <1>9, <2>1, Zenon
<1> HIDE DEF cds
<1>11. g \in Seq(Cell) /\ Len(g) = 40 + Len(d) + m
  <2>1. g \in Seq(Cell) /\ Len(g) = Len(cds) + Len(e)
    BY <1>1, <1>10, ConcatProperties, Zenon
  <2>2. 36 + Len(d) + m + 4 = 40 + Len(d) + m
    BY <1>3, <1>4
  <2> HIDE DEF g
  <2> QED
    BY <1>1, <1>10, <2>1, <2>2, Zenon
<1>12. g = write_input(sig)
  BY Zenon DEF write_input, cds, cd, c, d, e
<1> HIDE DEF g
<1>13. abg \in Seq(Cell) /\ Len(abg) = 45 + Len(d) + m
  <2>1. abg \in Seq(Cell) /\ Len(abg) = Len(ab) + Len(g)
    BY <1>8, <1>11, ConcatProperties, Zenon
  <2>2. 5 + (40 + Len(d) + m) = 45 + Len(d) + m
    BY <1>3, <1>4
  <2> HIDE DEF abg
  <2> QED
    BY <1>8, <1>11, <2>1, <2>2, Zenon
<1>14. /\ Preamble(sig, n) = abg \o f /\ abg \o f \in Seq(Cell)
       /\ Len(abg \o f) = 45 + Len(d) + m + Len(f)
  <2>1. Preamble(sig, n) = abg \o f
    BY <1>12, Zenon DEF Preamble, ab, a, b, f
  <2> HIDE DEF abg
  <2>2. abg \o f \in Seq(Cell) /\ Len(abg \o f) = Len(abg) + Len(f)
    BY <1>4, <1>13, ConcatProperties, Zenon
  <2> QED
    BY <1>13, <2>1, <2>2, Zenon
<1> HIDE DEF m
<1>15. ASSUME NEW data, Continues(data, 0, Preamble(sig, n))
       PROVE  /\ Opens(data, sig)
              /\ \E pos \in Nat : /\ End(Inputs(data)) = pos
                                  /\ Read(data, pos, n, Len(Preamble(sig, n)) + 1)
  <2>1. Continues(data, 0, abg) /\ Continues(data, 45 + Len(d) + m, f)
    <3>1. Continues(data, 0, abg \o f)
      BY <1>14, <1>15, Zenon
    <3>2. Continues(data, 0, abg) /\ Continues(data, 0 + Len(abg), f)
      BY <1>4, <1>13, <3>1, Parts, Zenon
    <3>3. 0 + Len(abg) = 45 + Len(d) + m
      BY <1>3, <1>4, <1>13
    <3> QED
      BY <3>2, <3>3, Zenon
  <2>2. Continues(data, 0, ab) /\ Continues(data, 5, g)
    <3>1. Continues(data, 0, ab) /\ Continues(data, 0 + Len(ab), g)
      BY <1>8, <1>11, <2>1, Parts, Zenon DEF abg
    <3>2. 0 + Len(ab) = 5
      BY <1>8
    <3> QED
      BY <3>1, <3>2, Zenon
  <2>3. Continues(data, 4, b)
    <3>1. Continues(data, 0 + Len(a), b)
      BY <1>1, <1>2, <2>2, Parts, Zenon DEF ab
    <3>2. 0 + Len(a) = 4
      BY <1>1
    <3> QED
      BY <3>1, <3>2, Zenon
  <2>4. Continues(data, 5, cds)
    BY <1>1, <1>10, <2>2, Parts, Zenon DEF g
  <2>5. Continues(data, 5, cd)
    BY <1>9, <2>4, Parts, Zenon DEF cds
  <2>6. Continues(data, 5, c) /\ Continues(data, 41, d)
    <3>1. Continues(data, 5, c) /\ Continues(data, 5 + Len(c), d)
      BY <1>1, <1>4, <2>5, Parts, Zenon DEF cd
    <3>2. 5 + Len(c) = 41
      BY <1>1
    <3> QED
      BY <3>1, <3>2, Zenon
  <2>7. Read(data, 5, 1, 6)
    <3>1. Fits(1) /\ 4 \in Nat /\ 1 \in Nat
      BY ShortFits DEF IsShort
    <3>2. Read(data, 4 + 1, 1, 4 + 1 + Len(varint(1)))
      BY <2>3, <3>1, VarintReads, Zenon DEF b
    <3>3. 4 + 1 = 5 /\ 4 + 1 + Len(b) = 6
      BY <1>2
    <3> QED
      BY <3>2, <3>3, Zenon DEF b
  <2>8. Read(data, 42, m, 42 + Len(d))
    <3>1. Fits(m) /\ 41 \in Nat
      BY <1>3, ShortFits
    <3>2. Read(data, 41 + 1, m, 41 + 1 + Len(varint(m)))
      BY <1>3, <2>6, <3>1, VarintReads, Zenon DEF d
    <3>3. 41 + 1 = 42
      OBVIOUS
    <3> QED
      BY <3>2, <3>3, Zenon DEF d
  <2> DEFINE pos == 46 + Len(d) + m
             at == [i \in 0 .. 1 |-> IF i = 0 THEN 6 ELSE pos]
  <2>9. pos \in Nat
    BY <1>3, <1>4
  <2>10. at[0] = 6 /\ at[1] = pos /\ \A i \in 1 .. 1 : i = 1 /\ i - 1 = 0
    <3> HIDE DEF pos
    <3> QED
      OBVIOUS
  <2>11. 6 \in DOMAIN data
    <3>1. 1 \in 1 .. Len(c) /\ 5 + 1 = 6
      BY <1>1
    <3> QED
      BY <1>1, <2>6, <3>1 DEF Continues
  <2>12. ItemAt(data, 6, 36, 4, pos)
    <3>1. 42 + Len(d) \in Nat /\ 6 + 36 = 42
      BY <1>4
    <3>2. pos = (42 + Len(d)) + m + 4
      BY <1>3, <1>4
    <3> HIDE DEF pos
    <3>3. /\ m \in Nat /\ 42 + Len(d) \in Nat /\ Read(data, 6 + 36, m, 42 + Len(d))
          /\ pos = (42 + Len(d)) + m + 4
      BY <1>3, <2>8, <3>1, <3>2, Zenon
    <3> QED
      BY <2>11, <3>3, Zenon DEF ItemAt
  <2> HIDE DEF at, pos
  <2>13. Begins(data, at, 1, 36, 4)
    BY <2>10, <2>12 DEF Begins
  <2>14. Parsed(Items(data, 5, 36, 4), 1, at)
    <3>1. 5 \in Nat /\ 36 \in Nat /\ 4 \in Nat /\ 1 \in Nat /\ 6 \in Nat
      OBVIOUS
    <3> QED
      BY <2>7, <2>10, <2>13, <3>1, ItemsParsed, Zenon
  <2>15. End(Inputs(data)) = pos
    <3> DEFINE items == Items(data, 5, 36, 4)
    <3>1. 1 \in 0 .. 1 /\ items.count = 1 /\ \A i \in 0 .. 1 : items.at[i] = at[i]
      BY <2>14 DEF Parsed
    <3>2. End(Inputs(data)) = items.at[items.count]
      BY DEF End, Inputs
    <3> HIDE DEF items
    <3> QED
      BY <2>10, <3>1, <3>2
  <2>16. Read(data, pos, n, Len(Preamble(sig, n)) + 1)
    <3> DEFINE k == 45 + Len(d) + m
    <3>1. /\ k \in Nat /\ k + 1 = pos
          /\ k + 1 + Len(f) = (45 + Len(d) + m + Len(f)) + 1
      BY <1>3, <1>4 DEF pos
    <3>2. Fits(n)
      BY ShortFits
    <3> HIDE DEF k
    <3>3. Continues(data, k, varint(n))
      BY <2>1, Zenon DEF f, k
    <3>4. Read(data, k + 1, n, k + 1 + Len(varint(n)))
      BY <3>1, <3>2, <3>3, VarintReads, Zenon
    <3>5. k + 1 + Len(varint(n)) = Len(Preamble(sig, n)) + 1
      BY <1>14, <3>1, Zenon DEF f
    <3> QED
      BY <3>1, <3>4, <3>5, Zenon
  <2>17. Opens(data, sig)
    <3>1. 5 \in DOMAIN data /\ data[5] = 1
      <4>1. 1 \in 1 .. Len(b) /\ 4 + 1 = 5
        BY <1>2
      <4> QED
        BY <1>2, <2>3, <4>1, Zenon DEF Continues
    <3>2. 6 \in DOMAIN data /\ data[6] = 0
      <4>1. 1 \in 1 .. Len(c) /\ 5 + 1 = 6
        BY <1>1
      <4> QED
        BY <1>1, <2>6, <4>1, Zenon DEF Continues
    <3>3. Continues(data, 41 + Len(d), sig)
      <4>1. Continues(data, 5 + Len(cd), sig)
        BY <1>9, <2>4, Parts, Zenon DEF cds
      <4>2. 5 + Len(cd) = 41 + Len(d)
        BY <1>4, <1>9
      <4> QED
        BY <4>1, <4>2, Zenon
    <3> QED
      BY <2>8, <3>1, <3>2, <3>3, Zenon DEF Opens, d, m
  <2> QED
    BY <2>9, <2>15, <2>16, <2>17, Zenon
<1>16. 45 + Len(d) + m + Len(f) \in Nat
  BY <1>3, <1>4
<1> QED
  BY <1>14, <1>15, <1>16, Zenon

\* A coinbase with that script and those outputs: off[i] bytes precede what
\* follows the first i outputs.
LaidOut(data, sig, outs, off) ==
    /\ off \in [0 .. Len(outs) -> Nat]
    /\ Continues(data, 0, Preamble(sig, Len(outs)))
    /\ off[0] = Len(Preamble(sig, Len(outs)))
    /\ \A i \in 1 .. Len(outs) :
         /\ off[i] = off[i - 1] + Len(write_output(outs[i]))
         /\ Continues(data, off[i - 1], write_output(outs[i]))

IsPayment(sig, outs, Cell) ==
    /\ Nat \subseteq Cell
    /\ sig \in Seq(Cell) /\ IsShort(Len(sig))
    /\ Len(outs) \in Nat \ {0} /\ IsShort(Len(outs))
    /\ outs = [i \in 1 .. Len(outs) |-> outs[i]]
    /\ \A i \in 1 .. Len(outs) : IsOutput(outs[i], Cell)

Written(outs) == [i \in DOMAIN outs |-> write_output(outs[i])]

\* The layout of the whole transaction.
IsWritten(tx, sig, outs, Cell) ==
    /\ tx \in Seq(Cell)
    /\ \E off : /\ LaidOut(tx, sig, outs, off)
                /\ off[Len(outs)] = Len(Preamble(sig, Len(outs))) + Len(FlattenSeq(Written(outs)))

LEMMA WrittenType ==
  ASSUME NEW Cell, NEW sig, NEW outs, IsPayment(sig, outs, Cell)
  PROVE  /\ Written(outs) \in Seq(Seq(Cell)) /\ Len(Written(outs)) = Len(outs)
         /\ Len(outs) \in Nat /\ Len(outs) > 0
         /\ \A i \in 1 .. Len(outs) : Written(outs)[i] = write_output(outs[i])
<1> DEFINE n == Len(outs)
<1>1. n \in Nat /\ n > 0 /\ Nat \subseteq Cell /\ \A i \in 1 .. n : IsOutput(outs[i], Cell)
  BY DEF IsPayment
<1>2. DOMAIN outs = 1 .. n
  BY DEF IsPayment
<1>3. \A i \in 1 .. n : write_output(outs[i]) \in Seq(Cell)
  BY <1>1, OutputBytes, Zenon
<1>4. Written(outs) = [i \in 1 .. n |-> write_output(outs[i])]
  BY <1>2, Zenon DEF Written
<1> HIDE DEF n
<1>5. Written(outs) \in [1 .. n -> Seq(Cell)]
  BY <1>3, <1>4
<1>6. Written(outs) \in Seq(Seq(Cell)) /\ Len(Written(outs)) = n
  BY <1>1, <1>5
<1>7. \A i \in 1 .. n : Written(outs)[i] = write_output(outs[i])
  BY <1>4
<1> QED
  BY <1>1, <1>6, <1>7 DEF n

LEMMA ContinuesItself ==
  ASSUME NEW Cell, NEW data \in Seq(Cell)
  PROVE  Continues(data, 0, data)
<1>1. Len(data) \in Nat /\ DOMAIN data = 1 .. Len(data)
  BY LenProperties
<1>2. \A i \in 1 .. Len(data) : 0 + i = i
  BY <1>1
<1> QED
  BY <1>1, <1>2 DEF Continues

LEMMA Layout ==
  ASSUME NEW Cell, NEW sig, NEW outs, IsPayment(sig, outs, Cell),
         NEW stack, Ending(stack) \in Seq(Cell)
  PROVE  IsWritten(serialize_segwit_tx(sig, outs, stack), sig, outs, Cell)
<1> DEFINE n == Len(outs)
           P == Preamble(sig, n)
           O == FlattenSeq(Written(outs))
           R == Ending(stack)
           Z == Field(0, 4)
           PO == P \o O
           POR == PO \o R
           tx == POR \o Z
<1>1. tx = serialize_segwit_tx(sig, outs, stack)
  BY SerializedIs, Zenon DEF Written
<1>2. P \in Seq(Cell) /\ Len(P) \in Nat
  BY PreambleReads DEF IsPayment
<1>3. Z \in Seq(Cell)
  <2>1. 0 \in Nat /\ 4 \in Nat \ {0} /\ Nat \subseteq Cell
    BY DEF IsPayment
  <2>2. \E x \in Seq(Cell) : x = Field(0, 4) /\ Len(x) = 4 /\ x[1] = 0
    BY <2>1, FieldIs
  <2> QED
    BY <2>2, Zenon
<1> HIDE DEF P, R, Z
<1>4. PICK off : /\ off \in [0 .. n -> Nat]
                 /\ off[0] = Len(P) /\ off[n] = Len(P) + Len(O) /\ O \in Seq(Cell)
                 /\ \A i \in 1 .. n : off[i] = off[i - 1] + Len(Written(outs)[i])
                 /\ \A data : Continues(data, Len(P), O)
                        <=> \A i \in 1 .. n : Continues(data, off[i - 1], Written(outs)[i])
  <2>1. Written(outs) \in Seq(Seq(Cell)) /\ Len(Written(outs)) = n /\ n > 0
    BY WrittenType, Zenon
  <2> DEFINE ws == Written(outs)
             few == Len(P)
  <2>2. few \in Nat /\ ws \in Seq(Seq(Cell)) /\ Len(ws) > 0
    BY <1>2, <2>1
  <2> HIDE DEF ws, few
  <2>3. /\ FlattenSeq(ws) \in Seq(Cell)
        /\ \E off \in [0 .. Len(ws) -> Nat] :
             /\ off[0] = few /\ off[Len(ws)] = few + Len(FlattenSeq(ws))
             /\ \A i \in 1 .. Len(ws) : off[i] = off[i - 1] + Len(ws[i])
             /\ \A data : Continues(data, few, FlattenSeq(ws))
                            <=> \A i \in 1 .. Len(ws) : Continues(data, off[i - 1], ws[i])
    BY <2>2, FlattenStrings, Zenon
  <2>4. Len(ws) = n
    BY <2>1 DEF ws
  <2> HIDE DEF n
  <2> QED
    BY <2>3, <2>4, Zenon DEF ws, few
<1> HIDE DEF O
<1>5. PO \in Seq(Cell)
  BY <1>2, <1>4, ConcatProperties, Zenon
<1> HIDE DEF PO
<1>6. POR \in Seq(Cell)
  BY <1>5, ConcatProperties, Zenon DEF R
<1> HIDE DEF POR
<1>7. tx \in Seq(Cell)
  BY <1>3, <1>6, ConcatProperties, Zenon
<1>8. Continues(tx, 0, POR)
  <2>1. Continues(tx, 0, tx)
    BY <1>7, ContinuesItself, Zenon
  <2> DEFINE data == tx
  <2>2. Continues(data, 0, POR \o Z)
    BY <2>1
  <2> HIDE DEF data
  <2>3. Continues(data, 0, POR)
    BY <1>3, <1>6, <2>2, Parts
  <2> QED
    BY <2>3 DEF data
<1>9. PICK data : data = tx
  OBVIOUS
<1> HIDE DEF tx
<1>10. Continues(data, 0, POR)
  BY <1>8, <1>9
<1>11. Continues(data, 0, PO)
  <2>1. R \in Seq(Cell) /\ 0 \in Nat
    BY DEF R
  <2> QED
    BY <1>5, <1>10, <2>1, Parts, Zenon DEF POR
<1>12. Continues(data, 0, P) /\ Continues(data, Len(P), O)
  <2>1. 0 \in Nat /\ 0 + Len(P) = Len(P)
    BY <1>2
  <2>2. Continues(data, 0, P) /\ Continues(data, 0 + Len(P), O)
    BY <1>2, <1>4, <1>11, <2>1, Parts, Zenon DEF PO
  <2> QED
    BY <2>1, <2>2
<1>13. \A i \in 1 .. n : Written(outs)[i] = write_output(outs[i])
  BY WrittenType, Zenon
<1>14. LaidOut(data, sig, outs, off)
  <2>1. off \in [0 .. Len(outs) -> Nat] /\ off[0] = Len(Preamble(sig, Len(outs)))
    BY <1>4, Zenon DEF P
  <2>2. Continues(data, 0, Preamble(sig, Len(outs)))
    BY <1>12, Zenon DEF P
  <2>3. \A i \in 1 .. Len(outs) :
         /\ off[i] = off[i - 1] + Len(write_output(outs[i]))
         /\ Continues(data, off[i - 1], write_output(outs[i]))
    BY <1>4, <1>12, <1>13, Zenon
  <2> QED
    BY <2>1, <2>2, <2>3, Zenon DEF LaidOut
<1>15. off[Len(outs)] = Len(Preamble(sig, Len(outs))) + Len(FlattenSeq(Written(outs)))
  BY <1>4, Zenon DEF P, O
<1> QED
  BY <1>1, <1>7, <1>9, <1>14, <1>15, Zenon DEF IsWritten

\* What continues some data is a part of it.
LEMMA PartOf ==
  ASSUME NEW Cell, NEW data, NEW k \in Nat, NEW s \in Seq(Cell), Continues(data, k, s)
  PROVE  SubSeq(data, k + 1, k + Len(s)) = s
<1> DEFINE n == Len(s)
           to == k + n
           t == SubSeq(data, k + 1, to)
<1>1. n \in Nat /\ \A i \in 1 .. n : data[k + i] = s[i] /\ s[i] \in Cell
  BY LenProperties DEF Continues
<1>2. k + 1 \in Int /\ to \in Int /\ to - (k + 1) + 1 = n
      /\ (IF k + 1 <= to THEN n ELSE 0) = n
  <2> HIDE DEF n
  <2> QED
    BY <1>1
<1>3. \A i \in k + 1 .. to : data[i] \in Cell
  <2>1. \A i \in k + 1 .. to : i - k \in 1 .. n /\ k + (i - k) = i
    BY <1>1
  <2> QED
    BY <1>1, <2>1
<1>4. \A i \in 1 .. n : (k + 1) + i - 1 = k + i
  BY <1>1
<1> HIDE DEF n, to
<1>5. /\ t \in Seq(Cell) /\ Len(t) = n
      /\ \A i \in 1 .. n : t[i] = data[(k + 1) + i - 1]
  <2>1. /\ t \in Seq(Cell)
        /\ Len(t) = IF k + 1 <= to THEN to - (k + 1) + 1 ELSE 0
        /\ \A i \in 1 .. to - (k + 1) + 1 : t[i] = data[(k + 1) + i - 1]
    BY <1>2, <1>3, SubSeqProperties
  <2> HIDE DEF t
  <2> QED
    BY <1>2, <2>1
<1>6. Len(t) = Len(s) /\ \A i \in 1 .. Len(t) : t[i] = s[i]
  BY <1>1, <1>4, <1>5 DEF n
<1> HIDE DEF t
<1>7. t = s
  BY <1>5, <1>6, SeqEqual
<1> QED
  BY <1>7 DEF t, to, n

\* The outputs are found where they were written.
OutputsAre(data, outs, off) ==
    /\ Outputs(data).count = Len(outs)
    /\ \A i \in 0 .. Len(outs) : Outputs(data).at[i] = off[i] + 1
    /\ \A i \in 1 .. Len(outs) : OutputIn(data, off[i - 1], outs[i])

LEMMA OutputsFound ==
  ASSUME NEW Cell, NEW sig, NEW outs, IsPayment(sig, outs, Cell),
         NEW data, NEW off, LaidOut(data, sig, outs, off)
  PROVE  OutputsAre(data, outs, off)
<1> DEFINE n == Len(outs)
           P == Preamble(sig, n)
<1>1. /\ n \in Nat /\ n > 0 /\ IsShort(n) /\ Nat \subseteq Cell
      /\ sig \in Seq(Cell) /\ IsShort(Len(sig))
      /\ \A i \in 1 .. n : IsOutput(outs[i], Cell)
  BY DEF IsPayment
<1>2. /\ off \in [0 .. n -> Nat] /\ Continues(data, 0, P) /\ off[0] = Len(P)
      /\ \A i \in 1 .. n : /\ off[i] = off[i - 1] + Len(write_output(outs[i]))
                           /\ Continues(data, off[i - 1], write_output(outs[i]))
  BY Zenon DEF LaidOut
<1>3. PICK pos \in Nat : End(Inputs(data)) = pos /\ Read(data, pos, n, Len(P) + 1)
  BY <1>1, <1>2, PreambleReads, Zenon
<1> HIDE DEF P, n
<1>4. \A i \in 1 .. n : i - 1 \in 0 .. n /\ i \in 0 .. n
  BY <1>1
<1>5. \A i \in 0 .. n : off[i] \in Nat
  BY <1>2
<1>6. \A i \in 1 .. n : OutputIn(data, off[i - 1], outs[i])
  BY <1>1, <1>2, <1>4, <1>5, OutputReads, Zenon
<1> DEFINE at == [i \in 0 .. n |-> off[i] + 1]
<1>7. ASSUME NEW i \in 1 .. n PROVE ItemAt(data, at[i - 1], 8, 0, at[i])
  <2> DEFINE o == outs[i]
             few == off[i - 1]
             k == Len(o.script)
             m == Len(varint(Len(o.script)))
  <2>1. few \in Nat /\ at[i - 1] = few + 1 /\ at[i] = off[i] + 1
    BY <1>4, <1>5
  <2>2. OutputIn(data, few, o)
    BY <1>6
  <2>3. /\ k \in Nat /\ m \in Nat
        /\ Len(write_output(o)) = 8 + m + k
    BY <1>1, OutputBytes, Zenon
  <2>4. off[i] = few + Len(write_output(o))
    BY <1>2
  <2>5. ScriptFrom(few, o) = few + 8 + m
    BY DEF ScriptFrom
  <2>6. few + 1 \in DOMAIN data /\ Read(data, few + 9, k, ScriptFrom(few, o) + 1)
    BY <2>2, Zenon DEF OutputIn
  <2> HIDE DEF few, o, k, m, at
  <2>7. /\ (few + 1) + 8 = few + 9 /\ ScriptFrom(few, o) + 1 \in Nat
        /\ off[i] + 1 = (ScriptFrom(few, o) + 1) + k + 0
    BY <2>1, <2>3, <2>4, <2>5
  <2>8. ItemAt(data, few + 1, 8, 0, off[i] + 1)
    BY <2>3, <2>6, <2>7, Zenon DEF ItemAt
  <2> QED
    BY <2>1, <2>8
<1>8. Begins(data, at, n, 8, 0)
  <2> HIDE DEF at
  <2> QED
    BY <1>7, Zenon DEF Begins
<1>9. at[0] = Len(P) + 1 /\ Len(P) + 1 \in Nat
  <2>1. 0 \in 0 .. n
    BY <1>1
  <2> QED
    BY <1>2, <1>5, <2>1
<1>10. \A i \in 0 .. n : at[i] = off[i] + 1
  OBVIOUS
<1> HIDE DEF at
<1>11. Parsed(Items(data, pos, 8, 0), n, at)
  <2>1. 8 \in Nat /\ 0 \in Nat
    OBVIOUS
  <2> QED
    BY <1>1, <1>3, <1>8, <1>9, <2>1, ItemsParsed, Zenon
<1>12. Outputs(data) = Items(data, pos, 8, 0)
  BY <1>3 DEF Outputs
<1>13. Outputs(data).count = n /\ \A i \in 0 .. n : Outputs(data).at[i] = at[i]
  BY <1>11, <1>12, Zenon DEF Parsed
<1> QED
  BY <1>6, <1>10, <1>13 DEF n, OutputsAre

\* The script of the i-th output, with its place.
ScriptPlace(data, i, from, o) ==
    /\ from \in Nat /\ o.script = SubSeq(data, from, from + Len(o.script) - 1)
    /\ Continues(data, from - 1, o.script)
    /\ ScriptSpan(data, i) = [from |-> from, to |-> from + Len(o.script) - 1]
    /\ Script(data, i) = o.script
    /\ data[Outputs(data).at[i - 1]] = o.value

LEMMA ScriptsFound ==
  ASSUME NEW Cell, NEW sig, NEW outs, IsPayment(sig, outs, Cell),
         NEW data \in Seq(Cell), NEW off, LaidOut(data, sig, outs, off), NEW i \in 1 .. Len(outs)
  PROVE  ScriptPlace(data, i, ScriptFrom(off[i - 1], outs[i]) + 1, outs[i])
<1> DEFINE n == Len(outs)
           o == outs[i]
           few == off[i - 1]
           k == Len(o.script)
           m == Len(varint(Len(o.script)))
           from == ScriptFrom(few, o)
<1>1. n \in Nat /\ Nat \subseteq Cell /\ IsOutput(o, Cell)
  BY DEF IsPayment
<1>2. i - 1 \in 0 .. n /\ off \in [0 .. n -> Nat]
  BY <1>1 DEF LaidOut
<1>3. few \in Nat /\ k \in Nat /\ m \in Nat
  <2>1. k \in Nat /\ m \in Nat
    BY <1>1, OutputBytes, Zenon
  <2> QED
    BY <1>2, <2>1
<1>4. OutputIn(data, few, o) /\ Outputs(data).at[i - 1] = few + 1
  <2>1. OutputsAre(data, outs, off)
    BY OutputsFound, Zenon
  <2> QED
    BY <1>2, <2>1 DEF OutputsAre
<1>5. /\ data[few + 1] = o.value
      /\ Read(data, few + 9, k, from + 1) /\ Continues(data, from, o.script)
  BY <1>4, Zenon DEF OutputIn
<1>6. from \in Nat
  <2>1. from = few + 8 + m
    BY Zenon DEF ScriptFrom
  <2> HIDE DEF from
  <2> QED
    BY <1>3, <2>1
<1>7. SubSeq(data, from + 1, from + k) = o.script
  <2>1. o.script \in Seq(Cell)
    BY <1>1 DEF IsOutput
  <2> HIDE DEF from, o
  <2> QED
    BY <1>5, <1>6, <2>1, PartOf, Zenon
<1>8. (few + 1) + 8 = few + 9 /\ (from + 1) + k - 1 = from + k /\ (from + 1) - 1 = from
  <2> HIDE DEF from, few, k
  <2> QED
    BY <1>3, <1>6
<1> HIDE DEF from, few
<1>9. ScriptSpan(data, i) = [from |-> from + 1, to |-> (from + 1) + k - 1]
  <2>1. read_varint(data)[Outputs(data).at[i - 1] + 8] = [value |-> k, pos |-> from + 1]
    BY <1>4, <1>5, <1>8, Zenon DEF Read
  <2> HIDE DEF k
  <2> QED
    BY <2>1 DEF ScriptSpan
<1>10. Script(data, i) = o.script
  <2>1. Script(data, i) = SubSeq(data, from + 1, (from + 1) + k - 1)
    <3> DEFINE to == (from + 1) + k - 1
    <3>1. ScriptSpan(data, i) = [from |-> from + 1, to |-> to]
      BY <1>9
    <3> HIDE DEF to
    <3>2. ScriptSpan(data, i).from = from + 1 /\ ScriptSpan(data, i).to = to
      BY <3>1
    <3>3. Script(data, i) = SubSeq(data, from + 1, to)
      BY <3>2, Zenon DEF Script
    <3> QED
      BY <3>3 DEF to
  <2> QED
    BY <1>7, <1>8, <2>1
<1>11. from + 1 \in Nat
  BY <1>6
<1>12. data[Outputs(data).at[i - 1]] = o.value
  BY <1>4, <1>5, Zenon
<1>13. Continues(data, (from + 1) - 1, o.script) /\ o.script = SubSeq(data, from + 1, (from + 1) + k - 1)
  BY <1>5, <1>7, <1>8
<1> HIDE DEF o
<1>14. ScriptPlace(data, i, from + 1, o)
  BY <1>9, <1>10, <1>11, <1>12, <1>13, Zenon DEF ScriptPlace
<1> QED
  BY <1>14 DEF o, from, few

\* A coinbase is read back as it was written.
LEMMA ReadBack ==
  ASSUME NEW Cell, NEW sig, NEW outs, IsPayment(sig, outs, Cell),
         NEW data \in Seq(Cell), NEW off, LaidOut(data, sig, outs, off)
  PROVE  OutputsOf(data) = outs
<1> DEFINE n == Len(outs)
<1>1. n \in Nat /\ outs = [i \in 1 .. n |-> outs[i]] /\ \A i \in 1 .. n : IsOutput(outs[i], Cell)
  BY DEF IsPayment
<1>2. Outputs(data).count = n
  <2>1. OutputsAre(data, outs, off)
    BY OutputsFound, Zenon
  <2> QED
    BY <2>1, Zenon DEF OutputsAre
<1>3. ASSUME NEW i \in 1 .. n
      PROVE  Output(data[Outputs(data).at[i - 1]], Script(data, i)) = outs[i]
  <2>1. ScriptPlace(data, i, ScriptFrom(off[i - 1], outs[i]) + 1, outs[i])
    BY ScriptsFound, Zenon
  <2>2. Script(data, i) = outs[i].script /\ data[Outputs(data).at[i - 1]] = outs[i].value
    BY <2>1, Zenon DEF ScriptPlace
  <2>3. outs[i] = [value |-> outs[i].value, script |-> outs[i].script]
    BY <1>1, Zenon DEF IsOutput
  <2> QED
    BY <2>2, <2>3, Zenon DEF Output
<1> HIDE DEF n
<1> QED
  BY <1>1, <1>2, <1>3 DEF OutputsOf

LEMMA FlattenAppend ==
  ASSUME NEW Cell, NEW s \in Seq(Seq(Cell)), Len(s) > 0, NEW t \in Seq(Cell)
  PROVE  FlattenSeq(Append(s, t)) = FlattenSeq(s) \o t
<1> DEFINE n == Len(s)
           whole == Append(s, t)
           f == CHOOSE f : Flattens(f, s, n)
           g == CHOOSE g : Flattens(g, whole, n + 1)
<1>1. n \in Nat /\ n > 0 /\ n + 1 \in Nat
  BY LenProperties
<1>2. /\ whole \in Seq(Seq(Cell)) /\ Len(whole) = n + 1 /\ whole[n + 1] = t
      /\ \A i \in 1 .. n : whole[i] = s[i]
  BY AppendProperties
<1> HIDE DEF whole
<1>3. FlattenSeq(s) = f[n]
  BY DEF FlattenSeq, Flattens
<1>4. FlattenSeq(whole) = g[n + 1]
  BY <1>2 DEF FlattenSeq, Flattens
<1>5. Flattens(f, s, n)
  BY <1>1, FlattensExist, Zenon
<1>6. Flattens(g, whole, n + 1)
  BY <1>1, FlattensExist, Zenon
<1> HIDE DEF f, g, n
<1>7. f[1] = s[1] /\ \A i \in 1 .. n : i # 1 => f[i] = f[i - 1] \o s[i]
  <2>1. 1 \in 1 .. n
    BY <1>1
  <2> QED
    BY <1>5, <2>1 DEF Flattens
<1>8. g[1] = s[1] /\ \A i \in 1 .. n : i # 1 => g[i] = g[i - 1] \o s[i]
  <2>1. 1 \in 1 .. n + 1 /\ 1 \in 1 .. n /\ \A i \in 1 .. n : i \in 1 .. n + 1
    BY <1>1
  <2>2. \A i \in 1 .. n + 1 : g[i] = IF i = 1 THEN whole[i] ELSE g[i - 1] \o whole[i]
    BY <1>6 DEF Flattens
  <2>3. g[1] = whole[1] /\ \A i \in 1 .. n : i # 1 => g[i] = g[i - 1] \o whole[i]
    BY <2>1, <2>2, Zenon
  <2> QED
    BY <1>2, <2>1, <2>3, Zenon
<1>9. g[n + 1] = g[n] \o t
  <2>1. n + 1 \in 1 .. n + 1 /\ n + 1 # 1 /\ (n + 1) - 1 = n
    BY <1>1
  <2> QED
    BY <1>2, <1>6, <2>1 DEF Flattens
<1> DEFINE Q == {i \in 0 .. n - 1 : f[i + 1] = g[i + 1]}
<1>10. 0 \in Q
  BY <1>1, <1>7, <1>8
<1>11. ASSUME NEW i \in 1 .. n - 1, i - 1 \in Q PROVE i \in Q
  <2>1. i + 1 \in 1 .. n /\ i + 1 # 1 /\ (i + 1) - 1 = i /\ (i - 1) + 1 = i /\ i \in 0 .. n - 1
    BY <1>1
  <2>2. f[i] = g[i]
    BY <1>11, <2>1
  <2>3. f[i + 1] = f[i] \o s[i + 1] /\ g[i + 1] = g[i] \o s[i + 1]
    BY <1>7, <1>8, <2>1
  <2>4. f[i + 1] = g[i + 1]
    BY <2>2, <2>3
  <2> QED
    BY <2>1, <2>4
<1>12. \A i \in 0 .. n - 1 : i \in Q
  <2>1. n - 1 \in Nat
    BY <1>1
  <2> HIDE DEF Q
  <2> QED
    BY <1>10, <1>11, <2>1, CountUp
<1>13. f[n] = g[n]
  <2>1. n - 1 \in 0 .. n - 1 /\ (n - 1) + 1 = n
    BY <1>1
  <2> QED
    BY <1>12, <2>1
<1> QED
  BY <1>3, <1>4, <1>9, <1>13 DEF whole

\* Bytes between two parts are exchanged for others.
Splices(pre, s, post, bytes) ==
    Spliced((pre \o s) \o post, [from |-> Len(pre) + 1, to |-> (Len(pre) + 1) + Len(s) - 1], bytes)
        = (pre \o bytes) \o post

LEMMA SplicedIs ==
  ASSUME NEW Cell, NEW pre \in Seq(Cell), NEW s \in Seq(Cell), NEW post \in Seq(Cell),
         NEW bytes
  PROVE  Splices(pre, s, post, bytes)
<1> DEFINE a == Len(pre)
           b == Len(s)
           c == Len(post)
           ps == pre \o s
           tx == ps \o post
           span == [from |-> a + 1, to |-> (a + 1) + b - 1]
<1>1. a \in Nat /\ b \in Nat /\ c \in Nat
  BY LenProperties
<1>2. ps \in Seq(Cell) /\ Len(ps) = a + b
  BY ConcatProperties, Zenon
<1> HIDE DEF ps
<1>3. tx \in Seq(Cell) /\ Len(tx) = Len(ps) + c
  BY <1>2, ConcatProperties, Zenon
<1>4. tx = ps \o post
  OBVIOUS
<1> HIDE DEF tx
<1>5. Continues(tx, 0, tx)
  BY <1>3, ContinuesItself, Zenon
<1>6. Continues(tx, 0, ps) /\ Continues(tx, 0 + Len(ps), post)
  <2>1. 0 \in Nat
    OBVIOUS
  <2>2. Continues(tx, 0, ps \o post)
    BY <1>4, <1>5
  <2> QED
    BY <1>2, <2>1, <2>2, Parts, Zenon
<1>7. Continues(tx, 0, pre)
  <2>1. 0 \in Nat
    OBVIOUS
  <2> QED
    BY <1>6, <2>1, Parts, Zenon DEF ps
<1>8. SubSeq(tx, 1, a) = pre
  <2>1. 0 \in Nat /\ 0 + 1 = 1 /\ 0 + a = a
    BY <1>1
  <2>2. SubSeq(tx, 0 + 1, 0 + Len(pre)) = pre
    BY <1>7, <2>1, PartOf, Zenon
  <2> QED
    BY <2>1, <2>2, Zenon
<1>9. SubSeq(tx, (a + b) + 1, (a + b) + c) = post
  <2>1. a + b \in Nat /\ 0 + Len(ps) = a + b
    BY <1>1, <1>2
  <2> DEFINE k == a + b
  <2>2. Continues(tx, k, post) /\ k \in Nat
    BY <1>6, <2>1
  <2> HIDE DEF k
  <2>3. SubSeq(tx, k + 1, k + Len(post)) = post
    BY <2>2, PartOf, Zenon
  <2> QED
    BY <2>3 DEF k
<1>10. /\ (a + 1) - 1 = a /\ ((a + 1) + b - 1) + 1 = (a + b) + 1
       /\ Len(tx) = (a + b) + c
  BY <1>1, <1>2, <1>3
<1> DEFINE to == (a + 1) + b - 1
<1>11. span.from = a + 1 /\ span.to = to
  <2> HIDE DEF to
  <2>1. [from |-> a + 1, to |-> to].from = a + 1 /\ [from |-> a + 1, to |-> to].to = to
    OBVIOUS
  <2> QED
    BY <2>1 DEF to
<1> HIDE DEF span
<1>12. Spliced(tx, span, bytes) = (SubSeq(tx, 1, (a + 1) - 1) \o bytes) \o SubSeq(tx, to + 1, Len(tx))
  BY <1>11, Zenon DEF Spliced
<1>13. Spliced(tx, span, bytes) = (pre \o bytes) \o post
  BY <1>8, <1>9, <1>10, <1>12, Zenon
<1> QED
  BY <1>13 DEF tx, ps, span, Splices

\* A coinbase of which the script of the last output stands between two parts:
\* what precedes it depends on its length only.
Ahead(sig, pays, o) ==
    (Preamble(sig, Len(pays) + 1) \o FlattenSeq(Written(pays)))
        \o (Field(o.value, 8) \o varint(Len(o.script)))
Behind(stack) == Ending(stack) \o Field(0, 4)

IsApart(tx, Cell, pre, s, post) ==
    /\ pre \in Seq(Cell) /\ s \in Seq(Cell) /\ post \in Seq(Cell)
    /\ tx = (pre \o s) \o post

Cat(s, t) == s \o t
Associates(s, t, u) == Cat(Cat(s, t), u) = Cat(s, Cat(t, u))

LEMMA CatType ==
  ASSUME NEW Cell, NEW s \in Seq(Cell), NEW t \in Seq(Cell)
  PROVE  Cat(s, t) \in Seq(Cell)
  BY ConcatProperties DEF Cat

LEMMA CatAssociative ==
  ASSUME NEW Cell, NEW s \in Seq(Cell), NEW t \in Seq(Cell), NEW u \in Seq(Cell)
  PROVE  Associates(s, t, u)
  BY ConcatAssociative DEF Cat, Associates

Rearranges(p, f, ab, s, r, z) ==
    ((p \o (f \o (ab \o s))) \o r) \o z = (((p \o f) \o ab) \o s) \o (r \o z)

LEMMA Rearranged ==
  ASSUME NEW Cell, NEW p \in Seq(Cell), NEW f \in Seq(Cell), NEW ab \in Seq(Cell),
         NEW s \in Seq(Cell), NEW r \in Seq(Cell), NEW z \in Seq(Cell)
  PROVE  Rearranges(p, f, ab, s, r, z)
<1> DEFINE pf == Cat(p, f)
           x == Cat(ab, s)
           pa == Cat(pf, ab)
           pas == Cat(pa, s)
<1>1. pf \in Seq(Cell) /\ x \in Seq(Cell)
  BY CatType, Zenon
<1>2. x = Cat(ab, s)
  OBVIOUS
<1> HIDE DEF x
<1>3. Cat(p, Cat(f, x)) = Cat(pf, x)
  <2>1. Associates(p, f, x)
    BY <1>1, CatAssociative, Zenon
  <2> QED
    BY <2>1, Zenon DEF Associates
<1> HIDE DEF pf
<1>4. Cat(pf, x) = pas
  <2>1. Associates(pf, ab, s)
    BY <1>1, CatAssociative, Zenon
  <2> QED
    BY <1>2, <2>1, Zenon DEF Associates
<1>5. pa \in Seq(Cell)
  BY <1>1, CatType, Zenon
<1> HIDE DEF pa
<1>6. pas \in Seq(Cell)
  BY <1>5, CatType, Zenon
<1> HIDE DEF pas
<1>7. Cat(Cat(pas, r), z) = Cat(pas, Cat(r, z))
  <2>1. Associates(pas, r, z)
    BY <1>6, CatAssociative, Zenon
  <2> QED
    BY <2>1, Zenon DEF Associates
<1>8. Cat(Cat(Cat(p, Cat(f, x)), r), z) = Cat(pas, Cat(r, z))
  BY <1>3, <1>4, <1>7, Zenon
<1> QED
  BY <1>8 DEF Rearranges, Cat, x, pas, pa, pf

HasLast(sig, pays, o, stack, Cell) ==
    LET all == Append(pays, o)
        n == Len(pays) + 1
    IN  /\ IsPayment(sig, all, Cell) /\ Len(all) = n /\ all[n] = o
        /\ \A i \in 1 .. Len(pays) : all[i] = pays[i]
        /\ IsApart(serialize_segwit_tx(sig, all, stack), Cell,
                   Ahead(sig, pays, o), o.script, Behind(stack))
        /\ Len(Ahead(sig, pays, o)) + Len(o.script)
              = Len(Preamble(sig, n)) + Len(FlattenSeq(Written(all)))

LEMMA LastApart ==
  ASSUME NEW Cell, NEW sig, NEW pays, IsPayment(sig, pays, Cell), NEW o, IsOutput(o, Cell),
         NEW stack, Ending(stack) \in Seq(Cell), IsShort(Len(pays) + 1)
  PROVE  HasLast(sig, pays, o, stack, Cell)
<1> DEFINE n == Len(pays)
           all == Append(pays, o)
<1>1. /\ n \in Nat \ {0} /\ pays = [i \in 1 .. n |-> pays[i]]
      /\ \A i \in 1 .. n : IsOutput(pays[i], Cell)
      /\ Nat \subseteq Cell /\ sig \in Seq(Cell) /\ IsShort(Len(sig))
  BY DEF IsPayment
<1> DEFINE Each == {pays[i] : i \in 1 .. n} \cup {o}
<1>2. pays \in Seq(Each) /\ o \in Each
  <2> HIDE DEF n
  <2>1. pays \in [1 .. n -> {pays[i] : i \in 1 .. n} \cup {o}]
    BY <1>1
  <2> QED
    BY <1>1, <2>1
<1> HIDE DEF Each
<1>3. /\ all \in Seq(Each) /\ Len(all) = n + 1 /\ all[n + 1] = o
      /\ \A i \in 1 .. n : all[i] = pays[i]
  BY <1>2, AppendProperties
<1> HIDE DEF all, n
<1>4. all = [i \in 1 .. n + 1 |-> all[i]]
  BY <1>3
<1>5. \A i \in 1 .. n + 1 : i \in 1 .. n \/ i = n + 1
  BY <1>1
<1>6. \A i \in 1 .. n + 1 : IsOutput(all[i], Cell)
  BY <1>1, <1>3, <1>5, Zenon
<1>7. IsPayment(sig, all, Cell)
  <2>1. n + 1 \in Nat \ {0} /\ IsShort(n + 1)
    BY <1>1 DEF n
  <2> QED
    BY <1>1, <1>3, <1>4, <1>6, <2>1, Zenon DEF IsPayment
<1> DEFINE W == Written(pays)
           w == write_output(o)
<1>8. W \in Seq(Seq(Cell)) /\ Len(W) = n /\ \A i \in 1 .. n : W[i] = write_output(pays[i])
  BY WrittenType, Zenon DEF n
<1>9. Written(all) \in Seq(Seq(Cell)) /\ Len(Written(all)) = n + 1
      /\ \A i \in 1 .. n + 1 : Written(all)[i] = write_output(all[i])
  BY <1>3, <1>7, WrittenType, Zenon
<1>10. w \in Seq(Cell)
  BY <1>1, OutputBytes, Zenon
<1> HIDE DEF W
<1>11. Written(all) = Append(W, w)
  <2> DEFINE V == Append(W, w)
  <2>1. /\ V \in Seq(Seq(Cell)) /\ Len(V) = n + 1 /\ V[n + 1] = w
        /\ \A i \in 1 .. n : V[i] = W[i]
    BY <1>8, <1>10, AppendProperties
  <2> HIDE DEF V
  <2>2. ASSUME NEW i \in 1 .. n + 1 PROVE Written(all)[i] = V[i]
    <3>1. Written(all)[i] = write_output(all[i])
      BY <1>9, Zenon
    <3>2. i \in 1 .. n \/ i = n + 1
      BY <1>5
    <3>3. CASE i \in 1 .. n
      BY <1>3, <1>8, <2>1, <3>1, <3>3, Zenon
    <3>4. CASE i = n + 1
      BY <1>3, <2>1, <3>1, <3>4, Zenon
    <3> QED
      BY <3>2, <3>3, <3>4
  <2>3. Len(Written(all)) = Len(V) /\ \A i \in 1 .. Len(V) : V[i] = Written(all)[i]
    BY <1>9, <2>1, <2>2, Zenon
  <2>4. V = Written(all)
    BY <1>9, <2>1, <2>3, SeqEqual, Zenon
  <2> QED
    BY <2>4 DEF V
<1>12. FlattenSeq(Written(all)) = FlattenSeq(W) \o w /\ FlattenSeq(W) \in Seq(Cell)
  <2>1. Len(W) > 0 /\ 0 \in Nat
    BY <1>1, <1>8
  <2> QED
    BY <1>8, <1>10, <1>11, <2>1, FlattenAppend, FlattenType, Zenon
<1>13. PICK a, b, ab, c : OutputIs(o, Cell, a, b, ab, c)
  BY <1>1, OutputParts, Zenon
<1>14. /\ ab \in Seq(Cell) /\ c \in Seq(Cell) /\ c = o.script /\ w = ab \o c
      /\ ab = Field(o.value, 8) \o varint(Len(o.script))
  BY <1>13, Zenon DEF OutputIs
<1> DEFINE P == Preamble(sig, n + 1)
           F == FlattenSeq(W)
           R == Ending(stack)
           Z == Field(0, 4)
<1>15. P \in Seq(Cell) /\ Z \in Seq(Cell) /\ R \in Seq(Cell) /\ F \in Seq(Cell)
  <2>1. n + 1 \in Nat /\ IsShort(n + 1) /\ 0 \in Nat /\ 4 \in Nat \ {0}
    BY <1>1 DEF n
  <2>2. P \in Seq(Cell)
    BY <1>1, <2>1, PreambleReads, Zenon
  <2>3. \E x \in Seq(Cell) : x = Field(0, 4) /\ Len(x) = 4 /\ x[1] = 0
    BY <1>1, <2>1, FieldIs
  <2> QED
    BY <1>12, <2>2, <2>3, Zenon
<1>16. serialize_segwit_tx(sig, all, stack) = ((P \o (F \o w)) \o R) \o Z
  <2>1. serialize_segwit_tx(sig, all, stack) =
            ((Preamble(sig, Len(all)) \o FlattenSeq(Written(all))) \o Ending(stack)) \o Field(0, 4)
    BY SerializedIs, Zenon DEF Written
  <2> QED
    BY <1>3, <1>12, <2>1, Zenon
<1>17. Ahead(sig, pays, o) = (P \o F) \o ab /\ Behind(stack) = R \o Z
  BY <1>14, Zenon DEF Ahead, Behind, W, n
<1> HIDE DEF P, F, R, Z
<1>18. serialize_segwit_tx(sig, all, stack) = (((P \o F) \o ab) \o c) \o (R \o Z)
  <2>1. Rearranges(P, F, ab, c, R, Z)
    BY <1>14, <1>15, Rearranged, Zenon
  <2>2. serialize_segwit_tx(sig, all, stack) = ((P \o (F \o (ab \o c))) \o R) \o Z
    BY <1>14, <1>16
  <2> QED
    BY <2>1, <2>2 DEF Rearranges
<1> DEFINE PF == P \o F
           A == PF \o ab
<1>19. PF \in Seq(Cell) /\ Len(PF) = Len(P) + Len(F) /\ R \o Z \in Seq(Cell)
  BY <1>15, ConcatProperties, Zenon
<1> HIDE DEF PF
<1>20. A \in Seq(Cell) /\ Len(A) = Len(PF) + Len(ab)
  BY <1>14, <1>19, ConcatProperties, Zenon
<1>21. F \o w \in Seq(Cell) /\ Len(F \o w) = Len(F) + Len(w) /\ Len(w) = Len(ab) + Len(c)
  <2>1. F \o w \in Seq(Cell) /\ Len(F \o w) = Len(F) + Len(w)
    BY <1>10, <1>15, ConcatProperties, Zenon
  <2>2. Len(ab \o c) = Len(ab) + Len(c)
    BY <1>14, ConcatProperties, Zenon
  <2> QED
    BY <1>14, <2>1, <2>2, Zenon
<1>22. Len(P) \in Nat /\ Len(F) \in Nat /\ Len(ab) \in Nat /\ Len(c) \in Nat
  BY <1>14, <1>15, LenProperties, Zenon
<1> HIDE DEF A
<1>23. Len(A) + Len(c) = Len(P) + Len(F \o w)
  <2> DEFINE p == Len(P)
             f == Len(F)
             u == Len(ab)
             v == Len(c)
  <2>1. Len(A) = (p + f) + u /\ Len(F \o w) = f + (u + v)
    BY <1>19, <1>20, <1>21, Zenon
  <2>2. p \in Nat /\ f \in Nat /\ u \in Nat /\ v \in Nat
    BY <1>22
  <2> HIDE DEF p, f, u, v
  <2>3. ((p + f) + u) + v = p + (f + (u + v))
    BY <2>2
  <2> QED
    BY <2>1, <2>3, Zenon DEF p, v
<1>24. IsApart(serialize_segwit_tx(sig, all, stack), Cell, Ahead(sig, pays, o), o.script, Behind(stack))
  BY <1>14, <1>17, <1>18, <1>19, <1>20, Zenon DEF IsApart, A, PF
<1>25. Len(Ahead(sig, pays, o)) + Len(o.script) =
          Len(Preamble(sig, n + 1)) + Len(FlattenSeq(Written(all)))
  BY <1>12, <1>14, <1>17, <1>23, Zenon DEF A, PF, F, P
<1> QED
  BY <1>3, <1>7, <1>24, <1>25, Zenon DEF HasLast, all, n

\* The digest of the last output is exchanged for another, where it is the only
\* commitment.
Replaces(sig, pays, o, put, stack, raws) ==
    LET before == serialize_segwit_tx(sig, Append(pays, o), stack)
        after == serialize_segwit_tx(sig, Append(pays, put), stack)
    IN  regenerate_witness_commitment(before, raws) = after /\ Len(after) = Len(before)

LEMMA CommitmentReplaced ==
  ASSUME NEW Cell, NEW sig, NEW pays, IsPayment(sig, pays, Cell),
         \A i \in 1 .. Len(pays) : ~IsCommitment(pays[i].script),
         NEW o, IsOutput(o, Cell), IsCommitment(o.script), IsShort(Len(pays) + 1),
         NEW stack, Ending(stack) \in Seq(Cell), NEW raws, NEW put, IsOutput(put, Cell),
         put.value = o.value, put.script = CommitmentScript(WitnessCommitment(raws)),
         Len(put.script) = Len(o.script)
  PROVE  Replaces(sig, pays, o, put, stack, raws)
<1> DEFINE n == Len(pays) + 1
           all == Append(pays, o)
           tx == serialize_segwit_tx(sig, all, stack)
           after == serialize_segwit_tx(sig, Append(pays, put), stack)
           A == Ahead(sig, pays, o)
           B == Behind(stack)
<1>1. /\ IsPayment(sig, all, Cell) /\ Len(all) = n /\ all[n] = o
      /\ \A i \in 1 .. Len(pays) : all[i] = pays[i]
      /\ IsApart(tx, Cell, A, o.script, B)
      /\ Len(A) + Len(o.script) = Len(Preamble(sig, n)) + Len(FlattenSeq(Written(all)))
  <2>1. HasLast(sig, pays, o, stack, Cell)
    BY LastApart, Zenon
  <2> QED
    BY <2>1, Zenon DEF HasLast
<1>2. IsApart(after, Cell, Ahead(sig, pays, put), put.script, B)
  <2>1. HasLast(sig, pays, put, stack, Cell)
    BY LastApart, Zenon
  <2> QED
    BY <2>1, Zenon DEF HasLast
<1>3. Ahead(sig, pays, put) = A
  BY Zenon DEF Ahead
<1>4. n \in Nat /\ n \in 1 .. n /\ n - 1 \in 0 .. n /\ \A i \in 1 .. n : i = n \/ i \in 1 .. Len(pays)
  BY DEF IsPayment
<1>5. PICK off : /\ LaidOut(tx, sig, all, off) /\ tx \in Seq(Cell)
                 /\ off[n] = Len(Preamble(sig, n)) + Len(FlattenSeq(Written(all)))
  <2>1. IsWritten(tx, sig, all, Cell)
    BY <1>1, Layout, Zenon
  <2> HIDE DEF n, tx, all
  <2> QED
    BY <1>1, <2>1, Zenon DEF IsWritten
<1> HIDE DEF all, n, tx, after
<1>6. Outputs(tx).count = n
  <2>1. OutputsAre(tx, all, off)
    BY <1>1, <1>5, OutputsFound, Zenon
  <2> QED
    BY <1>1, <2>1, Zenon DEF OutputsAre
<1>7. \A i \in 1 .. n : ScriptPlace(tx, i, ScriptFrom(off[i - 1], all[i]) + 1, all[i])
  BY <1>1, <1>5, ScriptsFound, Zenon
<1>8. \A i \in 1 .. n : Script(tx, i) = all[i].script
  BY <1>7, Zenon DEF ScriptPlace
<1>9. CommitmentOutputs(tx) = {n}
  <2>1. IsCommitment(Script(tx, n))
    BY <1>1, <1>4, <1>8, Zenon
  <2>2. \A i \in 1 .. n : IsCommitment(Script(tx, i)) => i = n
    BY <1>1, <1>4, <1>8, Zenon
  <2> QED
    BY <1>4, <1>6, <2>1, <2>2, Zenon DEF CommitmentOutputs
<1> DEFINE from == ScriptFrom(off[n - 1], o)
           k == Len(o.script)
           span == ScriptSpan(tx, n)
<1>10. span = [from |-> from + 1, to |-> (from + 1) + k - 1]
  BY <1>1, <1>4, <1>7, Zenon DEF ScriptPlace
<1>11. (CHOOSE i \in CommitmentOutputs(tx) : \A j \in CommitmentOutputs(tx) : i <= j) = n
  BY <1>4, <1>9
<1>12. regenerate_witness_commitment(tx, raws) = Spliced(tx, span, put.script)
  BY <1>9, <1>11, Zenon DEF regenerate_witness_commitment
<1>13. from = Len(A)
  <2> DEFINE m == Len(varint(Len(o.script)))
             few == off[n - 1]
             w == Len(write_output(o))
  <2>1. k \in Nat /\ m \in Nat /\ w = 8 + m + k
    <3>1. Nat \subseteq Cell
      BY DEF IsPayment
    <3> QED
      BY <3>1, OutputBytes, Zenon
  <2>2. few \in Nat
    BY <1>1, <1>4, <1>5 DEF LaidOut
  <2>3. off[n] = few + w
    BY <1>1, <1>4, <1>5, Zenon DEF LaidOut
  <2>4. off[n] = Len(A) + k /\ Len(A) \in Nat
    <3>1. A \in Seq(Cell)
      BY <1>1, Zenon DEF IsApart
    <3>2. Len(A) \in Nat
      BY <3>1, LenProperties, Zenon
    <3> QED
      BY <1>1, <1>5, <3>2, Zenon
  <2>5. from = few + 8 + m
    BY Zenon DEF ScriptFrom
  <2> HIDE DEF from, few, k, m, w, A
  <2> QED
    BY <2>1, <2>2, <2>3, <2>4, <2>5
<1> HIDE DEF from, span
<1>14. tx = (A \o o.script) \o B /\ A \in Seq(Cell) /\ B \in Seq(Cell) /\ o.script \in Seq(Cell)
  BY <1>1, Zenon DEF IsApart
<1>15. after = (A \o put.script) \o B /\ put.script \in Seq(Cell)
  BY <1>2, <1>3, Zenon DEF IsApart
<1>16. Spliced((A \o o.script) \o B, [from |-> Len(A) + 1, to |-> (Len(A) + 1) + Len(o.script) - 1], put.script)
          = (A \o put.script) \o B
  <2> HIDE DEF A, B
  <2>1. Splices(A, o.script, B, put.script)
    BY <1>14, SplicedIs, Zenon
  <2> QED
    BY <2>1, Zenon DEF Splices
<1>17. regenerate_witness_commitment(tx, raws) = after
  <2> HIDE DEF A, B
  <2> QED
    BY <1>10, <1>12, <1>13, <1>14, <1>15, <1>16
<1>18. Len(after) = Len(tx)
  <2> HIDE DEF A, B
  <2> DEFINE s == o.script
             t == put.script
             as == A \o s
             at == A \o t
  <2>1. as \in Seq(Cell) /\ Len(as) = Len(A) + Len(s) /\ at \in Seq(Cell) /\ Len(at) = Len(A) + Len(t)
    BY <1>14, <1>15, ConcatProperties, Zenon
  <2> HIDE DEF as, at
  <2>2. Len(as \o B) = Len(as) + Len(B) /\ Len(at \o B) = Len(at) + Len(B)
    BY <1>14, <2>1, ConcatProperties, Zenon
  <2> QED
    BY <1>14, <1>15, <2>1, <2>2, Zenon DEF as, at
<1> QED
  BY <1>17, <1>18 DEF Replaces, tx, after, all

-----------------------------------------------------------------------------
(* The coinbase of a template, before and after its commitment is in place *)

\* What stands in it.
Cells(gbt) == Nat \cup {ZeroHash, WitnessCommitment(gbt.transactions)} \cup Range(gbt.commitment)
Sig(gbt) == gbt.aux \o encode_bip34_height(gbt.height)
Stack(gbt) == IF gbt.commitment = <<>> THEN <<>> ELSE <<ZeroHash>>
Part(gbt, config) == split_coinbase_value(gbt.coinbasevalue, coinbase_dev_fee_bps(config))
Pays(gbt, config) ==
    <<Output(Part(gbt, config).user, config.payout)>>
       \o (IF Part(gbt, config).dev > 0 THEN <<Output(Part(gbt, config).dev, config.dev)>> ELSE <<>>)
Announced(gbt) == Output(0, gbt.commitment)
Commits(gbt) == Output(0, CommitmentScript(WitnessCommitment(gbt.transactions)))

LEMMA ShiftedType ==
  ASSUME NEW n \in Nat, NEW width \in Nat
  PROVE  \A i \in 0 .. width : Shifted(n, 256, width)[i] \in Nat
  BY ByteShifts

LEMMA LittleEndianType ==
  ASSUME NEW n \in Nat, NEW width \in Nat
  PROVE  LittleEndian(n, width) \in Seq(Nat) /\ Len(LittleEndian(n, width)) = width
<1> DEFINE h == Shifted(n, 256, width)
           bytes == [i \in 1 .. width |-> h[i - 1] % 256]
<1>1. \A i \in 0 .. width : h[i] \in Nat
  BY ByteShifts
<1>2. LittleEndian(n, width) = bytes
  BY DEF LittleEndian
<1> HIDE DEF h
<1>3. \A i \in 1 .. width : i - 1 \in 0 .. width
  OBVIOUS
<1>4. \A x \in Nat : x % 256 \in Nat
  OBVIOUS
<1>5. \A i \in 1 .. width : h[i - 1] % 256 \in Nat
  BY <1>1, <1>3, <1>4, Zenon
<1>6. bytes \in [1 .. width -> Nat]
  BY <1>5
<1> HIDE DEF bytes
<1>7. bytes \in Seq(Nat) /\ Len(bytes) = width
  <2>1. bytes \in Seq(Nat)
    BY <1>6
  <2>2. DOMAIN bytes = 1 .. width
    BY <1>6
  <2> QED
    BY <2>1, <2>2
<1> QED
  BY <1>2, <1>7

LEMMA FewBytes ==
  \A n \in Nat, w \in 0 .. 4 : /\ LittleEndian(n, w) \in Seq(Nat)
                              /\ Len(LittleEndian(n, w)) \in 0 .. 4
<1> SUFFICES ASSUME NEW n \in Nat, NEW w \in 0 .. 4
             PROVE  /\ LittleEndian(n, w) \in Seq(Nat)
                    /\ Len(LittleEndian(n, w)) \in 0 .. 4
  OBVIOUS
<1>1. w \in Nat
  OBVIOUS
<1> QED
  BY <1>1, LittleEndianType

LEMMA JustOne ==
  ASSUME NEW o
  PROVE  <<o>> \o <<>> = <<o>>
<1>1. <<o>> \in Seq({o})
  OBVIOUS
<1> QED
  BY <1>1, ConcatEmptySeq

LEMMA OneAndOne ==
  ASSUME NEW o, NEW p
  PROVE  <<o>> \o <<p>> = <<o, p>>
<1>1. <<o>> \in Seq({o, p}) /\ <<p>> \in Seq({o, p}) /\ <<o, p>> \in Seq({o, p})
  OBVIOUS
<1> DEFINE a == <<o>>
           b == <<p>>
           c == <<o, p>>
<1>2. Len(a) = 1 /\ Len(b) = 1 /\ Len(c) = 2 /\ a[1] = o /\ b[1] = p /\ c[1] = o /\ c[2] = p
  OBVIOUS
<1> HIDE DEF a, b, c
<1>3. a \in Seq({o, p}) /\ b \in Seq({o, p}) /\ c \in Seq({o, p})
  BY <1>1 DEF a, b, c
<1> DEFINE d == a \o b
<1>4. d \in Seq({o, p}) /\ Len(d) = 2 /\ d[1] = o /\ d[2] = p
  BY <1>2, <1>3, ConcatProperties
<1> HIDE DEF d
<1>5. \A i \in 1 .. Len(d) : d[i] = c[i]
  BY <1>2, <1>4
<1>6. d = c
  BY <1>2, <1>3, <1>4, <1>5, SeqEqual
<1> QED
  BY <1>6 DEF d, a, b, c

\* A height of four bytes at most.
IsHeight(height) == height \in Nat /\ height \div 65536 < 65536

\* The height has as many bytes as it needs, of four at most.
LEMMA HeightWidth ==
  ASSUME NEW height, IsHeight(height)
  PROVE  \E w \in 0 .. 4 : /\ Shifted(height, 256, 4)[w] = 0
                           /\ encode_bip34_height(height) = LittleEndian(height, w)
<1> DEFINE h == Shifted(height, 256, 4)
           W == {w \in 0 .. 4 : h[w] = 0}
           w == CHOOSE w \in 0 .. 4 : h[w] = 0 /\ \A v \in 0 .. w - 1 : h[v] > 0
<1>0. height \in Nat
  BY DEF IsHeight
<1>1. h[4] = 0
  BY WidthSuffices DEF IsHeight
<1>2. \A i \in 0 .. 4 : h[i] \in Nat
  <2>1. 4 \in Nat
    OBVIOUS
  <2> QED
    BY <1>0, <2>1, ShiftedType
<1> HIDE DEF h
<1>3. W \in SUBSET Nat /\ W # {}
  BY <1>1
<1>4. PICK k \in W : \A j \in W : ~ (j < k)
  <2> HIDE DEF W
  <2> QED
    BY <1>3, Least
<1>5. k \in 0 .. 4 /\ h[k] = 0 /\ \A v \in 0 .. k - 1 : h[v] > 0
  <2>1. \A v \in 0 .. k - 1 : v \in 0 .. 4 /\ v < k
    OBVIOUS
  <2>2. \A v \in 0 .. k - 1 : v \notin W
    <3> HIDE DEF W
    <3> QED
      BY <1>4, <2>1
  <2>3. \A v \in 0 .. k - 1 : h[v] # 0 /\ h[v] \in Nat
    BY <1>2, <2>1, <2>2
  <2> QED
    BY <2>3
<1>6. w \in 0 .. 4 /\ h[w] = 0
  BY <1>5
<1>7. encode_bip34_height(height) = LittleEndian(height, w)
  BY DEF encode_bip34_height, h
<1> HIDE DEF w
<1> QED
  BY <1>6, <1>7 DEF h

LEMMA HeightBytes ==
  ASSUME NEW height, IsHeight(height)
  PROVE  /\ encode_bip34_height(height) \in Seq(Nat)
         /\ Len(encode_bip34_height(height)) \in 0 .. 4
<1>1. PICK w \in 0 .. 4 : encode_bip34_height(height) = LittleEndian(height, w)
  BY HeightWidth
<1>2. height \in Nat
  BY DEF IsHeight
<1> QED
  BY <1>1, <1>2, FewBytes

LEMMA SigType ==
  ASSUME NEW gbt \in Templates
  PROVE  /\ Sig(gbt) \in Seq(Cells(gbt)) /\ IsShort(Len(Sig(gbt)))
         /\ Nat \subseteq Cells(gbt)
<1>1. /\ IsHeight(gbt.height)
      /\ gbt.aux \in Seq(Nat) /\ Len(gbt.aux) < 65000
  BY TemplatesAssumption DEF IsHeight
<1> DEFINE b == encode_bip34_height(gbt.height)
           a == gbt.aux
<1>2. b \in Seq(Nat) /\ Len(b) \in 0 .. 4
  BY <1>1, HeightBytes
<1> HIDE DEF b
<1>3. a \o b \in Seq(Nat) /\ Len(a \o b) = Len(a) + Len(b)
  BY <1>1, <1>2, ConcatProperties
<1>4. Len(a) \in Nat /\ Len(a) < 65000
  BY <1>1
<1> DEFINE x == Len(a)
           y == Len(b)
<1>5. IsShort(Len(a) + Len(b))
  <2>1. x \in Nat /\ x < 65000 /\ y \in 0 .. 4
    BY <1>2, <1>4
  <2> HIDE DEF x, y
  <2>2. x + y < 65536
    BY <2>1
  <2> QED
    BY <2>2 DEF IsShort, x, y
<1> HIDE DEF a, x, y
<1>6. Nat \subseteq Cells(gbt)
  BY DEF Cells
<1>7. a \o b \in Seq(Cells(gbt))
  BY <1>3, <1>6, Wider, Zenon
<1> QED
  BY <1>3, <1>5, <1>6, <1>7, Zenon DEF Sig, a, b

LEMMA EndingType ==
  ASSUME NEW gbt \in Templates
  PROVE  Ending(Stack(gbt)) \in Seq(Cells(gbt))
<1> DEFINE Cell == Cells(gbt)
           zero == ZeroHash
<1>1. Nat \subseteq Cell /\ zero \in Cell
  BY Zenon DEF Cells
<1> HIDE DEF Cell, zero
<1>2. CASE gbt.commitment = <<>>
  <2>1. Stack(gbt) = <<>>
    BY <1>2 DEF Stack
  <2>2. Ending(Stack(gbt)) = <<>>
    BY <2>1 DEF Ending
  <2> QED
    BY <2>2 DEF Cell
<1>3. CASE gbt.commitment # <<>>
  <2> DEFINE stack == <<zero>>
             items == [i \in DOMAIN stack |-> varint(1) \o <<stack[i]>>]
  <2>1. stack = Stack(gbt) /\ stack # <<>> /\ Len(stack) = 1
    BY <1>3 DEF Stack, zero
  <2> DEFINE one == varint(1)
  <2>2. \E x \in Seq(Cell) : x = varint(1) /\ Len(x) \in Nat
    BY <1>1, VarintCells
  <2>3. one \in Seq(Cell)
    BY <2>2
  <2> HIDE DEF one
  <2>4. <<0, 1>> \in Seq(Cell) /\ <<zero>> \in Seq(Cell)
    BY <1>1
  <2>5. items = <<one \o <<zero>>>>
    BY DEF one
  <2>6. one \o <<zero>> \in Seq(Cell)
    BY <2>3, <2>4, ConcatProperties, Zenon
  <2>7. items \in Seq(Seq(Cell)) /\ Len(items) > 0
    <3> DEFINE x == one \o <<zero>>
    <3>1. x \in Seq(Cell)
      BY <2>6
    <3>2. items = <<x>>
      BY <2>5
    <3> HIDE DEF x, items
    <3>3. <<x>> \in Seq(Seq(Cell)) /\ Len(<<x>>) > 0
      BY <3>1
    <3> QED
      BY <3>2, <3>3, Zenon
  <2> HIDE DEF items
  <2>8. FlattenSeq(items) \in Seq(Cell)
    BY <2>7, FlattenType, Zenon
  <2> DEFINE head == <<0, 1>>
             ho == head \o one
             hoo == ho \o one
             e == hoo \o FlattenSeq(items)
  <2>9. ho \in Seq(Cell)
    BY <2>3, <2>4, ConcatProperties, Zenon
  <2> HIDE DEF ho
  <2>10. hoo \in Seq(Cell)
    BY <2>3, <2>9, ConcatProperties, Zenon
  <2> HIDE DEF hoo
  <2>11. e \in Seq(Cell)
    BY <2>8, <2>10, ConcatProperties, Zenon
  <2>12. Ending(stack) = e
    <3> HIDE DEF stack
    <3> QED
      BY <2>1, Zenon DEF Ending, e, hoo, ho, one, items
  <2> QED
    BY <2>1, <2>11, <2>12, Zenon DEF Cell
<1> QED
  BY <1>2, <1>3

LEMMA PayIs ==
  ASSUME NEW gbt \in Templates, NEW config \in Configurations
  PROVE  /\ IsPayment(Sig(gbt), Pays(gbt, config), Cells(gbt))
         /\ IsShort(Len(Pays(gbt, config)) + 1)
         /\ \A i \in 1 .. Len(Pays(gbt, config)) : ~IsCommitment(Pays(gbt, config)[i].script)
<1> DEFINE Cell == Cells(gbt)
           user == Part(gbt, config).user
           dev == Part(gbt, config).dev
           pays == Pays(gbt, config)
<1>1. /\ gbt.coinbasevalue \in Nat /\ config.percent \in Int
      /\ IsAddress(config.payout) /\ IsAddress(config.dev)
  BY TemplatesAssumption
<1>2. user \in Nat /\ dev \in Nat
  <2>1. coinbase_dev_fee_bps(config) \in Nat /\ coinbase_dev_fee_bps(config) <= 10000
    BY <1>1, FeeRange DEF coinbase_dev_fee_bps
  <2> QED
    BY <1>1, <2>1, SplitIsWhole DEF Part
<1>3. Nat \subseteq Cell /\ Sig(gbt) \in Seq(Cell) /\ IsShort(Len(Sig(gbt)))
  BY SigType, Zenon
<1> HIDE DEF Cell, user, dev
<1>4. ASSUME NEW script, IsAddress(script), NEW value \in Nat
      PROVE  IsOutput(Output(value, script), Cell) /\ ~IsCommitment(Output(value, script).script)
  <2>1. script \in Seq(Nat) /\ IsShort(Len(script)) /\ ~IsCommitment(script)
    BY <1>4, LenProperties DEF IsAddress, IsShort
  <2>2. script \in Seq(Cell)
    BY <1>3, <2>1, Wider, Zenon
  <2>3. /\ Output(value, script) = [value |-> value, script |-> script]
        /\ Output(value, script).value = value /\ Output(value, script).script = script
    BY DEF Output
  <2> QED
    BY <2>1, <2>2, <2>3, Zenon DEF IsOutput
<1> DEFINE o == Output(user, config.payout)
           p == Output(dev, config.dev)
<1>5. /\ IsOutput(o, Cell) /\ ~IsCommitment(o.script)
      /\ IsOutput(p, Cell) /\ ~IsCommitment(p.script)
  BY <1>1, <1>2, <1>4, Zenon
<1>6. pays = <<o>> \o (IF dev > 0 THEN <<p>> ELSE <<>>)
  BY Zenon DEF Pays, user, dev
<1> HIDE DEF o, p
<1>7. pays = <<o>> \/ pays = <<o, p>>
  <2>1. <<o>> \o <<>> = <<o>> /\ <<o>> \o <<p>> = <<o, p>>
    BY JustOne, OneAndOne
  <2> HIDE DEF pays
  <2> QED
    BY <1>6, <2>1, Zenon
<1> HIDE DEF pays
<1>8. /\ Len(pays) \in 1 .. 2 /\ pays = [i \in 1 .. Len(pays) |-> pays[i]]
      /\ \A i \in 1 .. Len(pays) : pays[i] = o \/ pays[i] = p
  BY <1>7
<1>9. \A i \in 1 .. Len(pays) : IsOutput(pays[i], Cell) /\ ~IsCommitment(pays[i].script)
  BY <1>5, <1>8, Zenon
<1>10. /\ Len(pays) \in Nat \ {0} /\ IsShort(Len(pays)) /\ IsShort(Len(pays) + 1)
  BY <1>8 DEF IsShort
<1>11. IsPayment(Sig(gbt), pays, Cell)
  BY <1>3, <1>8, <1>9, <1>10, Zenon DEF IsPayment
<1> QED
  BY <1>9, <1>10, <1>11, Zenon DEF pays, Cell

Committed(gbt, config) ==
    IF gbt.commitment = <<>> THEN build_coinbase_tx(gbt, config)
    ELSE regenerate_witness_commitment(build_coinbase_tx(gbt, config), gbt.transactions)
Final(gbt, config) == IF gbt.commitment = <<>> THEN Pays(gbt, config)
                      ELSE Append(Pays(gbt, config), Commits(gbt))

LEMMA Joined ==
  ASSUME NEW s, s = [i \in 1 .. Len(s) |-> s[i]], Len(s) \in Nat, NEW e
  PROVE  s \o <<>> = s /\ s \o <<e>> = Append(s, e)
<1> DEFINE n == Len(s)
           S == {s[i] : i \in 1 .. n}
<1>1. s \in [1 .. n -> S]
  <2> HIDE DEF n
  <2>1. s = [i \in 1 .. n |-> s[i]]
    BY DEF n
  <2> QED
    BY <2>1
<1> HIDE DEF S
<1>2. s \in Seq(S)
  BY <1>1
<1>3. s \in Seq(S \cup {e}) /\ e \in S \cup {e}
  BY <1>2, SeqMonotonic
<1> QED
  BY <1>3, ConcatEmptySeq, AppendIsConcat

LEMMA BuildIs ==
  ASSUME NEW gbt \in Templates, NEW config \in Configurations
  PROVE  build_coinbase_tx(gbt, config) =
            serialize_segwit_tx(Sig(gbt),
                IF gbt.commitment = <<>> THEN Pays(gbt, config)
                ELSE Append(Pays(gbt, config), Announced(gbt)), Stack(gbt))
<1> DEFINE pays == Pays(gbt, config)
           e == Announced(gbt)
<1>1. pays = [i \in 1 .. Len(pays) |-> pays[i]] /\ Len(pays) \in Nat
  BY PayIs DEF IsPayment
<1> HIDE DEF pays, e
<1>2. pays \o <<>> = pays /\ pays \o <<e>> = Append(pays, e)
  BY <1>1, Joined
<1>3. build_coinbase_tx(gbt, config) =
         serialize_segwit_tx(Sig(gbt), pays \o (IF gbt.commitment = <<>> THEN <<>> ELSE <<e>>), Stack(gbt))
  BY Zenon DEF build_coinbase_tx, Sig, Stack, Part, Pays, Announced, pays, e
<1> QED
  BY <1>2, <1>3, Zenon DEF pays, e

LEMMA ScriptCommits ==
  ASSUME NEW digest
  PROVE  /\ CommitmentScript(digest) \in Seq(Range(CommitmentScript(digest)))
         /\ Len(CommitmentScript(digest)) = Len(CommitmentHead) + 1
         /\ Last(CommitmentScript(digest)) = digest
         /\ IsCommitment(CommitmentScript(digest))
<1> DEFINE script == CommitmentScript(digest)
           head == CommitmentHead
           tail == <<digest>>
           S == Nat \cup {digest}
<1>1. head \in Seq(Nat) /\ Len(head) = 6
  BY DEF CommitmentHead
<1>2. tail \in Seq(S) /\ Len(tail) = 1 /\ tail[1] = digest /\ Nat \subseteq S
  OBVIOUS
<1>3. script = head \o tail
  BY Zenon DEF CommitmentScript
<1> HIDE DEF script, head, tail, S
<1>4. head \in Seq(S)
  BY <1>1, <1>2, SeqMonotonic
<1>5. /\ script \in Seq(S) /\ Len(script) = Len(head) + Len(tail)
      /\ \A i \in 1 .. Len(head) + Len(tail) :
            script[i] = IF i <= Len(head) THEN head[i] ELSE tail[i - Len(head)]
  BY <1>2, <1>3, <1>4, ConcatProperties
<1>6. /\ Len(script) = Len(head) + 1 /\ \A i \in 1 .. Len(head) : script[i] = head[i]
      /\ script[Len(script)] = digest
  BY <1>1, <1>2, <1>5
<1>7. script \in Seq(Range(script))
  <2>1. Len(script) \in Nat /\ DOMAIN script = 1 .. Len(script)
        /\ script = [i \in 1 .. Len(script) |-> script[i]]
    BY <1>5
  <2>2. \A i \in 1 .. Len(script) : script[i] \in Range(script)
    BY <2>1, Zenon DEF Range
  <2> QED
    BY <2>1, <2>2
<1>8. IsCommitment(script)
  <2>1. SubSeq(head, 1, Len(head)) = SubSeq(script, 1, Len(head))
    BY <1>1, <1>5, <1>6
  <2>2. IsPrefix(head, script)
    BY <1>1, <1>6, <2>1 DEF IsPrefix
  <2> QED
    BY <1>1, <1>6, <2>2 DEF IsCommitment, head
<1>9. Last(script) = digest
  BY <1>6 DEF Last
<1> QED
  BY <1>6, <1>7, <1>8, <1>9 DEF script, head

\* The commitment of a template ends in its digest.
LEMMA AnnouncedCommits ==
  ASSUME NEW gbt \in Templates, gbt.commitment # <<>>
  PROVE  /\ gbt.commitment \in Seq(Range(gbt.commitment))
         /\ Len(gbt.commitment) = Len(CommitmentHead) + 1
         /\ IsCommitment(gbt.commitment)
<1> DEFINE digest == Last(gbt.commitment)
<1>1. gbt.commitment = CommitmentScript(digest)
  BY TemplatesAssumption
<1> HIDE DEF digest
<1> QED
  BY <1>1, ScriptCommits

LEMMA CommitmentOutputIs ==
  ASSUME NEW gbt \in Templates, gbt.commitment # <<>>
  PROVE  /\ IsOutput(Announced(gbt), Cells(gbt)) /\ IsOutput(Commits(gbt), Cells(gbt))
         /\ IsCommitment(Announced(gbt).script)
         /\ Commits(gbt).value = Announced(gbt).value
         /\ Commits(gbt).script = CommitmentScript(WitnessCommitment(gbt.transactions))
         /\ Len(Commits(gbt).script) = Len(Announced(gbt).script)
<1> DEFINE Cell == Cells(gbt)
           old == gbt.commitment
           digest == WitnessCommitment(gbt.transactions)
           head == CommitmentHead
           new == head \o <<digest>>
<1>1. /\ old \in Seq(Range(old)) /\ Len(old) = Len(head) + 1 /\ IsCommitment(old)
  BY AnnouncedCommits, Zenon
<1>2. Nat \subseteq Cell /\ digest \in Cell /\ Range(old) \subseteq Cell
  BY Zenon DEF Cells
<1>3. head \in Seq(Nat) /\ Len(head) = 6
  BY DEF CommitmentHead
<1> HIDE DEF Cell, digest, old, head
<1>4. head \in Seq(Cell)
  BY <1>2, <1>3, Wider, Zenon
<1>5. <<digest>> \in Seq(Cell) /\ Len(<<digest>>) = 1
  BY <1>2
<1>6. new \in Seq(Cell) /\ Len(new) = Len(head) + 1
  BY <1>4, <1>5, ConcatProperties, Zenon
<1>7. old \in Seq(Cell)
  BY <1>1, <1>2, SeqMonotonic
<1> HIDE DEF new
<1>8. IsShort(Len(old)) /\ IsShort(Len(new))
  BY <1>1, <1>3, <1>6 DEF IsShort
<1>9. 0 \in Nat
  OBVIOUS
<1>10. /\ Announced(gbt) = [value |-> 0, script |-> old]
       /\ Commits(gbt) = [value |-> 0, script |-> new]
  BY Zenon DEF Announced, Commits, Output, CommitmentScript, old, new, digest, head
<1>11. /\ Announced(gbt).value = 0 /\ Announced(gbt).script = old
       /\ Commits(gbt).value = 0 /\ Commits(gbt).script = new
  BY <1>10
<1>12. IsOutput(Announced(gbt), Cell) /\ IsOutput(Commits(gbt), Cell)
  BY <1>6, <1>7, <1>8, <1>9, <1>10, <1>11, Zenon DEF IsOutput
<1> QED
  BY <1>1, <1>6, <1>11, <1>12, Zenon DEF Cell, new, head, digest, CommitmentScript

LEMMA FinalIs ==
  ASSUME NEW gbt \in Templates, NEW config \in Configurations
  PROVE  /\ Committed(gbt, config) = serialize_segwit_tx(Sig(gbt), Final(gbt, config), Stack(gbt))
         /\ gbt.commitment # <<>> =>
               Len(Committed(gbt, config)) = Len(build_coinbase_tx(gbt, config))
<1> DEFINE Cell == Cells(gbt)
           sig == Sig(gbt)
           pays == Pays(gbt, config)
           stack == Stack(gbt)
           built == build_coinbase_tx(gbt, config)
<1>1. CASE gbt.commitment = <<>>
  BY <1>1, BuildIs DEF Committed, Final
<1>2. CASE gbt.commitment # <<>>
  <2> DEFINE o == Announced(gbt)
             put == Commits(gbt)
  <2>1. /\ IsPayment(sig, pays, Cell) /\ IsShort(Len(pays) + 1)
        /\ \A i \in 1 .. Len(pays) : ~IsCommitment(pays[i].script)
    BY PayIs, Zenon
  <2>2. Ending(stack) \in Seq(Cell)
    BY EndingType, Zenon
  <2>3. /\ IsOutput(o, Cell) /\ IsCommitment(o.script) /\ IsOutput(put, Cell)
        /\ put.value = o.value
        /\ put.script = CommitmentScript(WitnessCommitment(gbt.transactions))
        /\ Len(put.script) = Len(o.script)
    BY <1>2, CommitmentOutputIs, Zenon
  <2>4. built = serialize_segwit_tx(sig, Append(pays, o), stack)
    BY <1>2, BuildIs
  <2> HIDE DEF sig, pays, stack, o, put, Cell, built
  <2> DEFINE raws == gbt.transactions
             before == serialize_segwit_tx(sig, Append(pays, o), stack)
             after == serialize_segwit_tx(sig, Append(pays, put), stack)
  <2>5. regenerate_witness_commitment(before, raws) = after /\ Len(after) = Len(before)
    <3>1. Replaces(sig, pays, o, put, stack, raws)
      BY <2>1, <2>2, <2>3, CommitmentReplaced, Zenon
    <3> QED
      BY <3>1, Zenon DEF Replaces
  <2>6. Committed(gbt, config) = regenerate_witness_commitment(built, raws)
    BY <1>2, Zenon DEF Committed, built
  <2>7. Final(gbt, config) = Append(pays, put)
    BY <1>2, Zenon DEF Final, pays, put
  <2> QED
    BY <2>4, <2>5, <2>6, <2>7, Zenon DEF built, sig, stack
<1> QED
  BY <1>1, <1>2

LEMMA FinalPays ==
  ASSUME NEW gbt \in Templates, NEW config \in Configurations
  PROVE  IsPayment(Sig(gbt), Final(gbt, config), Cells(gbt))
<1>1. CASE gbt.commitment = <<>>
  BY <1>1, PayIs, Zenon DEF Final
<1>2. CASE gbt.commitment # <<>>
  <2>1. IsOutput(Commits(gbt), Cells(gbt))
    BY <1>2, CommitmentOutputIs, Zenon
  <2>2. HasLast(Sig(gbt), Pays(gbt, config), Commits(gbt), Stack(gbt), Cells(gbt))
    BY <2>1, PayIs, EndingType, LastApart, Zenon
  <2> QED
    BY <1>2, <2>2, Zenon DEF HasLast, Final
<1> QED
  BY <1>1, <1>2

LEMMA FinalReadsBack ==
  ASSUME NEW gbt \in Templates, NEW config \in Configurations
  PROVE  OutputsOf(Committed(gbt, config)) = Final(gbt, config)
<1> DEFINE Cell == Cells(gbt)
           sig == Sig(gbt)
           outs == Final(gbt, config)
           tx == serialize_segwit_tx(sig, outs, Stack(gbt))
<1>1. IsPayment(sig, outs, Cell)
  BY FinalPays, Zenon
<1>2. IsWritten(tx, sig, outs, Cell)
  BY <1>1, EndingType, Layout, Zenon
<1>3. tx = Committed(gbt, config)
  BY FinalIs
<1> HIDE DEF tx, sig, outs, Cell
<1>4. PICK off : tx \in Seq(Cell) /\ LaidOut(tx, sig, outs, off)
  BY <1>2, Zenon DEF IsWritten
<1>5. OutputsOf(tx) = outs
  BY <1>1, <1>4, ReadBack, Zenon
<1> QED
  BY <1>3, <1>5 DEF outs

\* What CoinbaseReadsBack says of one coinbase.
ReadsBack(gbt, config, tx) ==
    LET outputs == OutputsOf(tx)
        part == split_coinbase_value(gbt.coinbasevalue, coinbase_dev_fee_bps(config))
        pays == <<Output(part.user, config.payout)>>
                  \o (IF part.dev = 0 THEN <<>> ELSE <<Output(part.dev, config.dev)>>)
    IN  IF gbt.commitment = <<>> THEN outputs = pays
        ELSE /\ Len(tx) = Len(build_coinbase_tx(gbt, config))
             /\ IsPrefix(pays, outputs) /\ Len(outputs) = Len(pays) + 1
             /\ Last(outputs) = Output(0, CommitmentScript(WitnessCommitment(gbt.transactions)))

LEMMA CommittedReadsBack ==
  ASSUME NEW gbt \in Templates, NEW config \in Configurations
  PROVE  ReadsBack(gbt, config, Committed(gbt, config))
<1> DEFINE part == split_coinbase_value(gbt.coinbasevalue, coinbase_dev_fee_bps(config))
           o == Output(part.user, config.payout)
           p == Output(part.dev, config.dev)
           pays == <<o>> \o (IF part.dev = 0 THEN <<>> ELSE <<p>>)
           tx == Committed(gbt, config)
           outs == Final(gbt, config)
           e == Commits(gbt)
<1>1. pays = Pays(gbt, config)
  <2>1. part.dev \in Nat
    <3>1. gbt.coinbasevalue \in Nat /\ config.percent \in Int
      BY TemplatesAssumption
    <3>2. coinbase_dev_fee_bps(config) \in Nat /\ coinbase_dev_fee_bps(config) <= 10000
      BY <3>1, FeeRange DEF coinbase_dev_fee_bps
    <3> QED
      BY <3>1, <3>2, SplitIsWhole
  <2> DEFINE dev == part.dev
  <2>2. dev > 0 <=> ~(dev = 0)
    <3> HIDE DEF dev
    <3> QED
      BY <2>1 DEF dev
  <2>3. Pays(gbt, config) = <<o>> \o (IF dev > 0 THEN <<p>> ELSE <<>>)
    BY Zenon DEF Pays, Part
  <2> HIDE DEF o, p
  <2> QED
    BY <2>2, <2>3, Zenon
<1>2. OutputsOf(tx) = outs
  BY FinalReadsBack, Zenon
<1>3. CASE gbt.commitment = <<>>
  <2>1. outs = pays
    BY <1>1, <1>3, Zenon DEF Final
  <2> QED
    BY <1>2, <1>3, <2>1, Zenon DEF ReadsBack
<1>4. CASE gbt.commitment # <<>>
  <2>1. IsOutput(e, Cells(gbt))
    BY <1>4, CommitmentOutputIs, Zenon
  <2>2. HasLast(Sig(gbt), pays, e, Stack(gbt), Cells(gbt)) /\ Len(pays) \in Nat
    <3>1. HasLast(Sig(gbt), Pays(gbt, config), e, Stack(gbt), Cells(gbt))
      BY <2>1, PayIs, EndingType, LastApart, Zenon
    <3>2. Len(Pays(gbt, config)) \in Nat
      BY PayIs, Zenon DEF IsPayment
    <3> HIDE DEF pays
    <3> QED
      BY <1>1, <3>1, <3>2, Zenon
  <2>3. outs = Append(pays, e)
    BY <1>1, <1>4, Zenon DEF Final
  <2> HIDE DEF pays, e, outs
  <2> DEFINE n == Len(pays)
  <2>4. Len(outs) = n + 1 /\ outs[n + 1] = e /\ \A i \in 1 .. n : outs[i] = pays[i]
    BY <2>2, <2>3, Zenon DEF HasLast
  <2>5. Last(outs) = e /\ Len(outs) = Len(pays) + 1
    BY <2>4, Zenon DEF Last
  <2>6. IsPrefix(pays, outs)
    <3>1. SubSeq(pays, 1, n) = SubSeq(outs, 1, n) /\ n <= Len(outs)
      <4> HIDE DEF n
      <4>1. n \in Nat
        BY <2>2 DEF n
      <4>2. SubSeq(pays, 1, n) = [i \in 1 .. n |-> pays[i]] /\ SubSeq(outs, 1, n) = [i \in 1 .. n |-> outs[i]]
        BY <4>1
      <4> QED
        BY <2>4, <4>1, <4>2
    <3> QED
      BY <3>1 DEF IsPrefix
  <2>7. Len(tx) = Len(build_coinbase_tx(gbt, config))
    BY <1>4, FinalIs, Zenon
  <2>8. e = Output(0, CommitmentScript(WitnessCommitment(gbt.transactions)))
    BY Zenon DEF e, Commits
  <2> QED
    BY <1>2, <1>4, <2>5, <2>6, <2>7, <2>8, Zenon DEF ReadsBack, pays, outs
<1> QED
  BY <1>3, <1>4

\* Which coinbases there are at each step.
BlockInv ==
    /\ stage \in {"begin", "build", "commit", "hash", "done"}
    /\ stage # "begin" => cfg \in Configurations /\ template \in [Use -> Templates]
    /\ stage = "commit" =>
         coinbase = [u \in Use |-> build_coinbase_tx(template[u], cfg)]
    /\ stage \in {"hash", "done"} =>
         coinbase = [u \in Use |-> Committed(template[u], cfg)]

LEMMA BlocksTyped == ArithmeticSpec => []BlockInv
<1>1. ArithmeticInit => BlockInv
  BY DEF ArithmeticInit, BlockInv
<1>2. BlockInv /\ [Choose \/ BuildBlock \/ DivideReward]_<<input, block, vars>> => BlockInv'
  <2> SUFFICES ASSUME BlockInv, [Choose \/ BuildBlock \/ DivideReward]_<<input, block, vars>>
               PROVE  BlockInv'
    OBVIOUS
  <2>1. CASE UNCHANGED block
    BY <2>1 DEF BlockInv, block
  <2>2. CASE Begin
    BY <2>2 DEF BlockInv, Begin
  <2>3. CASE Build
    BY <2>3 DEF BlockInv, Build
  <2>4. CASE Commit
    <3>1. /\ stage = "commit" /\ stage' = "hash" /\ cfg' = cfg /\ template' = template
          /\ coinbase = [u \in Use |-> build_coinbase_tx(template[u], cfg)]
          /\ cfg \in Configurations /\ template \in [Use -> Templates]
      BY <2>4 DEF BlockInv, Commit
    <3>2. coinbase' = [u \in Use |->
                IF template[u].commitment = <<>> THEN coinbase[u]
                ELSE regenerate_witness_commitment(coinbase[u], template[u].transactions)]
      BY <2>4 DEF Commit
    <3>3. \A u \in Use : coinbase[u] = build_coinbase_tx(template[u], cfg)
      BY <3>1
    <3>4. coinbase' = [u \in Use |-> Committed(template[u], cfg)]
      BY <3>2, <3>3 DEF Committed
    <3> QED
      BY <3>1, <3>4 DEF BlockInv
  <2>5. CASE Hash
    BY <2>5 DEF BlockInv, Hash
  <2> QED
    BY <2>1, <2>2, <2>3, <2>4, <2>5 DEF Choose, BuildBlock, DivideReward, block
<1> QED
  BY <1>1, <1>2, PTL DEF ArithmeticSpec

\* For every template and configuration: the coinbase of every job and of every
\* block is read back as it was meant, its commitment in place.
THEOREM CoinbaseAlwaysReadsBack == ArithmeticSpec => []CoinbaseReadsBack
<1>1. BlockInv => CoinbaseReadsBack
  <2> SUFFICES ASSUME BlockInv, stage \in {"hash", "done"}, NEW u \in Use
               PROVE  ReadsBack(template[u], cfg, coinbase[u])
    BY Zenon DEF CoinbaseReadsBack, ReadsBack
  <2>1. /\ cfg \in Configurations /\ template[u] \in Templates
        /\ coinbase[u] = Committed(template[u], cfg)
    BY DEF BlockInv
  <2> QED
    BY <2>1, CommittedReadsBack, Zenon
<1> QED
  BY <1>1, BlocksTyped, PTL

-----------------------------------------------------------------------------
(* Merkle trees *)

IsList(s) == Len(s) \in Nat /\ s = [i \in 1 .. Len(s) |-> s[i]]
AreDistinct(s) == \A i, j \in 1 .. Len(s) : s[i] = s[j] => i = j

LEMMA ListOf ==
  ASSUME NEW n \in Nat, NEW s, s = [i \in 1 .. n |-> s[i]]
  PROVE  IsList(s) /\ Len(s) = n
<1> DEFINE S == {s[i] : i \in 1 .. n}
<1>1. s \in [1 .. n -> S]
  OBVIOUS
<1> HIDE DEF S
<1>2. s \in Seq(S) /\ DOMAIN s = 1 .. n
  BY <1>1
<1>3. Len(s) = n
  BY <1>2, LenProperties
<1> QED
  BY <1>3 DEF IsList

LEMMA SameList ==
  ASSUME NEW s, NEW t, IsList(s), IsList(t), Len(s) = Len(t), \A i \in 1 .. Len(s) : s[i] = t[i]
  PROVE  s = t
  BY DEF IsList

LEMMA PairsOf ==
  ASSUME NEW n \in Nat, n > 0
  PROVE  /\ Pairs(n) \in Nat /\ Pairs(n) > 0 /\ (n > 1 => Pairs(n) < n)
         /\ n = 2 * Pairs(n) \/ n = 2 * Pairs(n) - 1
  BY DEF Pairs

\* What a pair of a layer becomes.
IsPair(x, a, b) == x = [digest |-> <<a, b>>]

LEMMA PairHasTwo ==
  ASSUME NEW x, NEW a, NEW b, IsPair(x, a, b)
  PROVE  Len(x.digest) = 2
  BY DEF IsPair

AreSame(a, b, c, d) == a = c /\ b = d

LEMMA PairIs ==
  ASSUME NEW x, NEW a, NEW b, NEW c, NEW d, IsPair(x, a, b), IsPair(x, c, d)
  PROVE  AreSame(a, b, c, d)
<1>1. x.digest = <<a, b>> /\ x.digest = <<c, d>>
  BY DEF IsPair
<1> QED
  BY <1>1 DEF AreSame

LEMMA PairedIs ==
  ASSUME NEW s, IsList(s), Len(s) > 0
  PROVE  /\ IsList(Paired(s)) /\ Len(Paired(s)) = Pairs(Len(s))
         /\ \A i \in 1 .. Pairs(Len(s)) :
               IsPair(Paired(s)[i], s[2 * i - 1], s[Neighbour(2 * i - 1, Len(s))])
<1> DEFINE n == Pairs(Len(s))
           p == Paired(s)
<1>1. n \in Nat
  BY PairsOf DEF IsList
<1>2. p = [i \in 1 .. n |-> sha256d(<<s[2 * i - 1], s[Neighbour(2 * i - 1, Len(s))]>>)]
  BY Zenon DEF Paired
<1> HIDE DEF n, p
<1>3. p = [i \in 1 .. n |-> p[i]]
  BY <1>2
<1>4. IsList(p) /\ Len(p) = n
  BY <1>1, <1>3, ListOf, Zenon
<1>5. \A i \in 1 .. n : p[i] = sha256d(<<s[2 * i - 1], s[Neighbour(2 * i - 1, Len(s))]>>)
  BY <1>2, Zenon
<1> QED
  BY <1>4, <1>5, Zenon DEF n, p, IsPair, sha256d

\* An element stands in one pair: the first of it, or the second.
LEMMA Halved ==
  ASSUME NEW n \in Nat, n > 0, NEW j \in 1 .. n
  PROVE  \E i \in 1 .. Pairs(n) : j = 2 * i - 1 \/ (j = 2 * i /\ Neighbour(2 * i - 1, n) = j)
<1>1. CASE j % 2 = 1
  <2>1. (j + 1) \div 2 \in 1 .. Pairs(n) /\ j = 2 * ((j + 1) \div 2) - 1
    BY <1>1 DEF Pairs
  <2> QED
    BY <2>1
<1>2. CASE j % 2 = 0
  <2> DEFINE i == j \div 2
  <2>1. i \in 1 .. Pairs(n) /\ j = 2 * i /\ 2 * i - 1 # n /\ (2 * i - 1) + 1 = j
    BY <1>2 DEF Pairs
  <2> HIDE DEF i
  <2>2. Neighbour(2 * i - 1, n) = j
    BY <2>1 DEF Neighbour
  <2> QED
    BY <2>1, <2>2
<1> QED
  BY <1>1, <1>2

LEMMA PairedDistinct ==
  ASSUME NEW s, IsList(s), Len(s) > 0, AreDistinct(s)
  PROVE  AreDistinct(Paired(s))
<1> DEFINE n == Len(s)
           p == Paired(s)
           m == Pairs(n)
<1>1. n \in Nat /\ m \in Nat /\ (n = 2 * m \/ n = 2 * m - 1)
  BY PairsOf DEF IsList
<1>2. Len(p) = m /\ \A i \in 1 .. m : IsPair(p[i], s[2 * i - 1], s[Neighbour(2 * i - 1, n)])
  BY PairedIs, Zenon
<1> HIDE DEF m, p
<1>3. ASSUME NEW i \in 1 .. m, NEW j \in 1 .. m, p[i] = p[j] PROVE i = j
  <2>1. s[2 * i - 1] = s[2 * j - 1]
    <3>1. IsPair(p[i], s[2 * i - 1], s[Neighbour(2 * i - 1, n)])
      BY <1>2, Zenon
    <3>2. IsPair(p[i], s[2 * j - 1], s[Neighbour(2 * j - 1, n)])
      BY <1>2, <1>3, Zenon
    <3>3. AreSame(s[2 * i - 1], s[Neighbour(2 * i - 1, n)], s[2 * j - 1], s[Neighbour(2 * j - 1, n)])
      BY <3>1, <3>2, PairIs, Zenon
    <3> QED
      BY <3>3, Zenon DEF AreSame
  <2>2. 2 * i - 1 \in 1 .. n /\ 2 * j - 1 \in 1 .. n
    BY <1>1
  <2>3. 2 * i - 1 = 2 * j - 1
    BY <2>1, <2>2, Zenon DEF AreDistinct
  <2> QED
    BY <2>3
<1> QED
  BY <1>2, <1>3 DEF AreDistinct, p

\* Of an odd number, the last is paired with itself: a list without repetition
\* has not the same pairs as one that is longer by one.
LEMMA PairedLength ==
  ASSUME NEW s, NEW t, IsList(s), IsList(t), Len(s) > 0, Len(t) > 0, AreDistinct(t),
         Paired(s) = Paired(t), Len(s) < Len(t)
  PROVE  FALSE
<1> DEFINE n == Len(s)
           m == Len(t)
           q == Pairs(n)
           p == Paired(s)
<1>1. n \in Nat /\ m \in Nat /\ n > 0 /\ m > 0 /\ n < m
  BY DEF IsList
<1>2. /\ Len(p) = q /\ \A i \in 1 .. q : IsPair(p[i], s[2 * i - 1], s[Neighbour(2 * i - 1, n)])
  BY PairedIs, Zenon
<1>3. /\ Len(p) = Pairs(m)
      /\ \A i \in 1 .. Pairs(m) : IsPair(p[i], t[2 * i - 1], t[Neighbour(2 * i - 1, m)])
  BY PairedIs, Zenon
<1> HIDE DEF n, m, p
<1>4. q \in Nat /\ q > 0 /\ (n = 2 * q \/ n = 2 * q - 1)
  BY <1>1, PairsOf
<1>5. Pairs(m) = q /\ (m = 2 * Pairs(m) \/ m = 2 * Pairs(m) - 1)
  <2>1. Pairs(m) = q
    BY <1>2, <1>3, Zenon
  <2>2. m = 2 * Pairs(m) \/ m = 2 * Pairs(m) - 1
    BY <1>1, PairsOf
  <2> QED
    BY <2>1, <2>2
<1> HIDE DEF q
<1>11. n = 2 * q - 1 /\ m = 2 * q
  BY <1>1, <1>4, <1>5
<1>6. q \in 1 .. q /\ Neighbour(2 * q - 1, n) = 2 * q - 1 /\ Neighbour(2 * q - 1, m) = 2 * q
  BY <1>4, <1>11 DEF Neighbour
<1>7. IsPair(p[q], s[2 * q - 1], s[2 * q - 1]) /\ IsPair(p[q], t[2 * q - 1], t[2 * q])
  BY <1>2, <1>3, <1>5, <1>6, Zenon
<1>8. t[2 * q - 1] = t[2 * q]
  <2>1. AreSame(s[2 * q - 1], s[2 * q - 1], t[2 * q - 1], t[2 * q])
    BY <1>7, PairIs, Zenon
  <2> QED
    BY <2>1, Zenon DEF AreSame
<1>9. 2 * q - 1 \in 1 .. m /\ 2 * q \in 1 .. m
  BY <1>4, <1>11
<1>10. 2 * q - 1 = 2 * q
  BY <1>8, <1>9, Zenon DEF AreDistinct, m
<1> QED
  BY <1>4, <1>10

LEMMA PairedSame ==
  ASSUME NEW s, NEW t, IsList(s), IsList(t), Len(s) > 0, Len(t) > 0,
         AreDistinct(s), AreDistinct(t), Paired(s) = Paired(t)
  PROVE  s = t
<1> DEFINE n == Len(s)
           p == Paired(s)
<1>1. Len(s) \in Nat /\ Len(t) \in Nat
  BY DEF IsList
<1>2. ~(Len(s) < Len(t)) /\ ~(Len(t) < Len(s))
  BY PairedLength, Zenon
<1>3. Len(t) = n
  BY <1>1, <1>2
<1>4. \A i \in 1 .. Pairs(n) : /\ IsPair(p[i], s[2 * i - 1], s[Neighbour(2 * i - 1, n)])
                               /\ IsPair(p[i], t[2 * i - 1], t[Neighbour(2 * i - 1, n)])
  <2>1. \A i \in 1 .. Pairs(n) : IsPair(p[i], s[2 * i - 1], s[Neighbour(2 * i - 1, n)])
    BY PairedIs, Zenon
  <2>2. \A i \in 1 .. Pairs(Len(t)) : IsPair(Paired(t)[i], t[2 * i - 1], t[Neighbour(2 * i - 1, Len(t))])
    BY PairedIs, Zenon
  <2> QED
    BY <1>3, <2>1, <2>2, Zenon
<1> HIDE DEF p
<1>5. ASSUME NEW j \in 1 .. n PROVE s[j] = t[j]
  <2>1. PICK i \in 1 .. Pairs(n) : j = 2 * i - 1 \/ (j = 2 * i /\ Neighbour(2 * i - 1, n) = j)
    BY <1>1, Halved
  <2>2. s[2 * i - 1] = t[2 * i - 1] /\ s[Neighbour(2 * i - 1, n)] = t[Neighbour(2 * i - 1, n)]
    <3>1. AreSame(s[2 * i - 1], s[Neighbour(2 * i - 1, n)], t[2 * i - 1], t[Neighbour(2 * i - 1, n)])
      BY <1>4, PairIs, Zenon
    <3> QED
      BY <3>1, Zenon DEF AreSame
  <2> QED
    BY <2>1, <2>2, Zenon
<1> QED
  BY <1>3, <1>5, SameList

Layers(f, s, n) == f = [k \in 0 .. n |-> IF k = 0 THEN s ELSE Paired(f[k - 1])]

LEMMA LayersExist ==
  ASSUME NEW s, NEW n \in Nat
  PROVE  \E f : Layers(f, s, n)
<1> DEFINE S == {k \in Nat : ~ \E f : Layers(f, s, k)}
<1>1. SUFFICES ASSUME S # {} PROVE FALSE
  OBVIOUS
<1>2. S \in SUBSET Nat
  OBVIOUS
<1>3. PICK k \in S : \A j \in S : ~ (j < k)
  <2> HIDE DEF S
  <2> QED
    BY <1>1, <1>2, Least
<1>4. CASE k = 0
  <2> DEFINE f == [i \in 0 .. 0 |-> s]
  <2>1. Layers(f, s, 0)
    BY DEF Layers
  <2> QED
    BY <1>4, <2>1
<1>5. CASE k # 0
  <2>1. PICK g : Layers(g, s, k - 1)
    BY <1>3, <1>5
  <2> DEFINE f == [i \in 0 .. k |-> IF i = 0 THEN s ELSE Paired(g[i - 1])]
  <2>2. \A i \in 0 .. k - 1 : g[i] = f[i]
    BY <2>1 DEF Layers
  <2>3. \A i \in 0 .. k : i # 0 => g[i - 1] = f[i - 1]
    <3> HIDE DEF f
    <3>1. k \in Nat
      OBVIOUS
    <3>2. \A i \in 0 .. k : i # 0 => i - 1 \in 0 .. k - 1
      BY <3>1
    <3> QED
      BY <2>2, <3>2
  <2>4. f = [i \in 0 .. k |-> IF i = 0 THEN s ELSE Paired(f[i - 1])]
    BY <2>3
  <2>5. Layers(f, s, k)
    BY <2>4 DEF Layers
  <2> QED
    BY <2>5
<1> QED
  BY <1>4, <1>5

LEMMA Shrinks ==
  ASSUME NEW n \in Nat, NEW l \in 1 .. n, NEW a \in Nat, NEW b \in Nat, a > 0, b > 0,
         a = 1 \/ a <= n - (l - 1), b <= a, a > 1 => b < a
  PROVE  b = 1 \/ b <= n - l
  OBVIOUS

LEMMA LastIsOne ==
  ASSUME NEW n \in Nat, NEW a \in Nat, a > 0, a = 1 \/ a <= n - (n - 1)
  PROVE  a = 1
  OBVIOUS

\* The layers over s, up to the k-th, which is the first of one hash.
IsLayer(s) == IsList(s) /\ Len(s) > 0 /\ AreDistinct(s)
IsTower(f, k, s) ==
    /\ k \in Nat /\ f[0] = s /\ Len(f[k]) = 1
    /\ \A l \in 0 .. k : IsLayer(f[l])
    /\ \A l \in 1 .. k : f[l] = Paired(f[l - 1])

LEMMA PairedLayer ==
  ASSUME NEW s, IsLayer(s)
  PROVE  /\ IsLayer(Paired(s)) /\ Len(Paired(s)) <= Len(s)
         /\ Len(s) > 1 => Len(Paired(s)) < Len(s)
<1>1. IsList(s) /\ Len(s) > 0 /\ AreDistinct(s) /\ Len(s) \in Nat
  BY DEF IsLayer, IsList
<1>2. AreDistinct(Paired(s))
  BY <1>1, PairedDistinct, Zenon
<1>3. IsList(Paired(s)) /\ Len(Paired(s)) = Pairs(Len(s))
  BY <1>1, PairedIs, Zenon
<1> DEFINE n == Len(s)
           m == Pairs(n)
<1>4. n \in Nat /\ n > 0
  BY <1>1
<1>5. m \in Nat /\ m > 0 /\ m <= n /\ (n > 1 => m < n)
  <2> HIDE DEF n
  <2>1. m \in Nat /\ m > 0 /\ (n > 1 => m < n) /\ (n = 2 * m \/ n = 2 * m - 1)
    BY <1>4, PairsOf
  <2> HIDE DEF m
  <2> QED
    BY <1>4, <2>1
<1> HIDE DEF m
<1>6. Len(Paired(s)) = m
  BY <1>3 DEF m
<1> QED
  BY <1>2, <1>3, <1>5, <1>6 DEF IsLayer

LEMMA TowerExists ==
  ASSUME NEW s, IsLayer(s)
  PROVE  \E f, k : IsTower(f, k, s) /\ merkle_root(s) = f[k][1]
<1> DEFINE n == Len(s)
           f == CHOOSE f : Layers(f, s, n)
           Top(k) == Len(f[k]) = 1 /\ \A l \in 0 .. k - 1 : Len(f[l]) > 1
           top == CHOOSE k \in DOMAIN f : Top(k)
<1>1. n \in Nat /\ n > 0
  BY DEF IsLayer, IsList
<1>2. Layers(f, s, n)
  <2>1. \E g : Layers(g, s, n)
    BY <1>1, LayersExist
  <2> HIDE DEF n
  <2> QED
    BY <2>1, Zenon
<1>3. s # <<>>
  BY <1>1
<1>4. merkle_root(s) = f[top][1]
  BY <1>3, Zenon DEF merkle_root, Layers
<1> HIDE DEF n, f
<1>5. f[0] = s /\ DOMAIN f = 0 .. n /\ \A l \in 1 .. n : f[l] = Paired(f[l - 1])
  BY <1>1, <1>2 DEF Layers
<1>6. \A l \in 0 .. n : IsLayer(f[l]) /\ (Len(f[l]) = 1 \/ Len(f[l]) <= n - l)
  <2> DEFINE P(l) == IsLayer(f[l]) /\ (Len(f[l]) = 1 \/ Len(f[l]) <= n - l)
             Q == {l \in Nat : P(l)}
  <2>1. 0 \in Q
    BY <1>1, <1>5 DEF n
  <2>2. ASSUME NEW l \in 1 .. n, l - 1 \in Q PROVE l \in Q
    <3> DEFINE g == f[l - 1]
               h == f[l]
    <3>1. h = Paired(g)
      BY <1>5
    <3>2. IsLayer(g) /\ (Len(g) = 1 \/ Len(g) <= n - (l - 1))
      BY <2>2
    <3>3. Len(g) \in Nat /\ Len(g) > 0
      BY <3>2 DEF IsLayer, IsList
    <3> HIDE DEF g, h
    <3>4. IsLayer(h) /\ Len(h) <= Len(g) /\ (Len(g) > 1 => Len(h) < Len(g))
      BY <3>1, <3>2, PairedLayer
    <3>5. Len(h) \in Nat /\ Len(h) > 0
      BY <3>4 DEF IsLayer, IsList
    <3>6. Len(h) = 1 \/ Len(h) <= n - l
      BY <1>1, <3>2, <3>3, <3>4, <3>5, Shrinks
    <3>7. l \in Nat
      BY <1>1
    <3> QED
      BY <3>4, <3>6, <3>7 DEF h
  <2>3. \A l \in 0 .. n : l \in Q
    <3> HIDE DEF Q
    <3> QED
      BY <1>1, <2>1, <2>2, CountUp
  <2> QED
    BY <2>3
<1>7. \A l \in 0 .. n : Len(f[l]) \in Nat /\ Len(f[l]) > 0
  BY <1>6 DEF IsLayer, IsList
<1>8. \E k \in 0 .. n : Top(k)
  <2> DEFINE B == {l \in 0 .. n : Len(f[l]) = 1}
  <2>1. n - 1 \in B
    <3>1. n - 1 \in 0 .. n /\ n - (n - 1) = 1
      BY <1>1
    <3>2. Len(f[n - 1]) = 1 \/ Len(f[n - 1]) <= n - (n - 1)
      BY <1>6, <3>1
    <3>3. Len(f[n - 1]) \in Nat /\ Len(f[n - 1]) > 0
      BY <1>7, <3>1
    <3>4. Len(f[n - 1]) = 1
      BY <1>1, <3>2, <3>3, LastIsOne
    <3> QED
      BY <3>1, <3>4
  <2>2. B \in SUBSET Nat
    OBVIOUS
  <2>3. PICK k \in B : \A j \in B : ~ (j < k)
    <3> HIDE DEF B
    <3> QED
      BY <2>1, <2>2, Least
  <2>4. k \in 0 .. n /\ \A l \in 0 .. k - 1 : l \in 0 .. n /\ l < k
    BY <1>1
  <2>5. \A l \in 0 .. k - 1 : Len(f[l]) > 1
    <3>1. \A l \in 0 .. k - 1 : Len(f[l]) # 1
      BY <2>3, <2>4
    <3>2. \A l \in 0 .. k - 1 : Len(f[l]) \in Nat /\ Len(f[l]) > 0
      BY <1>7, <2>4
    <3>3. \A a \in Nat : a # 1 /\ a > 0 => a > 1
      OBVIOUS
    <3> QED
      BY <3>1, <3>2, <3>3, Zenon
  <2>6. Top(k)
    BY <2>3, <2>5
  <2> QED
    BY <2>4, <2>6
<1>9. top \in 0 .. n /\ Top(top)
  BY <1>5, <1>8
<1> HIDE DEF top
<1>10. \A l \in 0 .. top : l \in 0 .. n
  BY <1>1, <1>9
<1>11. \A l \in 1 .. top : l \in 1 .. n
  BY <1>1, <1>9
<1>12. IsTower(f, top, s)
  BY <1>1, <1>5, <1>6, <1>9, <1>10, <1>11 DEF IsTower
<1> QED
  BY <1>4, <1>12

\* The hash of a pair is no leaf.
AreLeaves(s) == \A i \in 1 .. Len(s) : Len(s[i].digest) # 2

LEMMA TowersMeet ==
  ASSUME NEW s, NEW t, AreLeaves(s),
         NEW f, NEW k, IsTower(f, k, s), NEW g, NEW m, IsTower(g, m, t),
         f[k][1] = g[m][1], k <= m
  PROVE  s = t
<1>1. /\ k \in Nat /\ f[0] = s /\ Len(f[k]) = 1
      /\ \A l \in 0 .. k : IsLayer(f[l])
      /\ \A l \in 1 .. k : f[l] = Paired(f[l - 1])
  BY DEF IsTower
<1>2. /\ m \in Nat /\ g[0] = t /\ Len(g[m]) = 1
      /\ \A l \in 0 .. m : IsLayer(g[l])
      /\ \A l \in 1 .. m : g[l] = Paired(g[l - 1])
  BY DEF IsTower
<1>3. f[k] = g[m]
  <2>1. k \in 0 .. k /\ m \in 0 .. m
    BY <1>1, <1>2
  <2>2. IsList(f[k]) /\ IsList(g[m])
    BY <1>1, <1>2, <2>1, Zenon DEF IsLayer
  <2>3. \A i \in 1 .. Len(f[k]) : f[k][i] = g[m][i]
    <3>1. \A i \in 1 .. Len(f[k]) : i = 1
      BY <1>1
    <3> QED
      BY <3>1
  <2> QED
    BY <1>1, <1>2, <2>2, <2>3, SameList, Zenon
<1>4. \A j \in 0 .. k : f[k - j] = g[m - j]
  <2> DEFINE Q == {j \in Nat : f[k - j] = g[m - j]}
  <2>1. 0 \in Q
    BY <1>1, <1>2, <1>3
  <2>2. ASSUME NEW j \in 1 .. k, j - 1 \in Q PROVE j \in Q
    <3> DEFINE a == k - (j - 1)
               b == m - (j - 1)
    <3>1. a \in 1 .. k /\ b \in 1 .. m /\ a - 1 \in 0 .. k /\ b - 1 \in 0 .. m
          /\ a - 1 = k - j /\ b - 1 = m - j /\ j \in Nat
      BY <1>1, <1>2
    <3>2. f[a] = g[b]
      BY <2>2
    <3> HIDE DEF a, b
    <3>3. f[a] = Paired(f[a - 1]) /\ g[b] = Paired(g[b - 1])
      BY <1>1, <1>2, <3>1
    <3>4. Paired(f[a - 1]) = Paired(g[b - 1])
      BY <3>2, <3>3
    <3>5. IsLayer(f[a - 1]) /\ IsLayer(g[b - 1])
      BY <1>1, <1>2, <3>1
    <3>6. f[a - 1] = g[b - 1]
      BY <3>4, <3>5, PairedSame, Zenon DEF IsLayer
    <3> QED
      BY <3>1, <3>6
  <2>3. \A j \in 0 .. k : j \in Q
    <3> HIDE DEF Q
    <3> QED
      BY <1>1, <2>1, <2>2, CountUp
  <2> QED
    BY <2>3
<1>5. s = g[m - k]
  <2>1. k \in 0 .. k /\ k - k = 0
    BY <1>1
  <2>2. f[k - k] = g[m - k]
    BY <1>4, <2>1
  <2> QED
    BY <1>1, <2>1, <2>2
<1>6. ASSUME m # k PROVE FALSE
  <2> DEFINE b == m - k
  <2>1. b \in 1 .. m /\ b - 1 \in 0 .. m
    BY <1>1, <1>2, <1>6
  <2> HIDE DEF b
  <2>2. s = Paired(g[b - 1]) /\ IsLayer(g[b - 1])
    BY <1>2, <1>5, <2>1 DEF b
  <2> DEFINE u == g[b - 1]
             n == Len(u)
  <2>3. IsList(u) /\ n > 0 /\ n \in Nat
    BY <2>2 DEF IsLayer, IsList
  <2> HIDE DEF u
  <2>4. Len(s) = Pairs(n) /\ \A i \in 1 .. Pairs(n) : IsPair(s[i], u[2 * i - 1], u[Neighbour(2 * i - 1, n)])
    <3>1. s = Paired(u)
      BY <2>2 DEF u
    <3> QED
      BY <2>3, <3>1, PairedIs, Zenon
  <2>5. 1 \in 1 .. Pairs(n)
    BY <2>3, PairsOf
  <2>6. Len(s[1].digest) = 2
    BY <2>4, <2>5, PairHasTwo, Zenon
  <2> QED
    BY <2>4, <2>5, <2>6, Zenon DEF AreLeaves
<1>7. m - k = 0
  BY <1>1, <1>2, <1>6
<1> QED
  BY <1>2, <1>5, <1>7

\* Two blocks with the same merkle root have the same transactions, in the same
\* order (block_builder.py:93-104): of lists without repetitions no hash that
\* is paired with itself, and no list of another depth, leads to the same root.
THEOREM RootsDiffer ==
  ASSUME NEW s, NEW t, IsLayer(s), IsLayer(t), AreLeaves(s), AreLeaves(t),
         merkle_root(s) = merkle_root(t)
  PROVE  s = t
<1>1. PICK f, k : IsTower(f, k, s) /\ merkle_root(s) = f[k][1]
  BY TowerExists
<1>2. PICK g, m : IsTower(g, m, t) /\ merkle_root(t) = g[m][1]
  BY TowerExists
<1>3. k \in Nat /\ m \in Nat
  BY <1>1, <1>2 DEF IsTower
<1>4. f[k][1] = g[m][1]
  BY <1>1, <1>2
<1>5. CASE k <= m
  BY <1>1, <1>2, <1>4, <1>5, TowersMeet, Zenon
<1>6. CASE m <= k
  <2>1. t = s
    BY <1>1, <1>2, <1>4, <1>6, TowersMeet, Zenon
  <2> QED
    BY <2>1
<1> QED
  BY <1>3, <1>5, <1>6

-----------------------------------------------------------------------------
(* What a root binds *)

LEMMA SeqIsList ==
  ASSUME NEW S, NEW s \in Seq(S)
  PROVE  IsList(s)
  BY DEF IsList

LEMMA SigsSame ==
  ASSUME NEW data, NEW S, NEW s \in Seq(S), NEW t \in Seq(S), Opens(data, s), Opens(data, t)
  PROVE  s = t
<1> DEFINE m == Len(s)
           n == Len(t)
<1>1. /\ read_varint(data)[42] = [value |-> m, pos |-> 42 + Len(varint(m))]
      /\ read_varint(data)[42] = [value |-> n, pos |-> 42 + Len(varint(n))]
  BY Zenon DEF Opens, Read
<1>2. Continues(data, 41 + Len(varint(m)), s) /\ Continues(data, 41 + Len(varint(n)), t)
  BY Zenon DEF Opens
<1> HIDE DEF m, n
<1>3. m = n
  BY <1>1
<1> DEFINE few == 41 + Len(varint(m))
<1>4. Continues(data, few, s) /\ Continues(data, few, t)
  BY <1>2, <1>3
<1> HIDE DEF few
<1>5. \A i \in 1 .. Len(s) : s[i] = t[i]
  BY <1>3, <1>4, Zenon DEF Continues, m, n
<1> QED
  BY <1>3, <1>5, SeqEqual, Zenon DEF m, n

\* The first digits of a number do not depend on how many there are.
LEMMA FewerShifts ==
  ASSUME NEW n \in Nat, NEW v \in Nat, NEW w \in Nat, w <= v
  PROVE  \A i \in 0 .. w : Shifted(n, 256, w)[i] = Shifted(n, 256, v)[i]
<1> DEFINE g == Shifted(n, 256, w)
           h == Shifted(n, 256, v)
           Q == {i \in Nat : g[i] = h[i]}
<1>1. g[0] = n /\ \A i \in 1 .. w : g[i] = g[i - 1] \div 256
  BY ByteShifts
<1>2. h[0] = n /\ \A i \in 1 .. v : h[i] = h[i - 1] \div 256
  BY ByteShifts
<1> HIDE DEF g, h
<1>3. 0 \in Q
  BY <1>1, <1>2
<1>4. ASSUME NEW i \in 1 .. w, i - 1 \in Q PROVE i \in Q
  <2>1. i \in 1 .. v /\ i \in Nat
    OBVIOUS
  <2>2. g[i - 1] = h[i - 1]
    BY <1>4
  <2>3. g[i] = g[i - 1] \div 256 /\ h[i] = h[i - 1] \div 256
    BY <1>1, <1>2, <2>1
  <2> QED
    BY <2>1, <2>2, <2>3
<1>5. \A i \in 0 .. w : i \in Q
  <2> HIDE DEF Q
  <2> QED
    BY <1>3, <1>4, CountUp
<1> QED
  BY <1>5 DEF g, h

LEMMA HeightRead ==
  ASSUME NEW height, IsHeight(height)
  PROVE  LET bytes == encode_bip34_height(height) IN Number(bytes, 1, Len(bytes)) = height
<1> DEFINE bytes == encode_bip34_height(height)
<1>1. height \in Nat
  BY DEF IsHeight
<1>2. PICK w \in 0 .. 4 : Shifted(height, 256, 4)[w] = 0 /\ bytes = LittleEndian(height, w)
  BY HeightWidth
<1>3. w \in Nat /\ w <= 4 /\ 4 \in Nat /\ w \in 0 .. w
  OBVIOUS
<1> HIDE DEF bytes
<1>4. Shifted(height, 256, w)[w] = 0
  <2>1. \A i \in 0 .. w : Shifted(height, 256, w)[i] = Shifted(height, 256, 4)[i]
    BY <1>1, <1>3, FewerShifts
  <2> QED
    BY <1>2, <1>3, <2>1
<1>5. Len(bytes) = w
  BY <1>1, <1>2, <1>3, LittleEndianType
<1>6. \A i \in 1 .. w : bytes[1 + (i - 1)] = LittleEndian(height, w)[i]
  <2>1. \A i \in 1 .. w : 1 + (i - 1) = i
    OBVIOUS
  <2> QED
    BY <1>2, <2>1
<1>7. 1 \in Nat
  OBVIOUS
<1>8. Number(bytes, 1, w) = height
  BY <1>1, <1>3, <1>4, <1>6, <1>7, NumberReads
<1> QED
  BY <1>5, <1>8 DEF bytes

LEMMA HeightsSame ==
  ASSUME NEW h, NEW k, IsHeight(h), IsHeight(k),
         encode_bip34_height(h) = encode_bip34_height(k)
  PROVE  h = k
<1> DEFINE bytes == encode_bip34_height(h)
<1>1. Number(bytes, 1, Len(bytes)) = h
  BY HeightRead
<1>2. Number(bytes, 1, Len(bytes)) = k
  BY HeightRead
<1> QED
  BY <1>1, <1>2

LEMMA SameEnd ==
  ASSUME NEW S, NEW s \in Seq(S), NEW t \in Seq(S), NEW u \in Seq(S), s \o t = s \o u
  PROVE  t = u
<1>1. Len(s) \in Nat /\ Len(t) \in Nat /\ Len(u) \in Nat
  OBVIOUS
<1> DEFINE a == s \o t
           b == s \o u
           n == Len(s)
<1>2. /\ Len(a) = n + Len(t) /\ Len(b) = n + Len(u)
      /\ \A i \in 1 .. Len(t) : a[n + i] = t[i]
      /\ \A i \in 1 .. Len(u) : b[n + i] = u[i]
  BY <1>1, ConcatProperties
<1>3. a = b
  OBVIOUS
<1> HIDE DEF a, b, n
<1>4. Len(t) = Len(u)
  BY <1>1, <1>2, <1>3 DEF n
<1>5. \A i \in 1 .. Len(t) : t[i] = u[i]
  BY <1>2, <1>3, <1>4
<1> QED
  BY <1>4, <1>5, SeqEqual

LEMMA SigBinds ==
  ASSUME NEW one \in Templates, NEW other \in Templates, Sig(one) = Sig(other)
  PROVE  one.height = other.height
<1> DEFINE a == one.aux
           b == encode_bip34_height(one.height)
           c == encode_bip34_height(other.height)
<1>1. IsHeight(one.height) /\ IsHeight(other.height) /\ a \in Seq(Nat) /\ other.aux = a
  BY TemplatesAssumption DEF IsHeight
<1>2. b \in Seq(Nat) /\ c \in Seq(Nat)
  BY <1>1, HeightBytes
<1>3. a \o b = a \o c
  BY <1>1 DEF Sig
<1>4. b = c
  <2> HIDE DEF a, b, c
  <2> QED
    BY <1>1, <1>2, <1>3, SameEnd
<1> QED
  BY <1>1, <1>4, HeightsSame

LEMMA CommittedOpens ==
  ASSUME NEW gbt \in Templates, NEW config \in Configurations
  PROVE  /\ Opens(Committed(gbt, config), Sig(gbt))
         /\ Committed(gbt, config) \in Seq(Cells(gbt))
<1> DEFINE Cell == Cells(gbt)
           sig == Sig(gbt)
           outs == Final(gbt, config)
           tx == Committed(gbt, config)
<1>1. IsPayment(sig, outs, Cell)
  BY FinalPays, Zenon
<1>2. IsWritten(serialize_segwit_tx(sig, outs, Stack(gbt)), sig, outs, Cell)
  BY <1>1, EndingType, Layout, Zenon
<1>3. tx = serialize_segwit_tx(sig, outs, Stack(gbt))
  BY FinalIs
<1>4. IsWritten(tx, sig, outs, Cell)
  BY <1>2, <1>3, Zenon
<1> HIDE DEF tx, sig, outs, Cell
<1>5. tx \in Seq(Cell) /\ Continues(tx, 0, Preamble(sig, Len(outs)))
  BY <1>4, Zenon DEF IsWritten, LaidOut
<1>6. /\ Nat \subseteq Cell /\ sig \in Seq(Cell) /\ IsShort(Len(sig))
      /\ Len(outs) \in Nat /\ IsShort(Len(outs))
  BY <1>1 DEF IsPayment
<1>7. Opens(tx, sig)
  BY <1>5, <1>6, PreambleReads, Zenon
<1> QED
  BY <1>5, <1>7 DEF tx, sig, Cell

\* A payment to the developer is there when it is more than nothing.
LEMMA PaysBind ==
  ASSUME NEW one \in Templates, NEW other \in Templates, NEW config \in Configurations,
         Pays(one, config) = Pays(other, config)
  PROVE  one.coinbasevalue = other.coinbasevalue
<1> DEFINE v == one.coinbasevalue
           w == other.coinbasevalue
           f == coinbase_dev_fee_bps(config)
           p == split_coinbase_value(v, f)
           q == split_coinbase_value(w, f)
<1>1. v \in Nat /\ w \in Nat /\ config.percent \in Int
  BY TemplatesAssumption
<1>2. f \in Nat /\ f <= 10000
  BY <1>1, FeeRange DEF coinbase_dev_fee_bps
<1> HIDE DEF f
<1>3. /\ p.user \in Nat /\ p.dev \in Nat /\ p.user + p.dev = v
      /\ q.user \in Nat /\ q.dev \in Nat /\ q.user + q.dev = w
  <2> HIDE DEF v, w, p, q
  <2>1. p.user \in Nat /\ p.dev \in Nat /\ p.user + p.dev = v
    BY <1>1, <1>2, SplitIsWhole DEF p
  <2>2. q.user \in Nat /\ q.dev \in Nat /\ q.user + q.dev = w
    BY <1>1, <1>2, SplitIsWhole DEF q
  <2> QED
    BY <2>1, <2>2
<1> DEFINE a == p.user
           b == p.dev
           c == q.user
           d == q.dev
           Paid(user, dev) == <<Output(user, config.payout)>>
                                \o (IF dev > 0 THEN <<Output(dev, config.dev)>> ELSE <<>>)
<1>4. Pays(one, config) = Paid(a, b) /\ Pays(other, config) = Paid(c, d)
  BY Zenon DEF Pays, Part, f
<1>5. a \in Nat /\ b \in Nat /\ c \in Nat /\ d \in Nat /\ a + b = v /\ c + d = w
  BY <1>3
<1> HIDE DEF a, b, c, d, v, w
<1>6. ASSUME NEW user \in Nat, NEW dev \in Nat
      PROVE  /\ dev > 0 => Paid(user, dev) = <<Output(user, config.payout), Output(dev, config.dev)>>
             /\ ~(dev > 0) => Paid(user, dev) = <<Output(user, config.payout)>>
  <2> DEFINE o == Output(user, config.payout)
             e == Output(dev, config.dev)
  <2>1. <<o>> \o <<>> = <<o>> /\ <<o>> \o <<e>> = <<o, e>>
    BY JustOne, OneAndOne
  <2> HIDE DEF o, e
  <2>2. Paid(user, dev) = <<o>> \o (IF dev > 0 THEN <<e>> ELSE <<>>)
    BY Zenon DEF o, e
  <2> HIDE DEF Paid
  <2>3. CASE dev > 0
    BY <2>1, <2>2, <2>3 DEF o, e
  <2>4. CASE ~(dev > 0)
    BY <2>1, <2>2, <2>4 DEF o, e
  <2> QED
    BY <2>3, <2>4
<1>7. /\ b > 0 => Paid(a, b) = <<Output(a, config.payout), Output(b, config.dev)>>
      /\ ~(b > 0) => Paid(a, b) = <<Output(a, config.payout)>>
      /\ d > 0 => Paid(c, d) = <<Output(c, config.payout), Output(d, config.dev)>>
      /\ ~(d > 0) => Paid(c, d) = <<Output(c, config.payout)>>
  BY <1>5, <1>6
<1> HIDE DEF Paid
<1>8. Paid(a, b) = Paid(c, d)
  BY <1>4
<1>9. a = c /\ (b > 0 <=> d > 0) /\ (b > 0 => b = d)
  BY <1>7, <1>8 DEF Output
<1>10. v = w
  BY <1>5, <1>9
<1> QED
  BY <1>10 DEF v, w

LEMMA FinalLast ==
  ASSUME NEW gbt \in Templates, NEW config \in Configurations, gbt.commitment # <<>>
  PROVE  LET n == Len(Pays(gbt, config))
         IN  /\ n \in Nat /\ Len(Final(gbt, config)) = n + 1
             /\ Final(gbt, config)[n + 1] = Commits(gbt)
             /\ \A i \in 1 .. n : Final(gbt, config)[i] = Pays(gbt, config)[i]
<1> DEFINE pays == Pays(gbt, config)
           e == Commits(gbt)
           outs == Final(gbt, config)
<1>1. IsOutput(e, Cells(gbt))
  BY CommitmentOutputIs, Zenon
<1>2. HasLast(Sig(gbt), pays, e, Stack(gbt), Cells(gbt))
  BY <1>1, PayIs, EndingType, LastApart, Zenon
<1>3. Len(pays) \in Nat
  BY PayIs DEF IsPayment
<1>4. outs = Append(pays, e)
  BY Zenon DEF Final
<1> HIDE DEF pays, e, outs
<1> QED
  BY <1>2, <1>3, <1>4, Zenon DEF HasLast, pays, e, outs

\* The commitment is the only output that looks like one.
LEMMA FinalTells ==
  ASSUME NEW gbt \in Templates, NEW config \in Configurations
  PROVE  LET outs == Final(gbt, config)
         IN  /\ Len(outs) \in Nat \ {0} /\ IsList(Pays(gbt, config))
             /\ gbt.commitment # <<>> <=> IsCommitment(outs[Len(outs)].script)
<1> DEFINE outs == Final(gbt, config)
           pays == Pays(gbt, config)
           n == Len(pays)
<1>1. n \in Nat \ {0} /\ \A i \in 1 .. n : ~IsCommitment(pays[i].script)
  BY PayIs, Zenon DEF IsPayment
<1>2. IsList(pays)
  BY PayIs DEF IsPayment, IsList
<1>3. CASE gbt.commitment = <<>>
  <2>1. outs = pays
    BY <1>3 DEF Final
  <2> HIDE DEF pays, outs
  <2>2. n \in 1 .. n
    BY <1>1
  <2> QED
    BY <1>1, <1>2, <1>3, <2>1, <2>2 DEF pays, outs
<1>4. CASE gbt.commitment # <<>>
  <2> DEFINE script == CommitmentScript(WitnessCommitment(gbt.transactions))
  <2>1. Len(outs) = n + 1 /\ outs[n + 1] = Commits(gbt)
    BY <1>4, FinalLast
  <2>2. Commits(gbt).script = script
    BY DEF Commits, Output
  <2>3. IsCommitment(script)
    BY ScriptCommits
  <2> HIDE DEF outs, script, n
  <2>4. IsCommitment(outs[Len(outs)].script)
    BY <2>1, <2>2, <2>3, Zenon
  <2>5. Len(outs) \in Nat \ {0}
    BY <1>1, <2>1
  <2> QED
    BY <1>2, <1>4, <2>4, <2>5 DEF outs
<1> QED
  BY <1>3, <1>4

\* What two templates of one coinbase have in common.
Alike(one, other) ==
    /\ one.height = other.height /\ one.coinbasevalue = other.coinbasevalue
    /\ one.commitment = <<>> <=> other.commitment = <<>>
    /\ one.commitment # <<>> =>
         WitnessCommitment(one.transactions) = WitnessCommitment(other.transactions)

LEMMA FinalBinds ==
  ASSUME NEW one \in Templates, NEW other \in Templates, NEW config \in Configurations,
         Final(one, config) = Final(other, config)
  PROVE  /\ one.commitment = <<>> <=> other.commitment = <<>>
         /\ Pays(one, config) = Pays(other, config)
         /\ one.commitment # <<>> =>
              WitnessCommitment(one.transactions) = WitnessCommitment(other.transactions)
<1> DEFINE outs == Final(one, config)
           a == Pays(one, config)
           b == Pays(other, config)
<1>1. /\ one.commitment # <<>> <=> IsCommitment(outs[Len(outs)].script)
      /\ other.commitment # <<>> <=> IsCommitment(outs[Len(outs)].script)
      /\ IsList(a) /\ IsList(b)
  BY FinalTells, Zenon
<1>2. CASE one.commitment = <<>>
  <2>1. other.commitment = <<>>
    BY <1>1, <1>2
  <2>2. outs = a /\ outs = b
    BY <1>2, <2>1, Zenon DEF Final
  <2> QED
    BY <1>2, <2>1, <2>2
<1>3. CASE one.commitment # <<>>
  <2>1. other.commitment # <<>>
    BY <1>1, <1>3
  <2> DEFINE m == Len(a)
             n == Len(b)
             e == Commits(one)
             f == Commits(other)
  <2>2. /\ m \in Nat /\ Len(outs) = m + 1 /\ outs[m + 1] = e
        /\ \A i \in 1 .. m : outs[i] = a[i]
    BY <1>3, FinalLast
  <2>3. /\ n \in Nat /\ Len(outs) = n + 1 /\ outs[n + 1] = f
        /\ \A i \in 1 .. n : outs[i] = b[i]
    BY <2>1, FinalLast
  <2> HIDE DEF outs, e, f
  <2>4. m = n
    <3> HIDE DEF m, n
    <3> QED
      BY <2>2, <2>3
  <2>5. e = f
    BY <2>2, <2>3, <2>4
  <2>6. \A i \in 1 .. m : a[i] = b[i]
    BY <2>2, <2>3, <2>4
  <2>7. a = b
    <3> HIDE DEF a, b
    <3> QED
      BY <1>1, <2>4, <2>6, SameList, Zenon
  <2>8. WitnessCommitment(one.transactions) = WitnessCommitment(other.transactions)
    <3> DEFINE v == WitnessCommitment(one.transactions)
               w == WitnessCommitment(other.transactions)
    <3>1. e.script = CommitmentScript(v) /\ f.script = CommitmentScript(w)
      BY DEF e, f, Commits, Output
    <3> HIDE DEF v, w
    <3>2. CommitmentScript(v) = CommitmentScript(w)
      BY <2>5, <3>1
    <3>3. Last(CommitmentScript(v)) = v /\ Last(CommitmentScript(w)) = w
      BY ScriptCommits
    <3>4. v = w
      BY <3>2, <3>3
    <3> QED
      BY <3>4 DEF v, w
  <2> QED
    BY <1>3, <2>1, <2>7, <2>8
<1> QED
  BY <1>2, <1>3

LEMMA CoinbaseBinds ==
  ASSUME NEW one \in Templates, NEW other \in Templates, NEW config \in Configurations,
         Committed(one, config) = Committed(other, config)
  PROVE  Alike(one, other)
<1> DEFINE tx == Committed(one, config)
<1>1. OutputsOf(tx) = Final(one, config) /\ OutputsOf(tx) = Final(other, config)
  BY FinalReadsBack, Zenon
<1>2. Final(one, config) = Final(other, config)
  BY <1>1
<1>3. /\ one.commitment = <<>> <=> other.commitment = <<>>
      /\ Pays(one, config) = Pays(other, config)
      /\ one.commitment # <<>> =>
              WitnessCommitment(one.transactions) = WitnessCommitment(other.transactions)
  BY <1>2, FinalBinds, Zenon
<1>4. one.coinbasevalue = other.coinbasevalue
  BY <1>3, PaysBind, Zenon
<1>5. one.height = other.height
  <2> DEFINE Cell == Cells(one) \cup Cells(other)
             s == Sig(one)
             t == Sig(other)
  <2>1. Opens(tx, s) /\ Opens(tx, t)
    BY CommittedOpens, Zenon
  <2>2. s \in Seq(Cells(one)) /\ t \in Seq(Cells(other))
    BY SigType, Zenon
  <2>3. Cells(one) \subseteq Cell /\ Cells(other) \subseteq Cell
    OBVIOUS
  <2> HIDE DEF s, t, tx, Cell
  <2>4. s \in Seq(Cell) /\ t \in Seq(Cell)
    BY <2>2, <2>3, SeqMonotonic, Zenon
  <2>5. s = t
    BY <2>1, <2>4, SigsSame, Zenon
  <2> QED
    BY <2>5, SigBinds, Zenon DEF s, t
<1> QED
  BY <1>3, <1>4, <1>5 DEF Alike

\* And the other way.
LEMMA AlikeCommitted ==
  ASSUME NEW one \in Templates, NEW other \in Templates, NEW config \in Configurations,
         Alike(one, other)
  PROVE  Committed(one, config) = Committed(other, config)
<1>1. Sig(one) = Sig(other)
  <2>1. one.aux = other.aux
    BY TemplatesAssumption
  <2> QED
    BY <2>1 DEF Alike, Sig
<1>2. Pays(one, config) = Pays(other, config)
  BY Zenon DEF Alike, Pays, Part
<1>3. Stack(one) = Stack(other) /\ Final(one, config) = Final(other, config)
  <2>1. CASE one.commitment = <<>>
    BY <1>2, <2>1, Zenon DEF Alike, Stack, Final
  <2>2. CASE one.commitment # <<>>
    BY <1>2, <2>2, Zenon DEF Alike, Stack, Final, Commits
  <2> QED
    BY <2>1, <2>2
<1>4. /\ Committed(one, config) = serialize_segwit_tx(Sig(one), Final(one, config), Stack(one))
      /\ Committed(other, config) = serialize_segwit_tx(Sig(other), Final(other, config), Stack(other))
  BY FinalIs, Zenon
<1> QED
  BY <1>1, <1>3, <1>4

LEMMA Headed ==
  ASSUME NEW S, NEW x, NEW t \in Seq(S)
  PROVE  /\ IsList(<<x>> \o t) /\ Len(<<x>> \o t) = Len(t) + 1 /\ Len(t) \in Nat
         /\ (<<x>> \o t)[1] = x /\ \A i \in 1 .. Len(t) : (<<x>> \o t)[i + 1] = t[i]
         /\ DOMAIN (<<x>> \o t) = 1 .. Len(t) + 1
<1> DEFINE one == <<x>>
           T == S \cup {x}
           s == one \o t
           n == Len(t)
<1>1. one \in Seq(T) /\ Len(one) = 1 /\ one[1] = x
  OBVIOUS
<1>2. t \in Seq(T) /\ n \in Nat
  <2>1. S \subseteq T
    OBVIOUS
  <2> HIDE DEF T
  <2> QED
    BY <2>1, SeqMonotonic
<1> HIDE DEF one, T, n
<1>3. /\ s \in Seq(T) /\ Len(s) = 1 + n
      /\ \A i \in 1 .. 1 + n : s[i] = IF i <= 1 THEN one[i] ELSE t[i - 1]
  <2>1. /\ s \in Seq(T) /\ Len(s) = Len(one) + Len(t)
        /\ \A i \in 1 .. Len(one) + Len(t) : s[i] = IF i <= Len(one) THEN one[i] ELSE t[i - Len(one)]
    BY <1>1, <1>2, ConcatProperties
  <2> HIDE DEF s
  <2> QED
    BY <1>1, <2>1 DEF n
<1> HIDE DEF s
<1>4. IsList(s) /\ DOMAIN s = 1 .. n + 1 /\ Len(s) = n + 1
  BY <1>2, <1>3 DEF IsList
<1>5. s[1] = x
  BY <1>1, <1>2, <1>3
<1>6. ASSUME NEW i \in 1 .. n PROVE s[i + 1] = t[i]
  <2> DEFINE j == i + 1
  <2>1. j \in 1 .. 1 + n /\ ~(j <= 1) /\ j - 1 = i
    BY <1>2
  <2> HIDE DEF j
  <2>2. s[j] = t[j - 1]
    BY <1>3, <2>1
  <2> QED
    BY <2>1, <2>2 DEF j
<1> QED
  BY <1>2, <1>4, <1>5, <1>6 DEF s, one, n

LEMMA LongerThanTwo ==
  ASSUME NEW x, x > 5
  PROVE  x # 2
<1> SUFFICES ASSUME x = 2 PROVE FALSE
  OBVIOUS
<1>1. ~(2 > 5)
  OBVIOUS
<1> QED
  BY <1>1, Zenon

LEMMA Behind1 ==
  ASSUME NEW n \in Nat, NEW k \in 1 .. n + 1
  PROVE  k = 1 \/ \E i \in 1 .. n : k = i + 1
<1>1. k # 1 => k - 1 \in 1 .. n /\ k = (k - 1) + 1
  OBVIOUS
<1> QED
  BY <1>1

LEMMA HeadedLayer ==
  ASSUME NEW s, IsList(s), NEW n \in Nat, Len(s) = n + 1,
         \A i, j \in 1 .. n : s[i + 1] = s[j + 1] => i = j,
         \A i \in 1 .. n : s[i + 1] # s[1]
  PROVE  IsLayer(s)
<1>1. ASSUME NEW k \in 1 .. n + 1, NEW l \in 1 .. n + 1, s[k] = s[l] PROVE k = l
  <2>1. k = 1 \/ \E i \in 1 .. n : k = i + 1
    BY Behind1
  <2>2. l = 1 \/ \E i \in 1 .. n : l = i + 1
    BY Behind1
  <2>3. CASE k = 1
    BY <1>1, <2>2, <2>3
  <2>4. CASE \E i \in 1 .. n : k = i + 1
    BY <1>1, <2>2, <2>4
  <2> QED
    BY <2>1, <2>3, <2>4
<1>2. AreDistinct(s)
  BY <1>1 DEF AreDistinct
<1> QED
  BY <1>2 DEF IsLayer

LEMMA HashIs ==
  ASSUME NEW x
  PROVE  /\ sha256d(x).digest = x
         /\ \A y : sha256d(x) = sha256d(y) => x = y
<1>1. \A y : sha256d(y).digest = y
  BY DEF sha256d
<1> QED
  BY <1>1

\* The hashes that a root is computed from.
Ids(tx, raws) ==
    [i \in DOMAIN (<<tx>> \o raws) |-> txid_from_raw((<<tx>> \o raws)[i])]
WitnessIds(raws) == <<ZeroHash>> \o [i \in DOMAIN raws |-> wtxid_from_raw(raws[i])]

LEMMA RawsAre ==
  ASSUME NEW gbt \in Templates
  PROVE  LET raws == gbt.transactions
         IN  /\ raws \in Seq(Range(raws)) /\ IsList(raws) /\ DOMAIN raws = 1 .. Len(raws)
             /\ Len(raws) \in Nat
             /\ \A i \in 1 .. Len(raws) :
                  /\ Len(raws[i]) > 5
                  /\ Len(txid_from_raw(raws[i]).digest) > 5
                  /\ txid_from_raw(raws[i]).digest[6] # 0
                  /\ gbt.commitment = <<>> => txid_from_raw(raws[i]) = sha256d(raws[i])
             /\ \A i, j \in 1 .. Len(raws) :
                  txid_from_raw(raws[i]) = txid_from_raw(raws[j]) => i = j
<1> DEFINE raws == gbt.transactions
<1>1. /\ raws \in Seq(Range(raws))
      /\ \A i \in DOMAIN raws :
           /\ Len(raws[i]) > 5
           /\ Len(txid_from_raw(raws[i]).digest) > 5
           /\ txid_from_raw(raws[i]).digest[6] # 0
           /\ gbt.commitment = <<>> => txid_from_raw(raws[i]) = wtxid_from_raw(raws[i])
           /\ \A j \in DOMAIN raws : txid_from_raw(raws[i]) = txid_from_raw(raws[j]) => i = j
  BY TemplatesAssumption
<1> HIDE DEF raws
<1>2. IsList(raws) /\ DOMAIN raws = 1 .. Len(raws) /\ Len(raws) \in Nat
  BY <1>1 DEF IsList
<1>3. \A i \in 1 .. Len(raws) : wtxid_from_raw(raws[i]) = sha256d(raws[i])
  BY DEF wtxid_from_raw
<1>4. \A i \in 1 .. Len(raws) :
         /\ Len(raws[i]) > 5
         /\ Len(txid_from_raw(raws[i]).digest) > 5
         /\ txid_from_raw(raws[i]).digest[6] # 0
         /\ gbt.commitment = <<>> => txid_from_raw(raws[i]) = sha256d(raws[i])
  BY <1>1, <1>2, <1>3
<1>5. \A i, j \in 1 .. Len(raws) : txid_from_raw(raws[i]) = txid_from_raw(raws[j]) => i = j
  BY <1>1, <1>2
<1> QED
  BY <1>1, <1>2, <1>4, <1>5 DEF raws

LEMMA IdOfCoinbase ==
  ASSUME NEW tx, NEW S, tx \in Seq(S), NEW sig, Opens(tx, sig)
  PROVE  txid_from_raw(tx) = sha256d(tx) /\ tx[6] = 0 /\ Len(tx) > 5
<1>1. 5 \in DOMAIN tx /\ 6 \in DOMAIN tx /\ tx[5] = 1 /\ tx[6] = 0
  BY DEF Opens
<1>2. DOMAIN tx = 1 .. Len(tx) /\ Len(tx) \in Nat
  OBVIOUS
<1>3. Len(tx) > 5
  BY <1>1, <1>2
<1> DEFINE head == SubSeq(tx, 5, 6)
<1>4. head[1] = 1
  BY <1>1, <1>2, <1>3
<1>5. head # <<0, 1>>
  <2> HIDE DEF head
  <2> QED
    BY <1>4
<1> QED
  BY <1>1, <1>3, <1>5 DEF txid_from_raw

LEMMA IdsAre ==
  ASSUME NEW gbt \in Templates, NEW config \in Configurations
  PROVE  LET tx == Committed(gbt, config)
             raws == gbt.transactions
             s == Ids(tx, raws)
         IN  /\ IsLayer(s) /\ AreLeaves(s) /\ Len(s) = Len(raws) + 1
             /\ s[1] = sha256d(tx)
             /\ \A i \in 1 .. Len(raws) : s[i + 1] = txid_from_raw(raws[i])
<1> DEFINE tx == Committed(gbt, config)
           raws == gbt.transactions
           all == <<tx>> \o raws
           n == Len(raws)
           s == Ids(tx, raws)
<1>1. txid_from_raw(tx) = sha256d(tx) /\ tx[6] = 0 /\ Len(tx) > 5
  BY CommittedOpens, IdOfCoinbase
<1>2. /\ raws \in Seq(Range(raws)) /\ n \in Nat
      /\ \A i \in 1 .. n : /\ Len(txid_from_raw(raws[i]).digest) > 5
                           /\ txid_from_raw(raws[i]).digest[6] # 0
      /\ \A i, j \in 1 .. n : txid_from_raw(raws[i]) = txid_from_raw(raws[j]) => i = j
  BY RawsAre
<1> HIDE DEF tx, raws
<1>3. /\ all[1] = tx /\ \A i \in 1 .. n : all[i + 1] = raws[i]
      /\ DOMAIN all = 1 .. n + 1
  BY <1>2, Headed
<1>4. s = [i \in 1 .. n + 1 |-> txid_from_raw(all[i])]
  BY <1>3 DEF Ids
<1> HIDE DEF all, s, n
<1>5. n + 1 \in Nat /\ 1 \in 1 .. n + 1 /\ \A i \in 1 .. n : i + 1 \in 1 .. n + 1
  BY <1>2
<1>6. s = [i \in 1 .. n + 1 |-> s[i]]
  BY <1>4
<1>7. IsList(s) /\ Len(s) = n + 1
  BY <1>5, <1>6, ListOf, Zenon
<1>8. s[1] = sha256d(tx)
  BY <1>1, <1>3, <1>4, <1>5
<1>9. \A i \in 1 .. n : s[i + 1] = txid_from_raw(raws[i])
  BY <1>3, <1>4, <1>5
<1>10. s[1].digest = tx
  BY <1>8, HashIs
<1>11. \A i \in 1 .. n : s[i + 1] # s[1]
  <2> SUFFICES ASSUME NEW i \in 1 .. n, s[i + 1] = s[1] PROVE FALSE
    OBVIOUS
  <2>1. s[i + 1].digest[6] # 0
    BY <1>2, <1>9
  <2> QED
    BY <1>1, <1>10, <2>1
<1>12. \A i, j \in 1 .. n : s[i + 1] = s[j + 1] => i = j
  BY <1>2, <1>9
<1>13. IsLayer(s)
  BY <1>2, <1>7, <1>11, <1>12, HeadedLayer, Zenon
<1>14. AreLeaves(s)
  <2> SUFFICES ASSUME NEW k \in 1 .. n + 1 PROVE Len(s[k].digest) # 2
    BY <1>7 DEF AreLeaves
  <2>1. CASE k = 1
    BY <1>1, <1>10, <2>1
  <2>2. ASSUME NEW i \in 1 .. n, k = i + 1 PROVE Len(s[k].digest) # 2
    <3>1. Len(s[k].digest) > 5
      BY <1>2, <1>9, <2>2
    <3> QED
      BY <3>1, LongerThanTwo, Zenon
  <2>3. k = 1 \/ \E i \in 1 .. n : k = i + 1
    BY <1>2, Behind1
  <2> QED
    BY <2>1, <2>2, <2>3
<1> QED
  BY <1>7, <1>8, <1>9, <1>13, <1>14 DEF s, n, raws, tx

LEMMA WitnessIdsAre ==
  ASSUME NEW gbt \in Templates
  PROVE  LET raws == gbt.transactions
             s == WitnessIds(raws)
         IN  /\ IsLayer(s) /\ AreLeaves(s) /\ Len(s) = Len(raws) + 1
             /\ \A i \in 1 .. Len(raws) : s[i + 1] = sha256d(raws[i])
<1> DEFINE raws == gbt.transactions
           n == Len(raws)
           t == [i \in DOMAIN raws |-> wtxid_from_raw(raws[i])]
           s == WitnessIds(raws)
<1>1. /\ n \in Nat /\ DOMAIN raws = 1 .. n
      /\ \A i \in 1 .. n : Len(raws[i]) > 5
      /\ \A i, j \in 1 .. n : txid_from_raw(raws[i]) = txid_from_raw(raws[j]) => i = j
  BY RawsAre
<1> HIDE DEF raws, n
<1>2. t = [i \in 1 .. n |-> sha256d(raws[i])]
  BY <1>1 DEF wtxid_from_raw
<1> HIDE DEF t
<1> DEFINE S == {sha256d(raws[i]) : i \in 1 .. n}
<1>3. t \in [1 .. n -> S]
  BY <1>2
<1> HIDE DEF S
<1>4. t \in Seq(S) /\ Len(t) = n
  <2>1. t \in Seq(S) /\ DOMAIN t = 1 .. n
    BY <1>1, <1>3
  <2> QED
    BY <1>1, <2>1, LenProperties
<1>5. s = <<ZeroHash>> \o t
  BY Zenon DEF WitnessIds, t
<1> HIDE DEF s
<1>6. /\ IsList(s) /\ Len(s) = n + 1 /\ s[1] = ZeroHash
      /\ \A i \in 1 .. n : s[i + 1] = t[i]
  BY <1>4, <1>5, Headed
<1>7. \A i \in 1 .. n : s[i + 1] = sha256d(raws[i])
  BY <1>2, <1>6
<1>8. s[1].digest = <<>> /\ \A i \in 1 .. n : s[i + 1].digest = raws[i]
  <2>1. ZeroHash.digest = <<>>
    BY DEF ZeroHash
  <2> QED
    BY <1>6, <1>7, <2>1, HashIs
<1>9. \A i \in 1 .. n : s[i + 1] # s[1]
  <2> SUFFICES ASSUME NEW i \in 1 .. n, s[i + 1] = s[1] PROVE FALSE
    OBVIOUS
  <2>1. raws[i] = <<>> /\ Len(raws[i]) > 5
    BY <1>1, <1>8
  <2> QED
    BY <2>1
<1>10. \A i, j \in 1 .. n : s[i + 1] = s[j + 1] => i = j
  <2> SUFFICES ASSUME NEW i \in 1 .. n, NEW j \in 1 .. n, s[i + 1] = s[j + 1] PROVE i = j
    OBVIOUS
  <2>1. raws[i] = raws[j]
    BY <1>8
  <2> QED
    BY <1>1, <2>1
<1>11. IsLayer(s)
  BY <1>1, <1>6, <1>9, <1>10, HeadedLayer, Zenon
<1>12. AreLeaves(s)
  <2> SUFFICES ASSUME NEW k \in 1 .. n + 1 PROVE Len(s[k].digest) # 2
    BY <1>6 DEF AreLeaves
  <2>1. CASE k = 1
    BY <1>8, <2>1
  <2>2. ASSUME NEW i \in 1 .. n, k = i + 1 PROVE Len(s[k].digest) # 2
    <3>1. Len(s[k].digest) > 5
      BY <1>1, <1>8, <2>2
    <3> QED
      BY <3>1, LongerThanTwo, Zenon
  <2>3. k = 1 \/ \E i \in 1 .. n : k = i + 1
    BY <1>1, Behind1
  <2> QED
    BY <2>1, <2>2, <2>3
<1> QED
  BY <1>6, <1>7, <1>11, <1>12 DEF s, n, raws

\* Equal hashes are hashes of equal bytes, one by one.
LEMMA HashedSame ==
  ASSUME NEW s, NEW t, IsList(s), IsList(t), Len(s) = Len(t),
         \A i \in 1 .. Len(s) : sha256d(s[i]) = sha256d(t[i])
  PROVE  s = t
<1>1. \A i \in 1 .. Len(s) : s[i] = t[i]
  BY HashIs, Zenon
<1> QED
  BY <1>1, SameList, Zenon

LEMMA CommitmentBinds ==
  ASSUME NEW one \in Templates, NEW other \in Templates,
         WitnessCommitment(one.transactions) = WitnessCommitment(other.transactions)
  PROVE  one.transactions = other.transactions
<1> DEFINE a == one.transactions
           b == other.transactions
           s == WitnessIds(a)
           t == WitnessIds(b)
           x == merkle_root(s)
           y == merkle_root(t)
<1>1. WitnessCommitment(a) = sha256d(<<x, ZeroHash>>) /\ WitnessCommitment(b) = sha256d(<<y, ZeroHash>>)
  BY Zenon DEF WitnessCommitment, WitnessIds
<1>2. /\ IsLayer(s) /\ AreLeaves(s) /\ Len(s) = Len(a) + 1
      /\ \A i \in 1 .. Len(a) : s[i + 1] = sha256d(a[i])
  BY WitnessIdsAre
<1>3. /\ IsLayer(t) /\ AreLeaves(t) /\ Len(t) = Len(b) + 1
      /\ \A i \in 1 .. Len(b) : t[i + 1] = sha256d(b[i])
  BY WitnessIdsAre
<1>4. IsList(a) /\ IsList(b) /\ Len(a) \in Nat /\ Len(b) \in Nat
  BY RawsAre
<1> HIDE DEF x, y
<1>5. <<x, ZeroHash>> = <<y, ZeroHash>>
  <2>1. sha256d(<<x, ZeroHash>>) = sha256d(<<y, ZeroHash>>)
    BY <1>1
  <2> QED
    BY <2>1, HashIs
<1>6. x = y
  BY <1>5
<1> HIDE DEF a, b, s, t
<1>7. s = t
  BY <1>2, <1>3, <1>6, RootsDiffer, Zenon DEF x, y
<1>8. Len(a) = Len(b)
  BY <1>2, <1>3, <1>4, <1>7
<1>9. \A i \in 1 .. Len(a) : sha256d(a[i]) = sha256d(b[i])
  BY <1>2, <1>3, <1>7, <1>8, Zenon
<1>10. a = b
  BY <1>4, <1>8, <1>9, HashedSame, Zenon
<1> QED
  BY <1>10 DEF a, b

\* A root stands for one coinbase, and with it for one set of transactions:
\* without a commitment their hashes are in the root, with one it is the
\* coinbase that has them.
LEMMA RootBinds ==
  ASSUME NEW one \in Templates, NEW other \in Templates, NEW config \in Configurations,
         merkle_root(Ids(Committed(one, config), one.transactions))
           = merkle_root(Ids(Committed(other, config), other.transactions))
  PROVE  Alike(one, other) /\ one.transactions = other.transactions
<1> DEFINE x == Committed(one, config)
           y == Committed(other, config)
           a == one.transactions
           b == other.transactions
           s == Ids(x, a)
           t == Ids(y, b)
<1>1. /\ IsLayer(s) /\ AreLeaves(s) /\ Len(s) = Len(a) + 1 /\ s[1] = sha256d(x)
      /\ \A i \in 1 .. Len(a) : s[i + 1] = txid_from_raw(a[i])
  BY IdsAre
<1>2. /\ IsLayer(t) /\ AreLeaves(t) /\ Len(t) = Len(b) + 1 /\ t[1] = sha256d(y)
      /\ \A i \in 1 .. Len(b) : t[i + 1] = txid_from_raw(b[i])
  BY IdsAre
<1>3. merkle_root(s) = merkle_root(t)
  OBVIOUS
<1>4. /\ IsList(a) /\ IsList(b) /\ Len(a) \in Nat /\ Len(b) \in Nat
      /\ \A i \in 1 .. Len(a) : one.commitment = <<>> => txid_from_raw(a[i]) = sha256d(a[i])
      /\ \A i \in 1 .. Len(b) : other.commitment = <<>> => txid_from_raw(b[i]) = sha256d(b[i])
  BY RawsAre
<1> HIDE DEF s, t
<1>5. s = t
  BY <1>1, <1>2, <1>3, RootsDiffer, Zenon
<1>6. sha256d(x) = sha256d(y)
  BY <1>1, <1>2, <1>5
<1>7. x = y
  BY <1>6, HashIs, Zenon
<1>8. Alike(one, other)
  BY <1>7, CoinbaseBinds, Zenon
<1>9. a = b
  <2>1. CASE one.commitment # <<>>
    <3>1. WitnessCommitment(a) = WitnessCommitment(b)
      BY <1>8, <2>1 DEF Alike
    <3> QED
      BY <3>1, CommitmentBinds, Zenon
  <2>2. CASE one.commitment = <<>>
    <3>1. other.commitment = <<>>
      BY <1>8, <2>2 DEF Alike
    <3> HIDE DEF a, b
    <3>2. Len(a) = Len(b)
      BY <1>1, <1>2, <1>4, <1>5
    <3>3. \A i \in 1 .. Len(a) : sha256d(a[i]) = sha256d(b[i])
      BY <1>1, <1>2, <1>4, <1>5, <2>2, <3>1, <3>2, Zenon
    <3> QED
      BY <1>4, <3>2, <3>3, HashedSame, Zenon
  <2> QED
    BY <2>1, <2>2
<1> QED
  BY <1>8, <1>9

\* The roots behind the last step are those of the coinbases that are there.
RootInv ==
    stage = "done" =>
        root = [u \in Use |-> merkle_root(Ids(coinbase[u], template[u].transactions))]

LEMMA RootsTyped == ArithmeticSpec => []RootInv
<1>1. ArithmeticInit => RootInv
  BY DEF ArithmeticInit, RootInv
<1>2. RootInv /\ [Choose \/ BuildBlock \/ DivideReward]_<<input, block, vars>> => RootInv'
  <2> SUFFICES ASSUME RootInv, [Choose \/ BuildBlock \/ DivideReward]_<<input, block, vars>>
               PROVE  RootInv'
    OBVIOUS
  <2>1. CASE UNCHANGED block
    BY <2>1 DEF RootInv, block
  <2>2. CASE Begin \/ Build \/ Commit
    BY <2>2 DEF RootInv, Begin, Build, Commit
  <2>3. CASE Hash
    <3>1. /\ coinbase' = coinbase /\ template' = template
          /\ root' = [u \in Use |-> merkle_root(Ids(coinbase[u], template[u].transactions))]
      BY <2>3, Zenon DEF Hash, Transactions, Ids
    <3> QED
      BY <3>1 DEF RootInv
  <2> QED
    BY <2>1, <2>2, <2>3 DEF Choose, BuildBlock, DivideReward, block
<1> QED
  BY <1>1, <1>2, PTL DEF ArithmeticSpec

\* Whatever templates a job and a block are made from: the block is assembled
\* exactly when they agree on all that a header depends on.
THEOREM RootAlwaysBinds == ArithmeticSpec => []RootBindsTemplate
<1>1. BlockInv /\ RootInv => RootBindsTemplate
  <2> SUFFICES ASSUME BlockInv, RootInv, stage = "done"
               PROVE  Assembles <=>
                        /\ template["block"].transactions = template["job"].transactions
                        /\ template["block"].coinbasevalue = template["job"].coinbasevalue
                        /\ template["block"].height = template["job"].height
                        /\ template["block"].commitment = <<>> <=> template["job"].commitment = <<>>
    BY Zenon DEF RootBindsTemplate
  <2> DEFINE job == template["job"]
             other == template["block"]
             Root(gbt) == merkle_root(Ids(Committed(gbt, cfg), gbt.transactions))
  <2>1. job \in Templates /\ other \in Templates /\ cfg \in Configurations
    BY DEF BlockInv, Use
  <2>2. coinbase["job"] = Committed(job, cfg) /\ coinbase["block"] = Committed(other, cfg)
    BY DEF BlockInv, Use
  <2>3. root["job"] = Root(job) /\ root["block"] = Root(other)
    <3>1. /\ root["job"] = merkle_root(Ids(coinbase["job"], job.transactions))
          /\ root["block"] = merkle_root(Ids(coinbase["block"], other.transactions))
      BY DEF RootInv, Use
    <3> QED
      BY <2>2, <3>1
  <2>4. Assembles <=> Root(other) = Root(job)
    BY <2>3, Zenon DEF Assembles
  <2>5. ASSUME Root(other) = Root(job)
        PROVE  Alike(other, job) /\ other.transactions = job.transactions
    BY <2>1, <2>5, RootBinds, Zenon
  <2>6. ASSUME other.transactions = job.transactions, other.coinbasevalue = job.coinbasevalue,
               other.height = job.height, other.commitment = <<>> <=> job.commitment = <<>>
        PROVE  Root(other) = Root(job)
    <3>1. Alike(other, job)
      BY <2>6, Zenon DEF Alike
    <3>2. Committed(other, cfg) = Committed(job, cfg)
      BY <2>1, <3>1, AlikeCommitted, Zenon
    <3> QED
      BY <2>6, <3>2
  <2> HIDE DEF job, other, Root
  <2>7. Assembles <=> /\ other.transactions = job.transactions
                      /\ other.coinbasevalue = job.coinbasevalue
                      /\ other.height = job.height
                      /\ other.commitment = <<>> <=> job.commitment = <<>>
    BY <2>4, <2>5, <2>6, Zenon DEF Alike
  <2> QED
    BY <2>7 DEF job, other
<1> QED
  BY <1>1, BlocksTyped, RootsTyped, PTL

=============================================================================
