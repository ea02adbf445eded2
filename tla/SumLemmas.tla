----------------------------- MODULE SumLemmas -----------------------------
(***************************************************************************)
(* Lemmas about SumFunctionOnSet, the sum of the values f[x] over the      *)
(* members x of a finite set.  The ledger's books and the weights of a     *)
(* PPLNS window are such sums.  The sum is a recursive function over the   *)
(* subsets of the set, so that it exists and what it yields are proved     *)
(* here, each by a smallest counterexample.                                *)
(***************************************************************************)
EXTENDS Integers, FiniteSets, Functions, FiniteSetTheorems,
        WellFoundedInduction, TLAPS

-----------------------------------------------------------------------------
(* Induction over numbers and finite sets, with sets for predicates *)

\* Every set of natural numbers has a least member.
LEMMA Least ==
    ASSUME NEW B \in SUBSET Nat, B # {}
    PROVE  \E k \in B : \A j \in B : ~ (j < k)
<1> DEFINE R == OpToRel(<, Nat)
<1>1. PICK k \in B : \A j \in B : ~ (<<j, k>> \in R)
  <2> HIDE DEF R
  <2>1. IsWellFoundedOn(R, Nat)
    BY NatLessThanWellFounded DEF R
  <2> QED
    BY <2>1, WFMin
<1>2. \A j \in B : ~ (j < k)
  BY <1>1 DEF OpToRel
<1> QED
  BY <1>2

\* Counting reaches every number of an interval.
LEMMA CountUp ==
    ASSUME NEW n \in Nat, NEW Q, 0 \in Q, \A i \in 1 .. n : i - 1 \in Q => i \in Q
    PROVE  \A i \in 0 .. n : i \in Q
<1> DEFINE B == {i \in 0 .. n : i \notin Q}
<1>1. SUFFICES ASSUME B # {} PROVE FALSE
  OBVIOUS
<1>2. B \in SUBSET Nat
  OBVIOUS
<1>3. PICK k \in B : \A j \in B : ~ (j < k)
  <2> HIDE DEF B
  <2> QED
    BY <1>1, <1>2, Least
<1>4. k # 0 /\ k \in 1 .. n /\ k - 1 \in 0 .. n
  BY <1>3
<1> QED
  BY <1>3, <1>4

\* Every collection of subsets of a finite set has a smallest member.
LEMMA SmallestSubset ==
  ASSUME NEW S, IsFiniteSet(S), NEW B \in SUBSET (SUBSET S), B # {}
  PROVE  \E T \in B : \A U \in B : U \subseteq T => U = T
<1> DEFINE R == StrictSubsetOrdering(S)
<1>1. IsWellFoundedOn(R, FiniteSubsetsOf(S))
  BY FS_StrictSubsetOrderingWellFounded
<1>2. B \subseteq FiniteSubsetsOf(S)
  BY FS_Subset DEF FiniteSubsetsOf
<1>3. \E T \in B : \A U \in B : ~ (<<U, T>> \in R)
  <2> HIDE DEF R
  <2> QED
    BY <1>1, <1>2, WFMin
<1>4. PICK T \in B : \A U \in B : ~ (<<U, T>> \in R)
  BY <1>3
<1> QED
  BY <1>4 DEF StrictSubsetOrdering

\* A collection with the empty set that is closed under one more member of S
\* has S itself.
LEMMA SetInduction ==
  ASSUME NEW S, IsFiniteSet(S), NEW Q, {} \in Q,
         \A T \in SUBSET S : \A x \in S \ T : T \in Q => T \cup {x} \in Q
  PROVE  S \in Q
<1> DEFINE B == (SUBSET S) \ Q
<1>1. SUFFICES ASSUME B # {} PROVE FALSE
  OBVIOUS
<1>2. B \in SUBSET (SUBSET S)
  OBVIOUS
<1>3. PICK T \in B : \A U \in B : U \subseteq T => U = T
  <2> HIDE DEF B
  <2> QED
    BY <1>1, <1>2, SmallestSubset
<1>4. PICK x \in T : TRUE
  OBVIOUS
<1>5. T \ {x} \in Q
  BY <1>3, <1>4
<1>6. (T \ {x}) \cup {x} = T
  BY <1>4
<1> QED
  BY <1>3, <1>4, <1>5, <1>6

-----------------------------------------------------------------------------
(* The sum exists *)

\* The member a sum takes first.
Pick(s) == CHOOSE x \in s : TRUE

\* g holds the sum of every subset of S.
Iterates(g, f, S) ==
    g = [s \in SUBSET S |->
            IF s = {} THEN 0 ELSE f[Pick(s)] + g[s \ {Pick(s)}]]

LEMMA SumIsIteration ==
  ASSUME NEW f, NEW S
  PROVE  SumFunctionOnSet(f, S) = (CHOOSE g : Iterates(g, f, S))[S]
  BY DEF SumFunctionOnSet, FoldFunctionOnSet, MapThenFoldSet, Iterates, Pick

LEMMA IterationStep ==
  ASSUME NEW f, NEW S, NEW g, Iterates(g, f, S), NEW s \in SUBSET S
  PROVE  g[s] = IF s = {} THEN 0 ELSE f[Pick(s)] + g[s \ {Pick(s)}]
  BY DEF Iterates

\* What is summed over a subset does not depend on the set around it.
LEMMA IterationsAgree ==
  ASSUME NEW f, NEW S, NEW T, NEW U, IsFiniteSet(U),
         U \subseteq S, U \subseteq T,
         NEW g, Iterates(g, f, S), NEW h, Iterates(h, f, T)
  PROVE  g[U] = h[U]
<1> DEFINE B == {s \in SUBSET U : g[s] # h[s]}
<1>1. SUFFICES ASSUME B # {} PROVE FALSE
  OBVIOUS
<1>2. PICK s \in B : \A r \in B : r \subseteq s => r = s
  <2> B \in SUBSET (SUBSET U)
    OBVIOUS
  <2> HIDE DEF B
  <2> QED
    BY <1>1, SmallestSubset
<1>3. /\ s \in SUBSET S /\ s \in SUBSET T /\ g[s] # h[s]
      /\ \A r \in SUBSET s : r # s => g[r] = h[r]
  BY <1>2
<1> HIDE DEF B
<1>4. g[s] = IF s = {} THEN 0 ELSE f[Pick(s)] + g[s \ {Pick(s)}]
  BY <1>3 DEF Iterates
<1>5. h[s] = IF s = {} THEN 0 ELSE f[Pick(s)] + h[s \ {Pick(s)}]
  BY <1>3 DEF Iterates
<1>6. s # {} => g[s \ {Pick(s)}] = h[s \ {Pick(s)}]
  BY <1>3 DEF Pick
<1> QED
  BY <1>3, <1>4, <1>5, <1>6

LEMMA IterationExists ==
  ASSUME NEW f, NEW S, IsFiniteSet(S)
  PROVE  \E g : Iterates(g, f, S)
<1> DEFINE B == {T \in SUBSET S : ~ \E g : Iterates(g, f, T)}
           G(s) == CHOOSE g : Iterates(g, f, s)
           V(s) == G(s)[s]
<1>1. SUFFICES ASSUME B # {} PROVE FALSE
  OBVIOUS
<1>2. PICK T \in B : \A U \in B : U \subseteq T => U = T
  <2> B \in SUBSET (SUBSET S)
    OBVIOUS
  <2> HIDE DEF B
  <2> QED
    BY <1>1, SmallestSubset
<1>3. \A s \in SUBSET T : s # T => Iterates(G(s), f, s)
  <2> TAKE s \in SUBSET T
  <2> HAVE s # T
  <2>1. s \notin B
    BY <1>2
  <2> QED
    BY <2>1
<1> DEFINE W(s) == IF s = {} THEN 0 ELSE f[Pick(s)] + V(s \ {Pick(s)})
<1>4. \A s \in SUBSET T : s # T => V(s) = W(s)
  <2> SUFFICES ASSUME NEW s \in SUBSET T, s # T PROVE V(s) = W(s)
    OBVIOUS
  <2>1. Iterates(G(s), f, s)
    BY <1>3
  <2>2. s \in SUBSET s
    OBVIOUS
  <2>3. CASE s = {}
    <3> HIDE DEF G
    <3> QED
      BY <2>1, <2>2, <2>3, IterationStep
  <2>4. CASE s # {}
    <3> DEFINE r == s \ {Pick(s)}
    <3>1. Pick(s) \in s
      BY <2>4 DEF Pick
    <3>2. r \in SUBSET T /\ r # T /\ r \subseteq s /\ r \subseteq r
      BY <3>1
    <3>3. Iterates(G(r), f, r)
      BY <3>2, <1>3
    <3>4. IsFiniteSet(r)
      BY <3>2, FS_Subset
    <3>5. G(s)[r] = G(r)[r]
      <4> HIDE DEF G, r
      <4> QED
        BY <2>1, <3>2, <3>3, <3>4, IterationsAgree
    <3>6. G(s)[s] = f[Pick(s)] + G(s)[r]
      <4> HIDE DEF G
      <4> QED
        BY <2>1, <2>2, <2>4, IterationStep
    <3> HIDE DEF G
    <3> QED
      BY <2>4, <3>5, <3>6
  <2> QED
    BY <2>3, <2>4
<1> DEFINE g == [s \in SUBSET T |-> W(s)]
<1>5. Iterates(g, f, T)
  <2>1. \A s \in SUBSET T : s # {} =>
            /\ s \ {Pick(s)} \in SUBSET T
            /\ s \ {Pick(s)} # T
    BY DEF Pick
  <2>2. \A s \in SUBSET T : s # {} => g[s \ {Pick(s)}] = V(s \ {Pick(s)})
    <3> HIDE DEF V
    <3> QED
      BY <2>1, <1>4
  <2>3. \A s \in SUBSET T :
            W(s) = IF s = {} THEN 0 ELSE f[Pick(s)] + g[s \ {Pick(s)}]
    <3> HIDE DEF V, g
    <3> QED
      BY <2>2
  <2>4. g = [s \in SUBSET T |->
               IF s = {} THEN 0 ELSE f[Pick(s)] + g[s \ {Pick(s)}]]
    <3> HIDE DEF W
    <3> QED
      BY <2>3
  <2> HIDE DEF g
  <2> QED
    BY <2>4 DEF Iterates
<1> QED
  BY <1>2, <1>5

\* The sum of no members, and the sum of some by the one it takes first.
LEMMA SumStep ==
  ASSUME NEW f, NEW S, IsFiniteSet(S)
  PROVE  SumFunctionOnSet(f, S) =
            IF S = {} THEN 0
            ELSE f[Pick(S)] + SumFunctionOnSet(f, S \ {Pick(S)})
<1> DEFINE G(s) == CHOOSE g : Iterates(g, f, s)
<1>1. \A s : IsFiniteSet(s) => Iterates(G(s), f, s)
  BY IterationExists
<1>2. \A s : SumFunctionOnSet(f, s) = G(s)[s]
  BY SumIsIteration
<1> HIDE DEF G
<1>3. S \in SUBSET S
  OBVIOUS
<1>4. CASE S = {}
  <2>1. G(S)[S] = 0
    BY <1>1, <1>3, <1>4, IterationStep
  <2> QED
    BY <1>2, <1>4, <2>1
<1>5. CASE S # {}
  <2> DEFINE r == S \ {Pick(S)}
  <2>1. IsFiniteSet(r) /\ r \subseteq S /\ r \subseteq r
    BY FS_Subset
  <2>2. G(S)[S] = f[Pick(S)] + G(S)[r]
    BY <1>1, <1>3, <1>5, IterationStep
  <2>3. Iterates(G(S), f, S) /\ Iterates(G(r), f, r)
    BY <1>1, <2>1
  <2>4. G(S)[r] = G(r)[r]
    <3> HIDE DEF r
    <3> QED
      BY <2>1, <2>3, IterationsAgree
  <2> QED
    BY <1>2, <1>5, <2>2, <2>4
<1> QED
  BY <1>4, <1>5

-----------------------------------------------------------------------------
(* What the sum yields *)

LEMMA SumEmpty ==
  ASSUME NEW f
  PROVE  SumFunctionOnSet(f, {}) = 0
  BY SumStep, FS_EmptySet

\* The order in which members are taken is of no importance: the sum may take
\* any of them first.
LEMMA SumAny ==
  ASSUME NEW f, NEW S, IsFiniteSet(S), \A x \in S : f[x] \in Int, NEW y \in S
  PROVE  /\ SumFunctionOnSet(f, S) \in Int
         /\ SumFunctionOnSet(f, S) = f[y] + SumFunctionOnSet(f, S \ {y})
<1> DEFINE Sum(T) == SumFunctionOnSet(f, T)
           Good(T) == /\ Sum(T) \in Int
                      /\ \A x \in T : Sum(T) = f[x] + Sum(T \ {x})
           B == {T \in SUBSET S : ~Good(T)}
<1>1. SUFFICES ASSUME B # {} PROVE FALSE
  OBVIOUS
<1>2. PICK T \in B : \A U \in B : U \subseteq T => U = T
  <2> B \in SUBSET (SUBSET S)
    OBVIOUS
  <2> HIDE DEF B
  <2> QED
    BY <1>1, SmallestSubset
<1>3. \A U \in SUBSET T : U # T => Good(U)
  <2> TAKE U \in SUBSET T
  <2> HAVE U # T
  <2>1. U \notin B
    BY <1>2
  <2> HIDE DEF Good
  <2> QED
    BY <2>1
<1>4. IsFiniteSet(T)
  BY FS_Subset
<1> DEFINE p == Pick(T)
<1>5. Sum(T) = IF T = {} THEN 0 ELSE f[p] + Sum(T \ {p})
  BY <1>4, SumStep
<1>6. ~Good(T)
  OBVIOUS
<1>7. T # {} => p \in T
  BY DEF Pick
<1>8. \A x \in T : f[x] \in Int
  OBVIOUS
<1> HIDE DEF Sum, p, B
<1>9. CASE T = {}
  BY <1>5, <1>6, <1>9
<1>10. CASE T # {}
  <2>1. \A x \in T : Sum(T \ {x}) \in Int
    BY <1>3
  <2>2. Sum(T) \in Int
    BY <1>5, <1>7, <1>8, <1>10, <2>1
  <2>3. ASSUME NEW x \in T PROVE Sum(T) = f[x] + Sum(T \ {x})
    <3>1. CASE x = p
      BY <1>5, <1>10, <3>1
    <3>2. CASE x # p
      <4> DEFINE r == (T \ {p}) \ {x}
      <4>1. r = (T \ {x}) \ {p}
        OBVIOUS
      <4>2. Sum(T \ {p}) = f[x] + Sum(r)
        <5>1. Good(T \ {p}) /\ x \in T \ {p}
          BY <1>3, <1>7, <1>10, <3>2
        <5> QED
          BY <5>1
      <4>3. Sum(T \ {x}) = f[p] + Sum(r)
        <5>1. Good(T \ {x}) /\ p \in T \ {x}
          BY <1>3, <1>7, <1>10, <3>2
        <5> QED
          BY <5>1, <4>1
      <4>4. Sum(r) \in Int
        <5>1. Good(r)
          BY <1>3
        <5> QED
          BY <5>1
      <4> HIDE DEF r
      <4> QED
        BY <1>5, <1>7, <1>8, <1>10, <4>2, <4>3, <4>4
    <3> QED
      BY <3>1, <3>2
  <2> QED
    BY <1>6, <2>2, <2>3
<1> QED
  BY <1>9, <1>10

LEMMA SumInt ==
  ASSUME NEW f, NEW S, IsFiniteSet(S), \A x \in S : f[x] \in Int
  PROVE  SumFunctionOnSet(f, S) \in Int
<1>1. CASE S = {}
  BY <1>1, SumEmpty
<1>2. CASE S # {}
  BY <1>2, SumAny
<1> QED
  BY <1>1, <1>2

\* One member more.
LEMMA SumAdd ==
  ASSUME NEW f, NEW S, IsFiniteSet(S), NEW y, y \notin S,
         \A x \in S \cup {y} : f[x] \in Int
  PROVE  SumFunctionOnSet(f, S \cup {y}) = f[y] + SumFunctionOnSet(f, S)
<1>1. IsFiniteSet(S \cup {y}) /\ y \in S \cup {y} /\ (S \cup {y}) \ {y} = S
  BY FS_AddElement
<1> QED
  BY <1>1, SumAny

\* Functions that agree on the members have the same sum.
LEMMA SumSame ==
  ASSUME NEW f, NEW g, NEW S, IsFiniteSet(S),
         \A x \in S : f[x] \in Int /\ f[x] = g[x]
  PROVE  SumFunctionOnSet(f, S) = SumFunctionOnSet(g, S)
<1> DEFINE Q == {T \in SUBSET S :
                    SumFunctionOnSet(f, T) = SumFunctionOnSet(g, T)}
<1>1. {} \in Q
  BY SumEmpty
<1>2. ASSUME NEW T \in SUBSET S, NEW x \in S \ T, T \in Q
      PROVE  T \cup {x} \in Q
  <2>1. IsFiniteSet(T)
    BY FS_Subset
  <2>2. SumFunctionOnSet(f, T \cup {x}) = f[x] + SumFunctionOnSet(f, T)
    BY <2>1, SumAdd
  <2>3. SumFunctionOnSet(g, T \cup {x}) = g[x] + SumFunctionOnSet(g, T)
    BY <2>1, SumAdd
  <2> QED
    BY <1>2, <2>2, <2>3
<1>3. S \in Q
  <2> HIDE DEF Q
  <2> QED
    BY <1>1, <1>2, SetInduction
<1> QED
  BY <1>3

\* A sum of sums.
LEMMA SumPlus ==
  ASSUME NEW f, NEW g, NEW h, NEW S, IsFiniteSet(S),
         \A x \in S : f[x] \in Int /\ g[x] \in Int /\ h[x] = f[x] + g[x]
  PROVE  SumFunctionOnSet(h, S) =
            SumFunctionOnSet(f, S) + SumFunctionOnSet(g, S)
<1> DEFINE Q == {T \in SUBSET S :
                    SumFunctionOnSet(h, T) =
                       SumFunctionOnSet(f, T) + SumFunctionOnSet(g, T)}
<1>1. {} \in Q
  BY SumEmpty
<1>2. ASSUME NEW T \in SUBSET S, NEW x \in S \ T, T \in Q
      PROVE  T \cup {x} \in Q
  <2>1. IsFiniteSet(T)
    BY FS_Subset
  <2>2. SumFunctionOnSet(f, T \cup {x}) = f[x] + SumFunctionOnSet(f, T)
    BY <2>1, SumAdd
  <2>3. SumFunctionOnSet(g, T \cup {x}) = g[x] + SumFunctionOnSet(g, T)
    BY <2>1, SumAdd
  <2>4. SumFunctionOnSet(h, T \cup {x}) = h[x] + SumFunctionOnSet(h, T)
    BY <2>1, SumAdd
  <2>5. SumFunctionOnSet(f, T) \in Int /\ SumFunctionOnSet(g, T) \in Int
    BY <2>1, SumInt
  <2>6. /\ f[x] \in Int /\ g[x] \in Int /\ h[x] = f[x] + g[x]
        /\ SumFunctionOnSet(h, T) =
              SumFunctionOnSet(f, T) + SumFunctionOnSet(g, T)
    BY <1>2
  <2>7. SumFunctionOnSet(h, T \cup {x}) =
           SumFunctionOnSet(f, T \cup {x}) + SumFunctionOnSet(g, T \cup {x})
    BY <2>2, <2>3, <2>4, <2>5, <2>6
  <2> QED
    BY <2>7
<1>3. S \in Q
  <2> HIDE DEF Q
  <2> QED
    BY <1>1, <1>2, SetInduction
<1> QED
  BY <1>3

\* Larger members, larger sum.
LEMMA SumMonotone ==
  ASSUME NEW f, NEW g, NEW S, IsFiniteSet(S),
         \A x \in S : f[x] \in Int /\ g[x] \in Int /\ f[x] <= g[x]
  PROVE  SumFunctionOnSet(f, S) <= SumFunctionOnSet(g, S)
<1> DEFINE Q == {T \in SUBSET S :
                    SumFunctionOnSet(f, T) <= SumFunctionOnSet(g, T)}
<1>1. {} \in Q
  BY SumEmpty
<1>2. ASSUME NEW T \in SUBSET S, NEW x \in S \ T, T \in Q
      PROVE  T \cup {x} \in Q
  <2>1. IsFiniteSet(T)
    BY FS_Subset
  <2>2. SumFunctionOnSet(f, T \cup {x}) = f[x] + SumFunctionOnSet(f, T)
    BY <2>1, SumAdd
  <2>3. SumFunctionOnSet(g, T \cup {x}) = g[x] + SumFunctionOnSet(g, T)
    BY <2>1, SumAdd
  <2>4. SumFunctionOnSet(f, T) \in Int /\ SumFunctionOnSet(g, T) \in Int
    BY <2>1, SumInt
  <2> QED
    BY <1>2, <2>2, <2>3, <2>4
<1>3. S \in Q
  <2> HIDE DEF Q
  <2> QED
    BY <1>1, <1>2, SetInduction
<1> QED
  BY <1>3

\* A sum of natural numbers is one, and no less than that of fewer members.
LEMMA SumNat ==
  ASSUME NEW f, NEW S, IsFiniteSet(S), \A x \in S : f[x] \in Nat,
         NEW T \in SUBSET S
  PROVE  /\ SumFunctionOnSet(f, S) \in Nat
         /\ SumFunctionOnSet(f, T) <= SumFunctionOnSet(f, S)
<1> DEFINE Q == {U \in SUBSET S :
                    /\ SumFunctionOnSet(f, U) \in Nat
                    /\ SumFunctionOnSet(f, U \cap T) \in Nat
                    /\ SumFunctionOnSet(f, U \cap T) <= SumFunctionOnSet(f, U)}
<1>1. {} \in Q
  <2>1. {} \cap T = {}
    OBVIOUS
  <2> QED
    BY <2>1, SumEmpty
<1>2. ASSUME NEW U \in SUBSET S, NEW x \in S \ U, U \in Q
      PROVE  U \cup {x} \in Q
  <2>0. \A m, n, k \in Nat : m <= n => /\ k + n \in Nat /\ k + m \in Nat
                                      /\ m <= k + n /\ k + m <= k + n
    OBVIOUS
  <2>1. IsFiniteSet(U) /\ IsFiniteSet(U \cap T)
    BY FS_Subset
  <2>2. SumFunctionOnSet(f, U \cup {x}) = f[x] + SumFunctionOnSet(f, U)
    BY <2>1, SumAdd
  <2>3. CASE x \in T
    <3>1. (U \cup {x}) \cap T = (U \cap T) \cup {x}
      BY <2>3
    <3>2. SumFunctionOnSet(f, (U \cap T) \cup {x}) =
             f[x] + SumFunctionOnSet(f, U \cap T)
      BY <2>1, SumAdd
    <3> QED
      BY <1>2, <2>0, <2>2, <3>1, <3>2
  <2>4. CASE x \notin T
    <3>1. (U \cup {x}) \cap T = U \cap T
      BY <2>4
    <3> QED
      BY <1>2, <2>0, <2>2, <3>1
  <2> QED
    BY <2>3, <2>4
<1>3. S \in Q
  <2> HIDE DEF Q
  <2> QED
    BY <1>1, <1>2, SetInduction
<1>4. S \cap T = T
  OBVIOUS
<1> QED
  BY <1>3, <1>4

\* A sum of zeros.
LEMMA SumZero ==
  ASSUME NEW f, NEW S, IsFiniteSet(S), \A x \in S : f[x] = 0
  PROVE  SumFunctionOnSet(f, S) = 0
<1>1. SumFunctionOnSet(f, S) \in Int
  BY SumInt
<1>2. SumFunctionOnSet(f, S) = SumFunctionOnSet(f, S) + SumFunctionOnSet(f, S)
  BY SumPlus
<1>3. \A n \in Int : n = n + n => n = 0
  OBVIOUS
<1> QED
  BY <1>1, <1>2, <1>3

\* A sum of members none of which exceeds c.
LEMMA SumBound ==
  ASSUME NEW f, NEW S, IsFiniteSet(S), NEW c \in Int,
         \A x \in S : f[x] \in Int /\ f[x] <= c
  PROVE  SumFunctionOnSet(f, S) <= c * Cardinality(S)
<1> DEFINE Q == {T \in SUBSET S : SumFunctionOnSet(f, T) <= c * Cardinality(T)}
<1>0. \A n \in Nat : c * (n + 1) = c * n + c /\ c * n \in Int
  OBVIOUS
<1>1. {} \in Q
  BY SumEmpty, FS_EmptySet
<1>2. ASSUME NEW T \in SUBSET S, NEW x \in S \ T, T \in Q
      PROVE  T \cup {x} \in Q
  <2>1. IsFiniteSet(T)
    BY FS_Subset
  <2>2. SumFunctionOnSet(f, T \cup {x}) = f[x] + SumFunctionOnSet(f, T)
    BY <2>1, SumAdd
  <2>3. Cardinality(T \cup {x}) = Cardinality(T) + 1 /\ Cardinality(T) \in Nat
    BY <2>1, FS_AddElement, FS_CardinalityType
  <2>4. SumFunctionOnSet(f, T) \in Int
    BY <2>1, SumInt
  <2>5. c * (Cardinality(T) + 1) = c * Cardinality(T) + c
        /\ c * Cardinality(T) \in Int
    BY <1>0, <2>3
  <2> QED
    BY <1>2, <2>2, <2>3, <2>4, <2>5
<1>3. S \in Q
  <2> HIDE DEF Q
  <2> QED
    BY <1>1, <1>2, SetInduction
<1> QED
  BY <1>3

\* One member changes by d, the others stay.
LEMMA SumChange ==
  ASSUME NEW f, NEW g, NEW S, IsFiniteSet(S), NEW y \in S, NEW d \in Int,
         \A x \in S : f[x] \in Int, g[y] = f[y] + d,
         \A x \in S \ {y} : g[x] = f[x]
  PROVE  SumFunctionOnSet(g, S) = SumFunctionOnSet(f, S) + d
<1>1. IsFiniteSet(S \ {y})
  BY FS_RemoveElement
<1>2. SumFunctionOnSet(f, S) = f[y] + SumFunctionOnSet(f, S \ {y})
  BY SumAny
<1>3. SumFunctionOnSet(g, S) = g[y] + SumFunctionOnSet(g, S \ {y})
  BY SumAny
<1>4. SumFunctionOnSet(f, S \ {y}) = SumFunctionOnSet(g, S \ {y})
  BY <1>1, SumSame
<1>5. SumFunctionOnSet(f, S \ {y}) \in Int
  BY <1>1, SumInt
<1> QED
  BY <1>2, <1>3, <1>4, <1>5

\* The sums of the rows of a table.
RowSums(f, S, T) == [x \in S |-> SumFunctionOnSet(f[x], T)]

\* The rows of a table and its columns have the same sum: f[x][y] and g[y][x]
\* are the same entry.
LEMMA SumSwap ==
  ASSUME NEW S, IsFiniteSet(S), NEW T, IsFiniteSet(T), NEW f, NEW g,
         \A x \in S : \A y \in T : f[x][y] \in Int /\ g[y][x] = f[x][y]
  PROVE  SumFunctionOnSet(RowSums(f, S, T), S) = SumFunctionOnSet(RowSums(g, T, S), T)
<1> DEFINE r == RowSums(f, S, T)
           c == RowSums(g, T, S)
<1>a. /\ \A x \in S : r[x] = SumFunctionOnSet(f[x], T)
      /\ \A y \in T : c[y] = SumFunctionOnSet(g[y], S)
  BY DEF RowSums
<1> HIDE DEF r, c
<1> DEFINE k(U) == [y \in T |-> SumFunctionOnSet(g[y], U)]
           Q == {U \in SUBSET S :
                    SumFunctionOnSet(r, U) = SumFunctionOnSet(k(U), T)}
<1>1. {} \in Q
  <2>1. \A y \in T : k({})[y] = 0
    BY SumEmpty
  <2>2. SumFunctionOnSet(k({}), T) = 0
    <3> HIDE DEF k
    <3> QED
      BY <2>1, SumZero
  <2>3. SumFunctionOnSet(r, {}) = 0
    BY SumEmpty
  <2> HIDE DEF k
  <2> QED
    BY <2>2, <2>3
<1>2. ASSUME NEW U \in SUBSET S, NEW x \in S \ U, U \in Q
      PROVE  U \cup {x} \in Q
  <2>1. IsFiniteSet(U)
    BY FS_Subset
  <2>2. \A u \in S : r[u] \in Int
    BY <1>a, SumInt
  <2>3. SumFunctionOnSet(r, U \cup {x}) = r[x] + SumFunctionOnSet(r, U)
    BY <2>1, <2>2, SumAdd
  <2>4. ASSUME NEW y \in T
        PROVE  /\ SumFunctionOnSet(g[y], U) \in Int
               /\ SumFunctionOnSet(g[y], U \cup {x}) =
                     f[x][y] + SumFunctionOnSet(g[y], U)
    <3>1. \A u \in U \cup {x} : g[y][u] \in Int
      OBVIOUS
    <3>2. g[y][x] = f[x][y]
      OBVIOUS
    <3> QED
      BY <2>1, <3>1, <3>2, SumAdd, SumInt
  <2> DEFINE p == f[x]
             q == k(U)
             h == k(U \cup {x})
  <2>5. \A y \in T : p[y] \in Int /\ q[y] \in Int /\ h[y] = p[y] + q[y]
    BY <2>4
  <2>6. r[x] = SumFunctionOnSet(p, T)
    BY <1>a
  <2>7. SumFunctionOnSet(r, U) = SumFunctionOnSet(q, T)
    BY <1>2
  <2> HIDE DEF p, q, h
  <2>8. SumFunctionOnSet(h, T) = SumFunctionOnSet(p, T) + SumFunctionOnSet(q, T)
    BY <2>5, SumPlus
  <2>9. SumFunctionOnSet(r, U \cup {x}) = SumFunctionOnSet(h, T)
    BY <2>3, <2>6, <2>7, <2>8
  <2> QED
    BY <2>9 DEF h
<1>3. S \in Q
  <2> HIDE DEF Q
  <2> QED
    BY <1>1, <1>2, SetInduction
<1>4. \A y \in T : c[y] \in Int /\ c[y] = k(S)[y]
  <2> TAKE y \in T
  <2>1. \A x \in S : g[y][x] \in Int
    OBVIOUS
  <2> QED
    BY <1>a, <2>1, SumInt
<1>5. SumFunctionOnSet(c, T) = SumFunctionOnSet(k(S), T)
  <2> HIDE DEF k
  <2> QED
    BY <1>4, SumSame
<1> QED
  BY <1>3, <1>5 DEF r, c
=============================================================================
