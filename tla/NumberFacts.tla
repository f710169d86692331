---------------------------- MODULE NumberFacts ----------------------------
(***************************************************************************)
(* Facts about numbers and sums that the proofs share: the code often      *)
(* takes the first of several (the first idle worker, the first run by its *)
(* id), and adds up what the rows of a set cost.                           *)
(***************************************************************************)
EXTENDS Integers, FiniteSets, FiniteSetTheorems, WellFoundedInduction, TLAPS

\* Every set of numbers that has a member has a least one.
LEMMA LeastNumber ==
  ASSUME NEW S \in SUBSET Nat, S # {}
  PROVE  \E m \in S : \A k \in S : m <= k
<1>1. PICK m \in S : \A k \in S : ~(<<k, m>> \in OpToRel(<, Nat))
  BY NatLessThanWellFounded, WFMin, Zenon
<1>2. \A k \in S : ~(k < m)
  BY <1>1 DEF OpToRel
<1>. QED BY <1>2

-----------------------------------------------------------------------------
(* Sums over the subsets of a finite set, as MapThenSumSet computes them:  *)
(* g[T] is the sum of c[x] over the members x of T, taken one at a time.   *)

Pick(T) == CHOOSE x \in T : TRUE

SumOver(g, c, T) == IF T = {} THEN 0 ELSE c[Pick(T)] + g[T \ {Pick(T)}]

Sums(g, c, S) == g = [T \in SUBSET S |-> SumOver(g, c, T)]

LEMMA PickIn == ASSUME NEW T, T # {} PROVE Pick(T) \in T
BY DEF Pick

\* What is left of a finite set without one of its members is smaller.
LEMMA Smaller ==
  ASSUME NEW S, IsFiniteSet(S), NEW T \in SUBSET S, NEW x \in T
  PROVE  /\ IsFiniteSet(T) /\ Cardinality(T) \in Nat
         /\ Cardinality(T \ {x}) \in Nat /\ Cardinality(T \ {x}) = Cardinality(T) - 1
BY FS_Subset, FS_CardinalityType, FS_RemoveElement

\* There are such sums.
LEMMA SumsExist ==
  ASSUME NEW S, IsFiniteSet(S), NEW c
  PROVE  \E g : Sums(g, c, S)
<1>. DEFINE Upto(n, g) == /\ g = [T \in SUBSET S |-> g[T]]
                          /\ \A T \in SUBSET S : Cardinality(T) <= n => g[T] = SumOver(g, c, T)
            Bad == {n \in Nat : ~\E g : Upto(n, g)}
<1>1. \A T \in SUBSET S : Cardinality(T) \in Nat /\ (Cardinality(T) = 0 <=> T = {})
  BY FS_Subset, FS_CardinalityType, FS_EmptySet
<1>2. 0 \notin Bad
  <2>. DEFINE g == [T \in SUBSET S |-> 0]
  <2>1. Upto(0, g)
    BY <1>1 DEF SumOver
  <2>. QED BY <2>1
<1>3. ASSUME NEW n \in Nat, n \notin Bad PROVE n + 1 \notin Bad
  <2>1. PICK g : Upto(n, g)
    BY <1>3
  <2>. DEFINE h == [T \in SUBSET S |-> IF Cardinality(T) <= n THEN g[T] ELSE SumOver(g, c, T)]
  <2>2. ASSUME NEW T \in SUBSET S, Cardinality(T) <= n + 1 PROVE h[T] = SumOver(h, c, T)
    <3>1. CASE T = {}
      BY <2>1, <3>1, <1>1 DEF SumOver
    <3>2. CASE T # {}
      <4>1. Pick(T) \in T
        BY <3>2, PickIn
      <4>2. T \ {Pick(T)} \in SUBSET S /\ Cardinality(T \ {Pick(T)}) <= n
        BY <2>2, <4>1, Smaller
      <4>3. h[T \ {Pick(T)}] = g[T \ {Pick(T)}]
        BY <4>2
      <4>4. h[T] = SumOver(g, c, T)
        BY <2>1
      <4>. QED BY <3>2, <4>3, <4>4 DEF SumOver
    <3>. QED BY <3>1, <3>2
  <2>3. Upto(n + 1, h)
    BY <2>2
  <2>. QED BY <2>3
<1>4. Bad = {}
  <2>. SUFFICES ASSUME Bad # {} PROVE FALSE
    OBVIOUS
  <2>. HIDE DEF Bad
  <2>1. Bad \in SUBSET Nat
    BY DEF Bad
  <2>2. PICK m \in Bad : \A k \in Bad : m <= k
    BY <2>1, LeastNumber
  <2>3. m - 1 \in Nat /\ (m - 1) + 1 = m /\ m - 1 \notin Bad
    BY <1>2, <2>1, <2>2
  <2>. QED BY <1>3, <2>2, <2>3
<1>5. Cardinality(S) \in Nat /\ \A T \in SUBSET S : Cardinality(T) <= Cardinality(S)
  BY FS_CardinalityType, FS_Subset
<1>6. PICK g : Upto(Cardinality(S), g)
  BY <1>4, <1>5
<1>7. \A T \in SUBSET S : g[T] = SumOver(g, c, T)
  BY <1>5, <1>6
<1>. QED BY <1>6, <1>7 DEF Sums

\* What holds of a set whenever it holds of its proper subsets holds of every
\* finite set.
LEMMA SubsetsFirst ==
  ASSUME NEW S, IsFiniteSet(S), NEW G,
         \A T \in SUBSET S : (\A U \in SUBSET T : U # T => U \in G) => T \in G
  PROVE  \A T \in SUBSET S : T \in G
<1>. DEFINE Bad == {Cardinality(T) : T \in {X \in SUBSET S : X \notin G}}
<1>1. \A T \in SUBSET S : IsFiniteSet(T) /\ Cardinality(T) \in Nat
  BY FS_Subset, FS_CardinalityType
<1>. SUFFICES ASSUME Bad # {} PROVE FALSE
  OBVIOUS
<1>2. PICK m \in Bad : \A k \in Bad : m <= k
  <2>1. Bad \in SUBSET Nat
    BY <1>1
  <2>. HIDE DEF Bad
  <2>. QED BY <2>1, LeastNumber
<1>3. PICK T \in SUBSET S : T \notin G /\ Cardinality(T) = m
  BY <1>2
<1>4. PICK U \in SUBSET T : U # T /\ U \notin G
  BY <1>3
<1>5. U \in SUBSET S /\ Cardinality(U) \in Bad
  BY <1>4
<1>6. Cardinality(U) <= m /\ Cardinality(U) # m
  BY <1>1, <1>3, <1>4, FS_Subset
<1>7. m <= Cardinality(U) /\ m \in Nat /\ Cardinality(U) \in Nat
  BY <1>1, <1>2, <1>3, <1>5
<1>. QED BY <1>6, <1>7

\* A sum may start with any member.
LEMMA SumStep ==
  ASSUME NEW S, IsFiniteSet(S), NEW c \in [S -> Nat], NEW g, Sums(g, c, S)
  PROVE  /\ g[{}] = 0
         /\ \A T \in SUBSET S : g[T] \in Nat
         /\ \A T \in SUBSET S : \A x \in T : g[T] = c[x] + g[T \ {x}]
<1>. DEFINE G == {T \in SUBSET S : g[T] \in Nat /\ \A x \in T : g[T] = c[x] + g[T \ {x}]}
<1>1. \A T \in SUBSET S : g[T] = SumOver(g, c, T)
  BY DEF Sums
<1>2. g[{}] = 0
  BY <1>1 DEF SumOver
<1>3. ASSUME NEW T \in SUBSET S, \A U \in SUBSET T : U # T => U \in G
      PROVE  T \in G
  <2>1. CASE T = {}
    BY <1>2, <2>1
  <2>2. CASE T # {}
    <3>. DEFINE y == Pick(T)
    <3>1. y \in T /\ g[T] = c[y] + g[T \ {y}]
      BY <1>1, <2>2, PickIn DEF SumOver
    <3>. HIDE DEF y
    <3>2. \A x \in T : T \ {x} \in G
      BY <1>3
    <3>3. g[T] \in Nat
      <4>1. c[y] \in Nat /\ g[T \ {y}] \in Nat
        BY <3>1, <3>2
      <4>. QED BY <3>1, <4>1
    <3>4. ASSUME NEW x \in T, x # y PROVE g[T] = c[x] + g[T \ {x}]
      <4>. DEFINE z == g[(T \ {x}) \ {y}]
      <4>1. g[T \ {y}] = c[x] + g[(T \ {y}) \ {x}]
        BY <3>1, <3>2, <3>4
      <4>2. g[T \ {x}] = c[y] + z
        BY <3>1, <3>2, <3>4
      <4>3. (T \ {y}) \ {x} = (T \ {x}) \ {y}
        OBVIOUS
      <4>4. (T \ {x}) \ {y} \in SUBSET T /\ (T \ {x}) \ {y} # T
        OBVIOUS
      <4>5. z \in Nat /\ c[x] \in Nat /\ c[y] \in Nat
        BY <1>3, <3>1, <4>4
      <4>. HIDE DEF z
      <4>6. g[T \ {y}] = c[x] + z
        BY <4>1, <4>3 DEF z
      <4>. QED BY <3>1, <4>2, <4>5, <4>6
    <3>. QED BY <3>1, <3>3, <3>4
  <2>. QED BY <2>1, <2>2
<1>4. \A T \in SUBSET S : T \in G
  <2>. HIDE DEF G
  <2>. QED BY <1>3, SubsetsFirst
<1>. QED BY <1>2, <1>4

LEMMA SumSplit ==
  ASSUME NEW S, IsFiniteSet(S), NEW c \in [S -> Nat], NEW g, Sums(g, c, S), NEW x \in S
  PROVE  g[S] = c[x] + g[S \ {x}] /\ c[x] \in Nat
BY SumStep

\* A part costs no more than the whole.
LEMMA SumMonotone ==
  ASSUME NEW S, IsFiniteSet(S), NEW c \in [S -> Nat], NEW g, Sums(g, c, S)
  PROVE  \A T \in SUBSET S : \A U \in SUBSET T : g[U] <= g[T]
<1>. DEFINE G == {T \in SUBSET S : \A U \in SUBSET T : g[U] <= g[T]}
<1>1. ASSUME NEW T \in SUBSET S, \A U \in SUBSET T : U # T => U \in G
      PROVE  T \in G
  <2>1. ASSUME NEW U \in SUBSET T, U # T PROVE g[U] <= g[T]
    <3>1. PICK x \in T : x \notin U
      BY <2>1
    <3>2. g[U] <= g[T \ {x}]
      BY <1>1, <3>1
    <3>3. /\ g[T] = c[x] + g[T \ {x}] /\ c[x] \in Nat
          /\ g[U] \in Nat /\ g[T \ {x}] \in Nat
      <4>1. {U, T \ {x}} \subseteq SUBSET S /\ x \in S
        OBVIOUS
      <4>. QED BY <4>1, SumStep
    <3>. QED BY <3>2, <3>3
  <2>2. g[T] \in Nat
    BY SumStep
  <2>. QED BY <2>1, <2>2
<1>2. \A T \in SUBSET S : T \in G
  <2>. HIDE DEF G
  <2>. QED BY <1>1, SubsetsFirst
<1>. QED BY <1>2

\* Two sums of the same costs are the same.
LEMMA SumsAgree ==
  ASSUME NEW S, IsFiniteSet(S), NEW c \in [S -> Nat], NEW g, Sums(g, c, S),
         NEW R, IsFiniteSet(R), NEW d \in [R -> Nat], NEW h, Sums(h, d, R),
         NEW Q \in SUBSET (S \cap R), \A x \in Q : c[x] = d[x]
  PROVE  g[Q] = h[Q]
<1>. DEFINE G == {T \in SUBSET Q : g[T] = h[T]}
<1>1. ASSUME NEW T \in SUBSET Q, \A U \in SUBSET T : U # T => U \in G
      PROVE  T \in G
  <2>1. CASE T = {}
    BY <2>1, SumStep
  <2>2. CASE T # {}
    <3>1. PICK x \in T : TRUE
      BY <2>2
    <3>2. g[T \ {x}] = h[T \ {x}] /\ c[x] = d[x]
      BY <1>1
    <3>3. T \in SUBSET S /\ T \in SUBSET R
      OBVIOUS
    <3>4. g[T] = c[x] + g[T \ {x}] /\ h[T] = d[x] + h[T \ {x}]
      BY <3>3, SumStep
    <3>. QED BY <3>2, <3>4
  <2>. QED BY <2>1, <2>2
<1>2. IsFiniteSet(Q)
  BY FS_Subset
<1>3. \A T \in SUBSET Q : T \in G
  <2>. HIDE DEF G
  <2>. QED BY <1>1, <1>2, SubsetsFirst
<1>. QED BY <1>3

=============================================================================
