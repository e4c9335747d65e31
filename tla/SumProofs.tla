------------------------------ MODULE SumProofs ------------------------------
(***************************************************************************)
(* Sums over a finite set of rows, as MapThenFoldSet of the community       *)
(* modules computes them.  The fold takes the rows in the order CHOOSE      *)
(* gives; what it returns does not depend on that order.                    *)
(***************************************************************************)
EXTENDS Integers, FiniteSets, Folds, FiniteSetTheorems, WellFoundedInduction, TLAPS

\* The sum of the amounts of the rows of table whose numbers are in S.
SumOf(table, S) ==
    MapThenFoldSet(LAMBDA x, y : x + y, 0, LAMBDA n : table[n].amount,
                   LAMBDA s : CHOOSE n \in s : TRUE, S)

-----------------------------------------------------------------------------
(* Induction over the natural numbers, for a property given as a set.      *)
LEMMA LeastNumber ==
    ASSUME NEW S, S \subseteq Nat, S # {}
    PROVE  \E n \in S : \A m \in S : n <= m
<1> DEFINE R == OpToRel(<, Nat)
<1>1. PICK n \in S : \A m \in S : ~ (<<m, n>> \in R)
  BY NatLessThanWellFounded, WFMin
<1>2. R = {p \in Nat \X Nat : p[1] < p[2]}
  BY DEF OpToRel
<1> HIDE DEF R
<1>3. ASSUME NEW m \in S PROVE n <= m
  <2>1. <<m, n>> \in Nat \X Nat /\ <<m, n>> \notin R
    BY <1>1, <1>3
  <2>2. ~ (m < n)
    BY <1>2, <2>1
  <2> QED
    BY <2>1, <2>2
<1> QED
  BY <1>3

LEMMA Induction ==
    ASSUME NEW T, 0 \in T, \A k \in Nat : k \in T => k + 1 \in T
    PROVE  Nat \subseteq T
<1> DEFINE Bad == Nat \ T
<1>1. SUFFICES ASSUME Bad # {} PROVE FALSE
  OBVIOUS
<1>2. PICK n \in Bad : \A m \in Bad : n <= m
  BY <1>1, LeastNumber
<1>3. n \in Nat /\ n # 0 /\ n - 1 \in Nat
  BY <1>2
<1>4. n - 1 \in T
  BY <1>2, <1>3
<1>5. n - 1 + 1 \in T
  BY <1>3, <1>4
<1> QED
  BY <1>2, <1>3, <1>5

-----------------------------------------------------------------------------
(* The recursive function the fold defines exists, and satisfies its        *)
(* equation.                                                                *)
First(s) == CHOOSE n \in s : TRUE

Body(table, g, s) == IF s = {} THEN 0 ELSE table[First(s)].amount + g[s \ {First(s)}]

Solves(table, g, S) == g = [s \in SUBSET S |-> Body(table, g, s)]

\* One element less is one less to count.
LEMMA Fewer ==
    ASSUME NEW s, IsFiniteSet(s), s # {}
    PROVE  /\ First(s) \in s
           /\ IsFiniteSet(s \ {First(s)})
           /\ Cardinality(s \ {First(s)}) = Cardinality(s) - 1
           /\ Cardinality(s) \in Nat /\ Cardinality(s) # 0
<1>1. First(s) \in s
  BY DEF First
<1> QED
  BY <1>1, FS_RemoveElement, FS_CardinalityType, FS_EmptySet

LEMMA Solvable ==
    ASSUME NEW table, NEW S, IsFiniteSet(S)
    PROVE  \E g : Solves(table, g, S)
<1> DEFINE Upto(g, k) == \A s \in SUBSET S : Cardinality(s) <= k => g[s] = Body(table, g, s)
           T == {k \in Nat : \E g : g = [s \in SUBSET S |-> g[s]] /\ Upto(g, k)}
<1>1. \A s \in SUBSET S : IsFiniteSet(s) /\ Cardinality(s) \in Nat /\ Cardinality(s) <= Cardinality(S)
  BY FS_Subset, FS_CardinalityType
<1>2. 0 \in T
  <2> DEFINE g == [s \in SUBSET S |-> 0]
  <2>1. ASSUME NEW s \in SUBSET S, Cardinality(s) <= 0 PROVE g[s] = Body(table, g, s)
    <3>1. s = {}
      BY <1>1, <2>1, FS_EmptySet
    <3> QED
      BY <3>1 DEF Body
  <2>2. g = [s \in SUBSET S |-> g[s]]
    OBVIOUS
  <2> HIDE DEF g
  <2> QED
    BY <2>1, <2>2
<1>3. ASSUME NEW k \in Nat, k \in T PROVE k + 1 \in T
  <2>1. PICK g : g = [s \in SUBSET S |-> g[s]] /\ Upto(g, k)
    BY <1>3
  <2> DEFINE h == [s \in SUBSET S |-> IF Cardinality(s) <= k THEN g[s] ELSE Body(table, g, s)]
  <2>2. ASSUME NEW s \in SUBSET S, Cardinality(s) <= k + 1 PROVE h[s] = Body(table, h, s)
    <3>1. CASE s = {}
      <4>1. g[s] = 0 \/ ~ (Cardinality(s) <= k)
        BY <2>1, <3>1 DEF Body
      <4> QED
        BY <3>1, <4>1 DEF Body
    <3>2. CASE s # {}
      <4>1. /\ First(s) \in s /\ s \ {First(s)} \in SUBSET S
            /\ Cardinality(s \ {First(s)}) = Cardinality(s) - 1
            /\ Cardinality(s) \in Nat
        BY <1>1, <3>2, Fewer
      <4>2. Cardinality(s \ {First(s)}) <= k
        BY <2>2, <4>1
      <4>3. h[s \ {First(s)}] = g[s \ {First(s)}]
        BY <4>1, <4>2
      <4>4. h[s] = Body(table, g, s)
        BY <2>1
      <4> QED
        BY <3>2, <4>3, <4>4 DEF Body
    <3> QED
      BY <3>1, <3>2
  <2>3. h = [s \in SUBSET S |-> h[s]]
    OBVIOUS
  <2>4. Upto(h, k + 1)
    BY <2>2
  <2> HIDE DEF h
  <2>5. k + 1 \in Nat
    OBVIOUS
  <2>6. \E g1 : g1 = [s \in SUBSET S |-> g1[s]] /\ Upto(g1, k + 1)
    <3> HIDE DEF Upto
    <3> QED
      BY <2>3, <2>4
  <2> QED
    BY <2>5, <2>6
<1>4. Cardinality(S) \in T
  <2> HIDE DEF T
  <2> QED
    BY <1>2, <1>3, Induction, FS_CardinalityType
<1>5. PICK g : g = [s \in SUBSET S |-> g[s]] /\ Upto(g, Cardinality(S))
  BY <1>4
<1>6. \A s \in SUBSET S : g[s] = Body(table, g, s)
  BY <1>1, <1>5
<1> QED
  BY <1>5, <1>6 DEF Solves

LEMMA Unfolded ==
    ASSUME NEW table, NEW S, NEW f, Solves(table, f, S)
    PROVE  \E g : Solves(table, g, S) /\ SumOf(table, S) = g[S]
  BY DEF SumOf, MapThenFoldSet, Solves, Body, First

\* The equation has integer values, and they do not depend on the order: any
\* row may be the first.
LEMMA AnyRowFirst ==
    ASSUME NEW table, NEW S, IsFiniteSet(S), \A n \in S : table[n].amount \in Int,
           NEW g, Solves(table, g, S)
    PROVE  /\ g[{}] = 0
           /\ \A s \in SUBSET S : g[s] \in Int
           /\ \A s \in SUBSET S : \A n \in s : g[s] = table[n].amount + g[s \ {n}]
<1> DEFINE Good(s) == /\ g[s] \in Int
                      /\ \A n \in s : g[s] = table[n].amount + g[s \ {n}]
           T == {k \in Nat : \A s \in SUBSET S : Cardinality(s) <= k => Good(s)}
<1>1. \A s \in SUBSET S : IsFiniteSet(s) /\ Cardinality(s) \in Nat
  BY FS_Subset, FS_CardinalityType
<1>2. \A s \in SUBSET S : g[s] = Body(table, g, s)
  BY DEF Solves
<1>3. g[{}] = 0
  BY <1>2 DEF Body
<1>4. 0 \in T
  <2>1. ASSUME NEW s \in SUBSET S, Cardinality(s) <= 0 PROVE Good(s)
    <3>1. s = {}
      BY <1>1, <2>1, FS_EmptySet
    <3> QED
      BY <3>1, <1>3
  <2> HIDE DEF Good
  <2> QED
    BY <2>1
<1>5. ASSUME NEW k \in Nat, k \in T PROVE k + 1 \in T
  <2>1. ASSUME NEW s \in SUBSET S, Cardinality(s) <= k + 1 PROVE Good(s)
    <3>1. CASE s = {}
      BY <3>1, <1>3
    <3>2. CASE s # {}
      <4> DEFINE m == First(s)
      <4>1. /\ m \in s /\ s \ {m} \in SUBSET S
            /\ Cardinality(s \ {m}) = Cardinality(s) - 1
            /\ Cardinality(s) \in Nat /\ table[m].amount \in Int
        BY <1>1, <3>2, Fewer
      <4>2. g[s] = table[m].amount + g[s \ {m}]
        BY <1>2, <3>2 DEF Body
      <4>3. Cardinality(s \ {m}) <= k
        BY <2>1, <4>1
      <4>4. Good(s \ {m})
        BY <1>5, <4>1, <4>3
      <4> HIDE DEF m
      <4>5. ASSUME NEW n \in s, n # m PROVE g[s] = table[n].amount + g[s \ {n}]
        <5> DEFINE r == s \ {m, n}
        <5>1. /\ n \in s \ {m} /\ m \in s \ {n} /\ s \ {n} \in SUBSET S
              /\ (s \ {m}) \ {n} = r /\ (s \ {n}) \ {m} = r
          BY <4>1, <4>5
        <5>2. g[s \ {m}] = table[n].amount + g[r]
          BY <4>4, <5>1
        <5>3. IsFiniteSet(s) /\ Cardinality(s \ {n}) = Cardinality(s) - 1
          BY <1>1, FS_RemoveElement
        <5>4. Good(s \ {n})
          <6>1. Cardinality(s \ {n}) <= k
            BY <2>1, <4>1, <5>3
          <6> QED
            BY <1>5, <5>1, <6>1
        <5>5. g[s \ {n}] = table[m].amount + g[r]
          BY <5>1, <5>4
        <5>6. r \in SUBSET S /\ Cardinality(r) <= k
          <6>1. Cardinality(r) = Cardinality(s \ {m}) - 1
            <7>1. IsFiniteSet(s \ {m}) /\ n \in s \ {m}
              BY <1>1, <4>1, <5>1
            <7>2. Cardinality((s \ {m}) \ {n}) = Cardinality(s \ {m}) - 1
              BY <7>1, FS_RemoveElement
            <7> QED
              BY <5>1, <7>2
          <6>2. r \in SUBSET S
            BY <5>1
          <6> QED
            BY <6>1, <6>2, <1>1, <4>1, <4>3
        <5>7. g[r] \in Int
          BY <1>5, <5>6
        <5>8. table[n].amount \in Int
          OBVIOUS
        <5> QED
          BY <4>1, <4>2, <5>2, <5>5, <5>7, <5>8
      <4>6. g[s] \in Int
        BY <4>1, <4>2, <4>4
      <4> QED
        BY <4>2, <4>5, <4>6
    <3> QED
      BY <3>1, <3>2
  <2> HIDE DEF Good
  <2> QED
    BY <2>1
<1>6. \A s \in SUBSET S : Good(s)
  <2>1. Nat \subseteq T
    <3> HIDE DEF T
    <3> QED
      BY <1>4, <1>5, Induction
  <2>2. ASSUME NEW s \in SUBSET S PROVE Good(s)
    <3> HIDE DEF Good
    <3>1. Cardinality(s) \in T
      BY <1>1, <2>1
    <3> QED
      BY <1>1, <3>1
  <2> HIDE DEF Good
  <2> QED
    BY <2>2
<1> QED
  BY <1>3, <1>6

-----------------------------------------------------------------------------
\* The first k rows that move an account in one direction.
Upto(table, direction, k) == {n \in 1 .. k : table[n].direction = direction}

LEMMA UptoFinite ==
    ASSUME NEW N \in Nat, NEW table, NEW d
    PROVE  IsFiniteSet(Upto(table, d, N)) /\ Upto(table, d, N) \subseteq 1 .. N
<1>1. IsFiniteSet(1 .. N)
  BY FS_Interval
<1>2. Upto(table, d, N) \subseteq 1 .. N
  BY DEF Upto
<1> QED
  BY <1>1, <1>2, FS_Subset

\* One row more is one row more to add, in its own direction.
LEMMA NextRow ==
    ASSUME NEW N \in Nat, NEW table, NEW d, NEW k \in Nat, k + 1 <= N,
           \A n \in 1 .. N : table[n].amount \in Int,
           NEW g, Solves(table, g, Upto(table, d, N))
    PROVE  /\ g[Upto(table, d, k)] \in Int
           /\ g[Upto(table, d, k + 1)] =
                 g[Upto(table, d, k)] + (IF table[k + 1].direction = d THEN table[k + 1].amount ELSE 0)
<1> DEFINE S == Upto(table, d, N)  A == Upto(table, d, k)  B == Upto(table, d, k + 1)
<1>1. IsFiniteSet(S) /\ S \subseteq 1 .. N
  BY UptoFinite
<1>2. A \subseteq S /\ B \subseteq S /\ k + 1 \in 1 .. N /\ k + 1 \notin A
  BY DEF Upto
<1>3. /\ \A s \in SUBSET S : g[s] \in Int
      /\ \A s \in SUBSET S : \A n \in s : g[s] = table[n].amount + g[s \ {n}]
  <2>1. \A n \in S : table[n].amount \in Int
    BY <1>1
  <2>2. Solves(table, g, S)
    OBVIOUS
  <2> HIDE DEF S
  <2>3. IsFiniteSet(S)
    BY <1>1
  <2> QED
    BY ONLY <2>1, <2>2, <2>3, AnyRowFirst
<1>4. CASE table[k + 1].direction = d
  <2>1. k + 1 \in B /\ B \ {k + 1} = A
    BY <1>2, <1>4 DEF Upto
  <2>2. g[B] = table[k + 1].amount + g[A]
    BY <1>2, <1>3, <2>1
  <2>3. g[A] \in Int /\ table[k + 1].amount \in Int
    BY <1>2, <1>3
  <2> HIDE DEF A, B
  <2>4. g[B] = g[A] + table[k + 1].amount
    BY <2>2, <2>3
  <2> QED
    BY <1>4, <2>3, <2>4 DEF A, B
<1>5. CASE table[k + 1].direction # d
  <2>1. B = A
    BY <1>5, <1>2 DEF Upto
  <2>2. g[A] \in Int
    BY <1>2, <1>3
  <2> HIDE DEF A, B
  <2>3. g[B] = g[A] + 0
    BY <2>1, <2>2
  <2> QED
    BY <1>5, <2>2, <2>3 DEF A, B
<1> QED
  BY <1>4, <1>5

\* Credits minus debits is the balance a replay of the rows arrives at.
LEMMA Replayed ==
    ASSUME NEW N \in Nat, NEW table, NEW after,
           \A n \in 1 .. N : table[n].amount \in Int /\ table[n].direction \in {"credit", "debit"},
           after[0] = 0,
           \A n \in 1 .. N :
              after[n] = after[n - 1]
                  + (IF table[n].direction = "credit" THEN table[n].amount ELSE - table[n].amount)
    PROVE  SumOf(table, Upto(table, "credit", N)) - SumOf(table, Upto(table, "debit", N)) = after[N]
<1> DEFINE C(k) == Upto(table, "credit", k)  D(k) == Upto(table, "debit", k)
<1>1. IsFiniteSet(C(N)) /\ IsFiniteSet(D(N)) /\ C(N) \subseteq 1 .. N /\ D(N) \subseteq 1 .. N
  BY UptoFinite
<1>2. PICK c : Solves(table, c, C(N)) /\ SumOf(table, C(N)) = c[C(N)]
  BY <1>1, Solvable, Unfolded
<1>3. PICK d : Solves(table, d, D(N)) /\ SumOf(table, D(N)) = d[D(N)]
  BY <1>1, Solvable, Unfolded
<1> DEFINE T == {k \in Nat : k <= N => c[C(k)] - d[D(k)] = after[k]}
<1>4. 0 \in T
  <2>1. C(0) = {} /\ D(0) = {}
    BY DEF Upto
  <2>2. c[{}] = 0 /\ d[{}] = 0
    BY <1>1, <1>2, <1>3, AnyRowFirst
  <2> HIDE DEF C, D
  <2> QED
    BY <2>1, <2>2
<1>5. ASSUME NEW k \in Nat, k \in T PROVE k + 1 \in T
  <2>1. SUFFICES ASSUME k + 1 <= N PROVE c[C(k + 1)] - d[D(k + 1)] = after[k + 1]
    OBVIOUS
  <2>2. c[C(k)] - d[D(k)] = after[k]
    BY <1>5, <2>1
  <2>3. /\ c[C(k)] \in Int
        /\ c[C(k + 1)] = c[C(k)] + (IF table[k + 1].direction = "credit" THEN table[k + 1].amount ELSE 0)
    BY <1>2, <2>1, NextRow
  <2>4. /\ d[D(k)] \in Int
        /\ d[D(k + 1)] = d[D(k)] + (IF table[k + 1].direction = "debit" THEN table[k + 1].amount ELSE 0)
    BY <1>3, <2>1, NextRow
  <2>5. k + 1 \in 1 .. N /\ k + 1 - 1 = k
    BY <2>1
  <2> HIDE DEF C, D, T
  <2>6. after[k + 1] = after[k]
            + (IF table[k + 1].direction = "credit" THEN table[k + 1].amount ELSE - table[k + 1].amount)
    BY <2>5
  <2>7. table[k + 1].amount \in Int /\ table[k + 1].direction \in {"credit", "debit"}
    BY <2>5
  <2> QED
    BY <2>2, <2>3, <2>4, <2>6, <2>7
<1>6. N \in T
  <2> HIDE DEF T
  <2> QED
    BY <1>4, <1>5, Induction
<1> QED
  BY <1>2, <1>3, <1>6
=============================================================================
