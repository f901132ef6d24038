----------------------------- MODULE Recursion -----------------------------
(***************************************************************************)
(* Induction over the natural numbers and functions defined by recursion,  *)
(* stated about sets and functions: a predicate P becomes the set of the   *)
(* numbers that satisfy it, a recursive step becomes a function. And what  *)
(* the folds of the module Functions add up.                               *)
(***************************************************************************)
EXTENDS Naturals, FiniteSetTheorems, Functions, WellFoundedInduction, TLAPS

\* The natural numbers are well-ordered.
LEMMA LeastNumber ==
    ASSUME NEW T \in SUBSET Nat, T # {}
    PROVE  \E x \in T : \A y \in T : x <= y
<1> DEFINE R == {s \in Nat \X Nat : s[1] < s[2]}
<1>1. IsWellFoundedOn(R, Nat)
  BY NatLessThanWellFounded, Zenon DEF OpToRel
<1>2. \A x, y \in Nat : y < x => <<y, x>> \in R
  OBVIOUS
<1> HIDE DEF R
<1>3. PICK x \in T : \A y \in T : <<y, x>> \notin R
  BY <1>1, WFMin
<1>4. \A y \in T : x <= y
  <2>1. SUFFICES ASSUME NEW y \in T, ~(x <= y) PROVE FALSE
    OBVIOUS
  <2>2. y < x /\ x \in Nat /\ y \in Nat
    BY <2>1
  <2> QED
    BY <1>2, <1>3, <2>2
<1> QED
  BY <1>4

\* Induction: a set with 0, and with n + 1 for every n in it, has every number.
LEMMA SetInduction ==
    ASSUME NEW S, 0 \in S, \A n \in Nat : n \in S => n + 1 \in S
    PROVE  Nat \subseteq S
<1> SUFFICES ASSUME Nat \ S # {} PROVE FALSE
  OBVIOUS
<1>1. PICK x \in Nat \ S : \A y \in Nat \ S : x <= y
  BY LeastNumber
<1>2. x - 1 \in Nat /\ x - 1 \in S
  BY <1>1
<1> QED
  BY <1>1, <1>2

\* g is the function on 0..n, into S, that starts at base and goes on by step.
Follows(g, n, S, base, step) ==
    /\ g \in [0..n -> S] /\ g[0] = base
    /\ \A i \in 1..n : g[i] = step[i][g[i - 1]]

\* There is such a function.
LEMMA RecursiveFunction ==
    ASSUME NEW n \in Nat, NEW S, NEW base \in S, NEW step \in [Nat -> [S -> S]]
    PROVE  \E g : Follows(g, n, S, base, step)
<1> DEFINE T == {m \in Nat : \E g : Follows(g, m, S, base, step)}
<1>1. 0 \in T
  <2> DEFINE g == [i \in 0..0 |-> base]
  <2>1. Follows(g, 0, S, base, step)
    BY DEF Follows
  <2> QED
    BY <2>1
<1>2. ASSUME NEW m \in Nat, m \in T PROVE m + 1 \in T
  <2>1. PICK g : Follows(g, m, S, base, step)
    BY <1>2
  <2> DEFINE h == [i \in 0..(m + 1) |-> IF i <= m THEN g[i] ELSE step[m + 1][g[m]]]
  <2>2. g[m] \in S /\ m + 1 \in Nat
    BY <2>1 DEF Follows
  <2>3. h \in [0..(m + 1) -> S] /\ h[0] = base
    BY <2>1, <2>2 DEF Follows
  <2>4. ASSUME NEW i \in 1..(m + 1) PROVE h[i] = step[i][h[i - 1]]
    <3>1. CASE i <= m
      BY <2>1, <3>1 DEF Follows
    <3>2. CASE i = m + 1
      BY <3>2
    <3> QED
      BY <3>1, <3>2
  <2> HIDE DEF h
  <2>5. Follows(h, m + 1, S, base, step) /\ m + 1 \in Nat
    BY <2>3, <2>4 DEF Follows
  <2> QED
    BY <2>5
<1> HIDE DEF T
<1>3. Nat \subseteq T
  BY <1>1, <1>2, SetInduction
<1> USE DEF T
<1> QED
  BY <1>3

-----------------------------------------------------------------------------
\* Counting, and sums.

\* A finite set has a subset of every size up to its own.
LEMMA SubsetOfSize ==
    ASSUME NEW S, IsFiniteSet(S), NEW n \in Nat, n <= Cardinality(S)
    PROVE  \E T \in SUBSET S : IsFiniteSet(T) /\ Cardinality(T) = n
<1> DEFINE K == {k \in Nat : k <= Cardinality(S) =>
                    \E T \in SUBSET S : IsFiniteSet(T) /\ Cardinality(T) = k}
<1>1. 0 \in K
  BY FS_EmptySet
<1>2. ASSUME NEW k \in Nat, k \in K PROVE k + 1 \in K
  <2>1. SUFFICES ASSUME k + 1 <= Cardinality(S)
                 PROVE  \E T \in SUBSET S : IsFiniteSet(T) /\ Cardinality(T) = k + 1
    OBVIOUS
  <2>2. Cardinality(S) \in Nat
    BY FS_CardinalityType
  <2>3. PICK T \in SUBSET S : IsFiniteSet(T) /\ Cardinality(T) = k
    BY <1>2, <2>1, <2>2
  <2>4. PICK x \in S : x \notin T
    <3>1. T # S
      BY <2>1, <2>2, <2>3
    <3> QED
      BY <3>1
  <2>5. IsFiniteSet(T \cup {x}) /\ Cardinality(T \cup {x}) = k + 1
    BY <2>3, <2>4, FS_AddElement
  <2> QED
    BY <2>5
<1> HIDE DEF K
<1>3. Nat \subseteq K
  BY <1>1, <1>2, SetInduction
<1> USE DEF K
<1> QED
  BY <1>3

\* P[x] is a finite set for each x of D, and no two of them have an element in
\* common.
Parts(P, D) ==
    /\ \A x \in D : IsFiniteSet(P[x])
    /\ \A x, y \in D : x # y => P[x] \cap P[y] = {}

Joined(P, D) == UNION {P[x] : x \in D}

\* The union of finitely many parts has an element more for each one of a further
\* part.
LEMMA JoinOneMore ==
    ASSUME NEW P, NEW D, IsFiniteSet(D), Parts(P, D), NEW x \in D
    PROVE  /\ IsFiniteSet(Joined(P, D)) /\ IsFiniteSet(Joined(P, D \ {x}))
           /\ Cardinality(Joined(P, D)) = Cardinality(P[x]) + Cardinality(Joined(P, D \ {x}))
<1>1. ASSUME NEW E \in SUBSET D PROVE IsFiniteSet(Joined(P, E))
  <2>1. IsFiniteSet(E)
    BY FS_Subset
  <2>2. IsFiniteSet({P[y] : y \in E})
    <3> DEFINE f == [y \in E |-> P[y]]
    <3>1. f \in Surjection(E, {P[y] : y \in E})
      BY DEF Surjection
    <3> HIDE DEF f
    <3> QED
      BY <2>1, <3>1, FS_Surjection
  <2> QED
    BY <2>2, FS_UNION DEF Parts, Joined
<1>2. /\ Joined(P, D) = P[x] \cup Joined(P, D \ {x})
      /\ P[x] \cap Joined(P, D \ {x}) = {}
  BY DEF Joined, Parts
<1>3. IsFiniteSet(P[x]) /\ IsFiniteSet(Joined(P, D \ {x})) /\ IsFiniteSet(Joined(P, D))
  BY <1>1 DEF Parts
<1>4. /\ Cardinality(P[x]) \in Nat /\ Cardinality(Joined(P, D \ {x})) \in Nat
      /\ Cardinality({}) = 0
  BY <1>3, FS_CardinalityType, FS_EmptySet
<1> HIDE DEF Joined
<1>5. Cardinality(P[x] \cup Joined(P, D \ {x})) =
          Cardinality(P[x]) + Cardinality(Joined(P, D \ {x}))
              - Cardinality(P[x] \cap Joined(P, D \ {x}))
  BY <1>3, FS_Union, Zenon
<1>6. Cardinality(Joined(P, D)) = Cardinality(P[x]) + Cardinality(Joined(P, D \ {x})) - 0
  BY <1>2, <1>4, <1>5, Zenon
<1> QED
  BY <1>3, <1>4, <1>6

\* What a function adds up to over a set, as Functions says it: in an order that
\* the values it chooses from the set determine.
Sum(g, D) == FoldFunctionOnSet(+, 0, g, D)

Some(s) == CHOOSE x \in s : TRUE

\* f is the fold's table: for each subset of D, the sum over it.
SumTable(f, g, D) ==
    f = [s \in SUBSET D |-> IF s = {} THEN 0 ELSE g[Some(s)] + f[s \ {Some(s)}]]

\* If g counts the parts of a finite set, its sum is the number of their elements.
LEMMA SumOfParts ==
    ASSUME NEW D, IsFiniteSet(D), NEW P, Parts(P, D), NEW g,
           \A x \in D : g[x] = Cardinality(P[x])
    PROVE  Sum(g, D) = Cardinality(Joined(P, D)) /\ IsFiniteSet(Joined(P, D))
<1> DEFINE h == [s \in SUBSET D |-> Cardinality(Joined(P, s))]
           kept == CHOOSE f : SumTable(f, g, D)
<1>1. Joined(P, {}) = {} /\ Cardinality(Joined(P, {})) = 0 /\ IsFiniteSet(Joined(P, {}))
  BY FS_EmptySet DEF Joined
<1>2. ASSUME NEW s \in SUBSET D, s # {}
      PROVE  /\ Some(s) \in s /\ IsFiniteSet(s) /\ IsFiniteSet(Joined(P, s))
             /\ Cardinality(Joined(P, s)) = g[Some(s)] + Cardinality(Joined(P, s \ {Some(s)}))
  <2>1. Some(s) \in s /\ Some(s) \in D
    BY <1>2 DEF Some
  <2>2. IsFiniteSet(s) /\ Parts(P, s)
    BY FS_Subset DEF Parts
  <2> QED
    BY <2>1, <2>2, JoinOneMore
<1>3. SumTable(h, g, D)
  BY <1>1, <1>2 DEF SumTable
<1>4. Sum(g, D) = kept[D]
  BY Zenon DEF Sum, FoldFunctionOnSet, MapThenFoldSet, SumTable, Some
<1> HIDE DEF h
<1>5. SumTable(kept, g, D)
  BY <1>3, Zenon
<1> HIDE DEF kept
<1> DEFINE K == {k \in Nat : \A s \in SUBSET D : Cardinality(s) = k =>
                    kept[s] = Cardinality(Joined(P, s))}
<1>6. 0 \in K
  <2>1. \A s \in SUBSET D : Cardinality(s) = 0 => s = {}
    BY FS_Subset, FS_EmptySet
  <2> QED
    BY <1>1, <1>5, <2>1 DEF SumTable
<1>7. ASSUME NEW k \in Nat, k \in K PROVE k + 1 \in K
  <2> SUFFICES ASSUME NEW s \in SUBSET D, Cardinality(s) = k + 1
               PROVE  kept[s] = Cardinality(Joined(P, s))
    OBVIOUS
  <2>1. s # {}
    BY FS_EmptySet
  <2>2. Some(s) \in s /\ IsFiniteSet(s)
    BY <1>2, <2>1
  <2>3. Cardinality(s \ {Some(s)}) = k /\ s \ {Some(s)} \in SUBSET D
    <3>1. Cardinality(s \ {Some(s)}) = Cardinality(s) - 1
      BY <2>2, FS_RemoveElement, Zenon
    <3> QED
      BY <3>1
  <2>4. kept[s \ {Some(s)}] = Cardinality(Joined(P, s \ {Some(s)}))
    BY <1>7, <2>3
  <2>5. kept[s] = g[Some(s)] + kept[s \ {Some(s)}]
    BY <1>5, <2>1 DEF SumTable
  <2> QED
    BY <1>2, <2>1, <2>4, <2>5
<1> HIDE DEF K
<1>8. Nat \subseteq K
  BY <1>6, <1>7, SetInduction
<1>9. Cardinality(D) \in Nat
  BY FS_CardinalityType
<1>10. kept[D] = Cardinality(Joined(P, D))
  <2> USE DEF K
  <2> QED
    BY <1>8, <1>9
<1>11. IsFiniteSet(Joined(P, D))
  BY <1>1, <1>2
<1> QED
  BY <1>4, <1>10, <1>11

\* If it counts no more than the parts, its sum is no more than the number of
\* their elements.
LEMMA SumUpToParts ==
    ASSUME NEW D, IsFiniteSet(D), NEW P, Parts(P, D), NEW g,
           \A x \in D : g[x] \in Nat /\ g[x] <= Cardinality(P[x])
    PROVE  Sum(g, D) <= Cardinality(Joined(P, D)) /\ IsFiniteSet(Joined(P, D))
<1>1. \A x \in D : \E T \in SUBSET P[x] : IsFiniteSet(T) /\ Cardinality(T) = g[x]
  BY SubsetOfSize DEF Parts
<1> DEFINE Q == [x \in D |-> CHOOSE T \in SUBSET P[x] :
                                  IsFiniteSet(T) /\ Cardinality(T) = g[x]]
<1>2. ASSUME NEW x \in D
      PROVE  /\ Q[x] \in SUBSET P[x] /\ IsFiniteSet(Q[x]) /\ Cardinality(Q[x]) = g[x]
  BY <1>1
<1> HIDE DEF Q
<1>3. Parts(Q, D)
  BY <1>2 DEF Parts
<1>4. Sum(g, D) = Cardinality(Joined(Q, D))
  BY <1>2, <1>3, SumOfParts
<1>5. Joined(Q, D) \in SUBSET Joined(P, D)
  BY <1>2 DEF Joined
<1>6. IsFiniteSet(Joined(P, D))
  <2> DEFINE c == [x \in D |-> Cardinality(P[x])]
  <2>1. \A x \in D : c[x] = Cardinality(P[x])
    OBVIOUS
  <2> HIDE DEF c
  <2> QED
    BY <2>1, SumOfParts
<1> QED
  BY <1>4, <1>5, <1>6, FS_Subset
=============================================================================
