------------------------- MODULE ReachabilityProofs -------------------------
(***************************************************************************)
(* What the recursive visits find: the least closed set around their       *)
(* start, for every finite graph; and that a graph without cycles has a    *)
(* top as well as a bottom.  Induction and recursion go through sets and   *)
(* functions, since no prover here can instantiate a theorem with an       *)
(* operator parameter.                                                     *)
(***************************************************************************)
EXTENDS Reachability, Integers, FiniteSetTheorems, WellFoundedInduction, TLAPS

\* A set of numbers that is not empty has a least one.
LEMMA LeastNatural ==
    ASSUME NEW T \in SUBSET Nat, T # {}
    PROVE  \E x \in T : \A y \in T : x <= y
<1> DEFINE R == OpToRel(<, Nat)
<1>1. IsWellFoundedOn(R, Nat)
    BY NatLessThanWellFounded
<1>2. \A x, y \in Nat : <<y, x>> \in R <=> y < x
    BY DEF OpToRel
<1> HIDE DEF R
<1>3. PICK x \in T : \A y \in T : ~ (<<y, x>> \in R)
    BY <1>1, WFMin
<1>4. \A y \in T : ~(y < x)
    BY <1>2, <1>3
<1>5. \A y \in T : x <= y
    BY <1>4
<1> QED
    BY <1>5

\* Induction, for a set instead of a predicate.
LEMMA InductionOverNat ==
    ASSUME NEW S, 0 \in S, \A n \in Nat : n \in S => n + 1 \in S
    PROVE  Nat \subseteq S
<1> SUFFICES ASSUME Nat \ S # {} PROVE FALSE
    OBVIOUS
<1>1. PICK x \in Nat \ S : \A y \in Nat \ S : x <= y
    BY LeastNatural
<1>2. x # 0 /\ x - 1 \in Nat
    BY <1>1
<1>3. x - 1 \in S
    BY <1>1, <1>2
<1> QED
    BY <1>1, <1>2, <1>3

\* Subsets of a finite set are finite and no larger.
LEMMA SubsetSize ==
    ASSUME NEW S, IsFiniteSet(S), NEW X \in SUBSET S
    PROVE  IsFiniteSet(X) /\ Cardinality(X) \in Nat /\ Cardinality(X) <= Cardinality(S)
BY FS_Subset, FS_CardinalityType

\* One more step of a visit.
Onward(next, X) == X \cup UNION {next[x] : x \in X}

\* A step of a visit stays in the graph and forgets nothing.
LEMMA StepType ==
    ASSUME NEW S, NEW next \in [S -> SUBSET S], NEW X \in SUBSET S
    PROVE  Onward(next, X) \in SUBSET S /\ X \subseteq Onward(next, X)
BY DEF Onward

\* L starts with a, and F tells the next value from the number and the value.
Iterates(L, V, a, F) ==
    /\ L \in [Nat -> V]
    /\ L[0] = a
    /\ \A n \in Nat : L[n + 1] = F[n][L[n]]

\* Definition by recursion.
LEMMA RecursionExists ==
    ASSUME NEW V, NEW a \in V, NEW F \in [Nat -> [V -> V]]
    PROVE  \E L : Iterates(L, V, a, F)
<1> DEFINE Runs(n) == {g \in [0 .. n -> V] : g[0] = a /\ \A i \in 1 .. n : g[i] = F[i - 1][g[i - 1]]}
<1>1. \A n \in Nat : Runs(n) # {}
    <2> DEFINE T == {n \in Nat : Runs(n) # {}}
    <2>1. 0 \in T
        <3>1. [i \in 0 .. 0 |-> a] \in Runs(0)
            OBVIOUS
        <3> QED
            BY <3>1
    <2>2. ASSUME NEW n \in Nat, n \in T PROVE n + 1 \in T
        <3>1. PICK g \in [0 .. n -> V] : g[0] = a /\ \A i \in 1 .. n : g[i] = F[i - 1][g[i - 1]]
            BY <2>2
        <3> DEFINE h == [i \in 0 .. n + 1 |-> IF i = n + 1 THEN F[n][g[n]] ELSE g[i]]
        <3>2. F[n][g[n]] \in V
            <4>1. g[n] \in V
                BY <3>1
            <4> QED
                BY <4>1
        <3>3. h \in [0 .. n + 1 -> V]
            BY <3>1, <3>2
        <3>4. h[0] = a
            BY <3>1
        <3>5. ASSUME NEW i \in 1 .. n + 1 PROVE h[i] = F[i - 1][h[i - 1]]
            <4>1. CASE i = n + 1
                <5>1. h[n + 1] = F[n][g[n]] /\ h[n] = g[n] /\ (n + 1) - 1 = n
                    OBVIOUS
                <5> HIDE DEF h
                <5> QED
                    BY <4>1, <5>1
            <4>2. CASE i # n + 1
                BY <3>1, <4>2
            <4> QED
                BY <4>1, <4>2
        <3> HIDE DEF h
        <3>6. h \in Runs(n + 1)
            BY <3>3, <3>4, <3>5
        <3> QED
            BY <3>6
    <2> HIDE DEF T
    <2>3. Nat \subseteq T
        BY <2>1, <2>2, InductionOverNat
    <2> QED
        BY <2>3 DEF T
<1>2. ASSUME NEW n \in Nat, NEW m \in Nat, NEW g \in Runs(n), NEW h \in Runs(m)
      PROVE  \A i \in Nat : i <= n /\ i <= m => g[i] = h[i]
    <2> DEFINE T == {i \in Nat : i <= n /\ i <= m => g[i] = h[i]}
    <2>1. 0 \in T
        OBVIOUS
    <2>2. ASSUME NEW i \in Nat, i \in T PROVE i + 1 \in T
        <3> SUFFICES ASSUME i + 1 <= n, i + 1 <= m PROVE g[i + 1] = h[i + 1]
            OBVIOUS
        <3>1. g[i] = h[i]
            BY <2>2
        <3>2. i + 1 \in 1 .. n /\ i + 1 \in 1 .. m /\ (i + 1) - 1 = i
            OBVIOUS
        <3>3. g[i + 1] = F[i][g[i]] /\ h[i + 1] = F[i][h[i]]
            BY <3>2
        <3> QED
            BY <3>1, <3>3
    <2> HIDE DEF T
    <2>3. Nat \subseteq T
        BY <2>1, <2>2, InductionOverNat
    <2> QED
        BY <2>3 DEF T
<1> DEFINE G(n) == CHOOSE g : g \in Runs(n)
           L    == [n \in Nat |-> G(n)[n]]
<1>3. \A n \in Nat : G(n) \in Runs(n)
    BY <1>1
<1> HIDE DEF G
<1>4. L \in [Nat -> V]
    BY <1>3
<1>5. L[0] = a
    BY <1>3
<1>6. ASSUME NEW n \in Nat PROVE L[n + 1] = F[n][L[n]]
    <2>1. n + 1 \in Nat /\ n + 1 \in 1 .. n + 1 /\ (n + 1) - 1 = n
        OBVIOUS
    <2>2. G(n + 1) \in Runs(n + 1) /\ G(n) \in Runs(n)
        BY <1>3, <2>1
    <2>3. G(n + 1)[n + 1] = F[n][G(n + 1)[n]]
        BY <2>1, <2>2
    <2>4. G(n + 1)[n] = G(n)[n]
        <3>1. n <= n + 1 /\ n <= n
            OBVIOUS
        <3> HIDE DEF Runs
        <3>2. \A i \in Nat : i <= n + 1 /\ i <= n => G(n + 1)[i] = G(n)[i]
            BY <1>2, <2>1, <2>2
        <3> QED
            BY <3>1, <3>2
    <2> QED
        BY <2>1, <2>3, <2>4
<1>7. Iterates(L, V, a, F)
    BY <1>4, <1>5, <1>6 DEF Iterates
<1> QED
    BY <1>7

\* The recursive function that Levels names exists.
LEMMA LevelsExist ==
    ASSUME NEW S, NEW next \in [S -> SUBSET S], NEW start \in SUBSET S
    PROVE  \E L \in [Nat -> SUBSET S] : L = [n \in Nat |-> IF n = 0 THEN start ELSE Onward(next, L[n - 1])]
<1>1. PICK V : V = SUBSET S
    OBVIOUS
<1>2. PICK F : F = [n \in Nat |-> [X \in V |-> Onward(next, X)]]
    OBVIOUS
<1>3. F \in [Nat -> [V -> V]] /\ start \in V
    BY <1>1, <1>2, StepType
<1>4. PICK L \in [Nat -> V] : L[0] = start /\ \A n \in Nat : L[n + 1] = F[n][L[n]]
    <2>1. PICK L : Iterates(L, V, start, F)
        BY <1>3, RecursionExists
    <2> QED
        BY <2>1 DEF Iterates
<1>5. ASSUME NEW n \in Nat PROVE L[n] = IF n = 0 THEN start ELSE Onward(next, L[n - 1])
    <2>1. CASE n = 0
        BY <1>4, <2>1
    <2>2. CASE n # 0
        <3>1. n - 1 \in Nat /\ (n - 1) + 1 = n
            BY <2>2
        <3>2. L[n - 1] \in V
            BY <1>4, <3>1
        <3>3. F[n - 1][L[n - 1]] = Onward(next, L[n - 1])
            BY <1>2, <3>1, <3>2
        <3> QED
            BY <1>4, <2>2, <3>1, <3>3
    <2> QED
        BY <2>1, <2>2
<1> QED
    BY <1>1, <1>4, <1>5

\* Levels(start, next) satisfies its recursive definition.
LEMMA LevelsDef ==
    ASSUME NEW S, NEW next \in [S -> SUBSET S], NEW start \in SUBSET S
    PROVE  /\ Levels(start, next) \in [Nat -> SUBSET S]
           /\ Levels(start, next)[0] = start
           /\ \A n \in Nat : Levels(start, next)[n + 1] = Onward(next, Levels(start, next)[n])
<1> DEFINE Good(L) == L = [n \in Nat |-> IF n = 0 THEN start ELSE Onward(next, L[n - 1])]
<1>1. \E L : Good(L)
    <2>1. PICK L \in [Nat -> SUBSET S] : L = [n \in Nat |-> IF n = 0 THEN start ELSE Onward(next, L[n - 1])]
        BY LevelsExist
    <2> QED
        BY <2>1
<1>2. Good(CHOOSE L : Good(L))
    BY <1>1
<1>3. Levels(start, next) = CHOOSE L : Good(L)
    BY DEF Levels, Onward
<1>4. Good(Levels(start, next))
    BY <1>2, <1>3
<1> DEFINE L == Levels(start, next)
<1> HIDE DEF L
<1>5. L = [n \in Nat |-> IF n = 0 THEN start ELSE Onward(next, L[n - 1])]
    BY <1>4 DEF L
<1>6. L[0] = start
    BY <1>5
<1>7. ASSUME NEW n \in Nat PROVE L[n + 1] = Onward(next, L[n])
    <2>1. n + 1 \in Nat /\ n + 1 # 0 /\ (n + 1) - 1 = n
        OBVIOUS
    <2> QED
        BY <1>5, <2>1
<1>8. L \in [Nat -> SUBSET S]
    <2> DEFINE T == {n \in Nat : L[n] \in SUBSET S}
    <2>1. 0 \in T
        BY <1>6
    <2>2. ASSUME NEW n \in Nat, n \in T PROVE n + 1 \in T
        BY <1>7, <2>2, StepType
    <2> HIDE DEF T
    <2>3. Nat \subseteq T
        BY <2>1, <2>2, InductionOverNat
    <2>4. \A n \in Nat : L[n] \in SUBSET S
        BY <2>3 DEF T
    <2> QED
        BY <1>5, <2>4
<1> QED
    BY <1>6, <1>7, <1>8 DEF L

\* A visit that stops to find anything new has found everything; it stops
\* before it has made as many steps as there are things to find.
LEMMA LevelsGrow ==
    ASSUME NEW S, IsFiniteSet(S), NEW next \in [S -> SUBSET S], NEW start \in SUBSET S,
           NEW L, L = Levels(start, next)
    PROVE  \A n \in Nat : (\E m \in 0 .. n : L[m + 1] = L[m]) \/ Cardinality(L[n + 1]) > n
<1>1. L \in [Nat -> SUBSET S] /\ \A n \in Nat : L[n + 1] = Onward(next, L[n])
    BY LevelsDef
<1>2. \A n \in Nat : IsFiniteSet(L[n]) /\ Cardinality(L[n]) \in Nat /\ L[n] \subseteq L[n + 1]
    <2> TAKE n \in Nat
    <2>1. PICK X \in SUBSET S : X = L[n]
        BY <1>1
    <2>2. L[n + 1] = Onward(next, X)
        BY <1>1, <2>1
    <2> QED
        BY <2>1, <2>2, StepType, SubsetSize
<1>3. \A n \in Nat : L[n + 1] = L[n] \/ Cardinality(L[n + 1]) > Cardinality(L[n])
    <2> TAKE n \in Nat
    <2>1. n + 1 \in Nat
        OBVIOUS
    <2>2. PICK X, Y : X = L[n] /\ Y = L[n + 1]
        OBVIOUS
    <2>3. IsFiniteSet(X) /\ IsFiniteSet(Y) /\ X \in SUBSET Y /\ Cardinality(X) \in Nat /\ Cardinality(Y) \in Nat
        BY <1>2, <2>1, <2>2
    <2>4. Cardinality(X) <= Cardinality(Y) /\ (Cardinality(Y) = Cardinality(X) => Y = X)
        BY <2>3, FS_Subset
    <2> QED
        BY <2>2, <2>3, <2>4
<1> DEFINE T == {n \in Nat : (\E m \in 0 .. n : L[m + 1] = L[m]) \/ Cardinality(L[n + 1]) > n}
<1>4. 0 \in T
    <2>1. Cardinality(L[0]) \in Nat /\ Cardinality(L[0 + 1]) \in Nat
        BY <1>2
    <2>2. L[0 + 1] = L[0] \/ Cardinality(L[0 + 1]) > Cardinality(L[0])
        BY <1>3
    <2>3. CASE L[0 + 1] = L[0]
        BY <2>3
    <2>4. CASE Cardinality(L[0 + 1]) > Cardinality(L[0])
        BY <2>1, <2>4
    <2> QED
        BY <2>2, <2>3, <2>4
<1>5. ASSUME NEW n \in Nat, n \in T PROVE n + 1 \in T
    <2>1. CASE \E m \in 0 .. n : L[m + 1] = L[m]
        BY <2>1
    <2>2. CASE Cardinality(L[n + 1]) > n
        <3>1. n + 1 \in Nat /\ n + 1 \in 0 .. n + 1
            OBVIOUS
        <3>2. /\ Cardinality(L[n + 1]) \in Nat /\ Cardinality(L[(n + 1) + 1]) \in Nat
              /\ L[(n + 1) + 1] = L[n + 1] \/ Cardinality(L[(n + 1) + 1]) > Cardinality(L[n + 1])
            BY <1>2, <1>3, <3>1
        <3>3. CASE L[(n + 1) + 1] = L[n + 1]
            BY <3>1, <3>3
        <3>4. CASE Cardinality(L[(n + 1) + 1]) > Cardinality(L[n + 1])
            BY <2>2, <3>1, <3>2, <3>4
        <3> QED
            BY <3>2, <3>3, <3>4
    <2> QED
        BY <1>5, <2>1, <2>2
<1> HIDE DEF T
<1>6. Nat \subseteq T
    BY <1>4, <1>5, InductionOverNat
<1> QED
    BY <1>6 DEF T

\* Reachable(start, next) is the least set with `start` that is closed.
LEMMA ReachableClosed ==
    ASSUME NEW S, IsFiniteSet(S), NEW next \in [S -> SUBSET S], NEW start \in SUBSET S
    PROVE  /\ Reachable(start, next) \in SUBSET S
           /\ start \subseteq Reachable(start, next)
           /\ \A x \in Reachable(start, next) : next[x] \subseteq Reachable(start, next)
           /\ \A X : start \subseteq X /\ (\A x \in X \cap S : next[x] \subseteq X) => Reachable(start, next) \subseteq X
<1>1. PICK L : L = Levels(start, next)
    OBVIOUS
<1>2. L \in [Nat -> SUBSET S] /\ L[0] = start /\ \A n \in Nat : L[n + 1] = Onward(next, L[n])
    BY <1>1, LevelsDef
<1>3. PICK c \in Nat : c = Cardinality(S)
    BY FS_CardinalityType
<1>4. Reachable(start, next) = L[c]
    BY <1>1, <1>3 DEF Reachable
<1>5. \A n \in Nat : L[n] \subseteq L[n + 1] /\ IsFiniteSet(L[n]) /\ Cardinality(L[n]) \in Nat /\ Cardinality(L[n]) <= c
    <2> TAKE n \in Nat
    <2>1. PICK X \in SUBSET S : X = L[n]
        BY <1>2
    <2>2. L[n + 1] = Onward(next, X)
        BY <1>2, <2>1
    <2> QED
        BY <1>3, <2>1, <2>2, StepType, SubsetSize
<1>6. start \subseteq L[c]
    <2> DEFINE T == {n \in Nat : start \subseteq L[n]}
    <2>1. 0 \in T /\ \A n \in Nat : n \in T => n + 1 \in T
        BY <1>2, <1>5
    <2> HIDE DEF T
    <2>2. Nat \subseteq T
        BY <2>1, InductionOverNat
    <2> QED
        BY <2>2 DEF T
<1>7. PICK m \in 0 .. c : L[m + 1] = L[m]
    <2>1. (\E m \in 0 .. c : L[m + 1] = L[m]) \/ Cardinality(L[c + 1]) > c
        BY <1>1, LevelsGrow
    <2>2. Cardinality(L[c + 1]) \in Nat /\ Cardinality(L[c + 1]) <= c
        BY <1>5
    <2> QED
        BY <2>1, <2>2
<1>8. \A n \in Nat : L[m + n] = L[m]
    <2> DEFINE T == {n \in Nat : L[m + n] = L[m]}
    <2>1. m \in Nat /\ L[m + 0] = L[m]
        OBVIOUS
    <2>2. ASSUME NEW n \in Nat, n \in T PROVE n + 1 \in T
        <3>1. m + n \in Nat /\ m + (n + 1) = (m + n) + 1
            OBVIOUS
        <3>2. L[m + (n + 1)] = Onward(next, L[m]) /\ L[m + 1] = Onward(next, L[m])
            BY <1>2, <2>2, <3>1
        <3> QED
            BY <1>7, <3>2
    <2>3. 0 \in T
        BY <2>1
    <2> HIDE DEF T
    <2>4. Nat \subseteq T
        BY <2>2, <2>3, InductionOverNat
    <2> QED
        BY <2>4 DEF T
<1>9. Onward(next, L[c]) = L[c]
    <2>1. c - m \in Nat /\ m + (c - m) = c /\ (c - m) + 1 \in Nat /\ m + ((c - m) + 1) = c + 1
        OBVIOUS
    <2>2. L[c] = L[m] /\ L[c + 1] = L[m]
        BY <1>8, <2>1
    <2> QED
        BY <1>2, <2>2
<1>10. ASSUME NEW X, start \subseteq X, \A x \in X \cap S : next[x] \subseteq X PROVE L[c] \subseteq X
    <2> DEFINE T == {n \in Nat : L[n] \subseteq X}
    <2>1. 0 \in T
        BY <1>2, <1>10
    <2>2. ASSUME NEW n \in Nat, n \in T PROVE n + 1 \in T
        <3>1. L[n] \subseteq X \cap S /\ L[n + 1] = Onward(next, L[n])
            BY <1>2, <2>2
        <3>2. Onward(next, L[n]) \subseteq X
            BY <1>10, <3>1 DEF Onward
        <3> QED
            BY <3>1, <3>2
    <2> HIDE DEF T
    <2>3. Nat \subseteq T
        BY <2>1, <2>2, InductionOverNat
    <2> QED
        BY <2>3 DEF T
<1>11. \A x \in L[c] : next[x] \subseteq L[c]
    BY <1>9 DEF Onward
<1> QED
    BY <1>2, <1>4, <1>6, <1>10, <1>11

\* In a finite graph without cycles every set has also an element that comes
\* after none of the others.
LEMMA AcyclicTop ==
    ASSUME NEW S, IsFiniteSet(S), NEW next \in [S -> SUBSET S], Acyclic(next),
           NEW T \in SUBSET S, T # {}
    PROVE  \E x \in T : \A y \in T : x \notin next[y]
<1> SUFFICES ASSUME \A x \in T : \E y \in T : x \in next[y] PROVE FALSE
    OBVIOUS
<1> DEFINE Bad(U) == U \subseteq T /\ U # {} /\ \A x \in U : \E y \in U : x \in next[y]
           Sizes  == {n \in Nat : \E U : Bad(U) /\ n = Cardinality(U)}
<1>1. \A U : U \subseteq T => IsFiniteSet(U) /\ Cardinality(U) \in Nat
    BY FS_Subset, FS_CardinalityType
<1>2. Cardinality(T) \in Sizes
    BY <1>1
<1>3. Sizes \in SUBSET Nat /\ Sizes # {}
    BY <1>2
<1>4. PICK n \in Sizes : \A k \in Sizes : n <= k
    <2> HIDE DEF Sizes
    <2> QED
        BY <1>3, LeastNatural
<1>5. PICK U : Bad(U) /\ n = Cardinality(U)
    OBVIOUS
<1>6. PICK x \in U : next[x] \cap U = {}
    <2>1. U \in SUBSET DOMAIN next /\ U # {}
        BY <1>5
    <2> QED
        BY <2>1 DEF Acyclic
<1>7. Bad(U \ {x})
    BY <1>5, <1>6
<1>8. Cardinality(U \ {x}) = Cardinality(U) - 1 /\ Cardinality(U) \in Nat /\ Cardinality(U \ {x}) \in Nat
    <2>1. IsFiniteSet(U) /\ Cardinality(U) \in Nat /\ Cardinality(U \ {x}) \in Nat
        BY <1>1, <1>5
    <2> QED
        BY <1>6, <2>1, FS_RemoveElement
<1>9. Cardinality(U \ {x}) \in Sizes
    BY <1>7, <1>8
<1>10. n <= Cardinality(U \ {x})
    BY <1>4, <1>9
<1> QED
    BY <1>5, <1>8, <1>10
=============================================================================
