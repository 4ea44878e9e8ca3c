---------------------------- MODULE FiniteLemmas ----------------------------
(***************************************************************************)
(* Facts about finite sets on which the proofs of several modules rest:    *)
(* smallest members, the first elements of a set in an order, and sums.    *)
(* Induction over finite sets is done by a smallest counterexample.        *)
(***************************************************************************)
EXTENDS Integers, FiniteSets, FiniteSetsExt, FiniteSetTheorems, TLAPS

\* A family of subsets of a finite set has a member no other is inside of.
LEMMA SmallestSet ==
    ASSUME NEW S, IsFiniteSet(S), NEW F, F \subseteq SUBSET S, F # {}
    PROVE  \E X \in F : \A Y \in F : Y \subseteq X => Y = X
<1>1. IsWellFoundedOn(StrictSubsetOrdering(S), SUBSET S)
    BY FS_StrictSubsetOrderingWellFounded, FS_FiniteSubsetsOfFinite
<1>2. \E X \in F : \A Y \in F : <<Y, X>> \notin StrictSubsetOrdering(S)
    BY <1>1, WFMin
<1> QED BY <1>2 DEF StrictSubsetOrdering

-----------------------------------------------------------------------------
(* Orders.  R is a set of pairs, <<x, y>> when x comes before y.           *)

Orders(R, S) ==
    /\ \A x \in S : <<x, x>> \notin R
    /\ \A x, y \in S : x = y \/ <<x, y>> \in R \/ <<y, x>> \in R
    /\ \A x, y, z \in S : <<x, y>> \in R /\ <<y, z>> \in R => <<x, z>> \in R

\* What comes before x, and the first n.
Preceding(R, S, x) == {y \in S : <<y, x>> \in R}
Foremost(R, S, n) == {x \in S : Cardinality(Preceding(R, S, x)) < n}

LEMMA FirstElement ==
    ASSUME NEW S, IsFiniteSet(S), NEW R, Orders(R, S), NEW T, T \subseteq S, T # {}
    PROVE  \E x \in T : \A y \in T : y = x \/ <<x, y>> \in R
<1> DEFINE F == {Preceding(R, T, x) : x \in T}
<1>0. F \subseteq SUBSET S /\ F # {}
    BY DEF Preceding
<1>1. PICK X \in F : \A Y \in F : Y \subseteq X => Y = X
  <2> HIDE DEF F
  <2> QED BY <1>0, SmallestSet
<1>2. PICK x \in T : X = Preceding(R, T, x)
    BY <1>1
<1>3. ASSUME NEW y \in X PROVE FALSE
  <2>1. y \in T /\ <<y, x>> \in R
      BY <1>2, <1>3 DEF Preceding
  <2>2. Preceding(R, T, y) \subseteq X /\ y \notin Preceding(R, T, y)
      BY <1>2, <2>1 DEF Preceding, Orders
  <2> QED BY <1>1, <1>3, <2>1, <2>2
<1> QED BY <1>2, <1>3 DEF Preceding, Orders

LEMMA LastElement ==
    ASSUME NEW S, IsFiniteSet(S), NEW R, Orders(R, S), NEW T, T \subseteq S, T # {}
    PROVE  \E x \in T : \A y \in T : y = x \/ <<y, x>> \in R
<1> DEFINE Q == {p \in S \X S : <<p[2], p[1]>> \in R}
<1>1. \A x, y \in S : <<x, y>> \in Q <=> <<y, x>> \in R
    OBVIOUS
<1> HIDE DEF Q
<1>2. Orders(Q, S)
    BY <1>1 DEF Orders
<1>3. PICK x \in T : \A y \in T : y = x \/ <<x, y>> \in Q
    BY <1>2, FirstElement
<1> QED BY <1>1, <1>3

\* Counting those before: it tells two elements apart, and agrees with the order.
LEMMA PrecedingGrows ==
    ASSUME NEW S, IsFiniteSet(S), NEW R, Orders(R, S),
           NEW x \in S, NEW y \in S, <<x, y>> \in R
    PROVE  /\ Cardinality(Preceding(R, S, x)) \in Nat
           /\ Cardinality(Preceding(R, S, y)) \in Nat
           /\ Cardinality(Preceding(R, S, x)) < Cardinality(Preceding(R, S, y))
<1> DEFINE A == Preceding(R, S, x)
           B == Preceding(R, S, y)
<1>1. A \subseteq B /\ x \in B /\ x \notin A /\ B \subseteq S
    BY DEF Preceding, Orders
<1>2. IsFiniteSet(B) /\ A \in SUBSET B
    BY <1>1, FS_Subset
<1>3. IsFiniteSet(A) /\ Cardinality(A) <= Cardinality(B) /\ Cardinality(B) # Cardinality(A)
    BY <1>1, <1>2, FS_Subset
<1> QED BY <1>2, <1>3, FS_CardinalityType

\* The first n are n at most, and exactly n when something comes after them.
LEMMA ForemostCount ==
    ASSUME NEW S, IsFiniteSet(S), NEW R, Orders(R, S), NEW n \in Nat
    PROVE  /\ IsFiniteSet(Foremost(R, S, n))
           /\ Cardinality(Foremost(R, S, n)) <= n
           /\ Foremost(R, S, n) # S => Cardinality(Foremost(R, S, n)) = n
<1> DEFINE F == Foremost(R, S, n)
<1>1. F \subseteq S /\ IsFiniteSet(F) /\ Cardinality(F) \in Nat
    BY FS_Subset, FS_CardinalityType DEF Foremost
<1>2. Cardinality(F) <= n
  <2>1. CASE F = {}
      BY <2>1, FS_EmptySet
  <2>2. CASE F # {}
    <3>1. PICK x \in F : \A y \in F : y = x \/ <<y, x>> \in R
        BY <1>1, <2>2, LastElement
    <3>2. x \in S /\ Cardinality(Preceding(R, S, x)) < n
        BY <3>1 DEF Foremost
    <3>3. F \ {x} \in SUBSET Preceding(R, S, x)
        BY <1>1, <3>1 DEF Preceding
    <3>4. IsFiniteSet(Preceding(R, S, x)) /\ Cardinality(Preceding(R, S, x)) \in Nat
        BY FS_Subset, FS_CardinalityType DEF Preceding
    <3>5. Cardinality(F \ {x}) <= Cardinality(Preceding(R, S, x))
        BY <3>3, <3>4, FS_Subset
    <3>6. Cardinality(F \ {x}) = Cardinality(F) - 1
        BY <1>1, <3>1, FS_RemoveElement
    <3> QED BY <1>1, <3>2, <3>4, <3>5, <3>6
  <2> QED BY <2>1, <2>2
<1>3. ASSUME F # S PROVE n <= Cardinality(F)
  <2> DEFINE T == S \ F
  <2>0. T \subseteq S /\ T # {}
      BY <1>1, <1>3
  <2>1. PICK x \in T : \A y \in T : y = x \/ <<x, y>> \in R
    <3> HIDE DEF T
    <3> QED BY <2>0, FirstElement
  <2>2. IsFiniteSet(Preceding(R, S, x)) /\ Cardinality(Preceding(R, S, x)) \in Nat
      BY FS_Subset, FS_CardinalityType DEF Preceding
  <2>3. ~(Cardinality(Preceding(R, S, x)) < n)
      BY <2>1 DEF Foremost
  <2>4. Preceding(R, S, x) \in SUBSET F
      BY <2>1 DEF Preceding, Orders
  <2>5. Cardinality(Preceding(R, S, x)) <= Cardinality(F)
      BY <1>1, <2>4, FS_Subset
  <2> QED BY <1>1, <2>2, <2>3, <2>5
<1> QED BY <1>1, <1>2, <1>3

\* What comes before one of the first n is one of them.
LEMMA ForemostClosed ==
    ASSUME NEW S, IsFiniteSet(S), NEW R, Orders(R, S), NEW n \in Nat,
           NEW y \in Foremost(R, S, n), NEW x \in S, <<x, y>> \in R
    PROVE  x \in Foremost(R, S, n)
<1>1. y \in S
    BY DEF Foremost
<1> QED BY <1>1, PrecedingGrows DEF Foremost

\* Numbering the elements by what comes before them leaves no gap.
LEMMA Numbering ==
    ASSUME NEW S, IsFiniteSet(S), NEW R, Orders(R, S)
    PROVE  {1 + Cardinality(Preceding(R, S, x)) : x \in S} = 1 .. Cardinality(S)
<1> DEFINE C == Cardinality(S)
           N(x) == Cardinality(Preceding(R, S, x))
<1>0. C \in Nat /\ \A x \in S : IsFiniteSet(Preceding(R, S, x)) /\ N(x) \in Nat
    BY FS_Subset, FS_CardinalityType DEF Preceding
<1>1. ASSUME NEW x \in S PROVE 1 + N(x) \in 1 .. C
  <2>1. Preceding(R, S, x) \in SUBSET (S \ {x})
      BY DEF Preceding, Orders
  <2>2. IsFiniteSet(S \ {x}) /\ Cardinality(S \ {x}) = C - 1
      BY FS_RemoveElement
  <2>3. N(x) <= C - 1
      BY <2>1, <2>2, FS_Subset
  <2> QED BY <1>0, <2>3
<1>2. ASSUME NEW k \in 1 .. C PROVE \E x \in S : k = 1 + N(x)
  <2> DEFINE n == k - 1
             A == Foremost(R, S, n)
             T == S \ A
  <2>1. n \in Nat /\ n < C
      BY <1>0
  <2>2. IsFiniteSet(A) /\ Cardinality(A) <= n /\ (A # S => Cardinality(A) = n) /\ A \subseteq S
    <3> HIDE DEF n
    <3> QED BY <2>1, ForemostCount DEF Foremost
  <2>3. A # S
      BY <1>0, <2>1, <2>2
  <2>4. T \subseteq S /\ T # {}
      BY <2>2, <2>3
  <2>5. PICK x \in T : \A y \in T : y = x \/ <<x, y>> \in R
    <3> HIDE DEF T
    <3> QED BY <2>4, FirstElement
  <2>6. Preceding(R, S, x) \in SUBSET A
      BY <2>5 DEF Preceding, Orders
  <2>7. N(x) <= n
      BY <2>2, <2>3, <2>6, FS_Subset
  <2>8. ~(N(x) < n)
      BY <2>5 DEF Foremost
  <2> QED BY <1>0, <2>1, <2>5, <2>7, <2>8
<1> QED BY <1>1, <1>2

-----------------------------------------------------------------------------
(* Sums.                                                                   *)

Total(f, S) == MapThenSumSet(LAMBDA x : f[x], S)

\* The function the sum is the last value of.
Pick(T) == CHOOSE x \in T : TRUE
Sums(g, f, S) ==
    g = [T \in SUBSET S |-> IF T = {} THEN 0 ELSE f[Pick(T)] + g[T \ {Pick(T)}]]

LEMMA TotalIs == ASSUME NEW f, NEW S PROVE Total(f, S) = (CHOOSE g : Sums(g, f, S))[S]
BY DEF Total, MapThenSumSet, MapThenFoldSet, Sums, Pick

\* Two of them agree where both are defined.
LEMMA SumsUnique ==
    ASSUME NEW f, NEW A, NEW B, IsFiniteSet(A), NEW g, NEW h, Sums(g, f, A), Sums(h, f, B),
           NEW X \in SUBSET (A \cap B)
    PROVE  g[X] = h[X]
<1> DEFINE F == {T \in SUBSET (A \cap B) : g[T] # h[T]}
<1>1. ASSUME F # {} PROVE FALSE
  <2>0. IsFiniteSet(A \cap B) /\ F \subseteq SUBSET (A \cap B)
      BY FS_Subset
  <2>1. PICK T \in F : \A Y \in F : Y \subseteq T => Y = T
    <3> HIDE DEF F
    <3> QED BY <1>1, <2>0, SmallestSet
  <2>2. g[T] = IF T = {} THEN 0 ELSE f[Pick(T)] + g[T \ {Pick(T)}]
      BY DEF Sums
  <2>3. h[T] = IF T = {} THEN 0 ELSE f[Pick(T)] + h[T \ {Pick(T)}]
      BY DEF Sums
  <2>4. T # {} => Pick(T) \in T
      BY DEF Pick
  <2> QED BY <2>1, <2>2, <2>3, <2>4
<1> QED BY <1>1

\* And there is one.
LEMMA SumsExist ==
    ASSUME NEW f, NEW S, IsFiniteSet(S)
    PROVE  \E g : Sums(g, f, S)
<1> DEFINE F == {T \in SUBSET S : ~ \E g : Sums(g, f, T)}
           G(T) == CHOOSE g : Sums(g, f, T)
<1>1. ASSUME F # {} PROVE FALSE
  <2>0. F \subseteq SUBSET S
      OBVIOUS
  <2>1. PICK X \in F : \A Y \in F : Y \subseteq X => Y = X
    <3> HIDE DEF F
    <3> QED BY <1>1, <2>0, SmallestSet
  <2>2. \A Y \in SUBSET X : Y # X => Sums(G(Y), f, Y)
      BY <2>1
  <2> DEFINE Rest(T) == T \ {Pick(T)}
             g == [T \in SUBSET X |-> IF T = {} THEN 0 ELSE f[Pick(T)] + G(Rest(T))[Rest(T)]]
  <2> HIDE DEF G
  <2>3. \A T \in SUBSET X : T # {} => Rest(T) \in SUBSET X /\ Rest(T) # X /\ Rest(T) # T
                                     /\ Rest(T) \in SUBSET T
      BY DEF Pick
  <2>4. ASSUME NEW T \in SUBSET X, T # {} PROVE g[Rest(T)] = G(Rest(T))[Rest(T)]
    <3> DEFINE U == Rest(T)
    <3>1. U \in SUBSET X /\ U # X /\ IsFiniteSet(U)
        BY <2>3, <2>4, FS_Subset
    <3>2. Sums(G(U), f, U)
        BY <2>2, <3>1
    <3>3. G(U)[U] = IF U = {} THEN 0 ELSE f[Pick(U)] + G(U)[Rest(U)]
        BY <3>2 DEF Sums
    <3>4. ASSUME U # {} PROVE G(U)[Rest(U)] = G(Rest(U))[Rest(U)]
      <4>1. Rest(U) \in SUBSET U /\ Rest(U) \in SUBSET X /\ Rest(U) # X
          BY <2>3, <3>1, <3>4
      <4>2. Sums(G(Rest(U)), f, Rest(U))
          BY <2>2, <4>1
      <4> QED BY <3>1, <3>2, <4>1, <4>2, SumsUnique
    <3>5. g[U] = IF U = {} THEN 0 ELSE f[Pick(U)] + G(Rest(U))[Rest(U)]
        BY <3>1
    <3> QED BY <3>3, <3>4, <3>5
  <2>5. g = [T \in SUBSET X |-> IF T = {} THEN 0 ELSE f[Pick(T)] + g[T \ {Pick(T)}]]
      BY <2>4
  <2>6. Sums(g, f, X)
      BY <2>5 DEF Sums
  <2> QED BY <2>1, <2>6
<1> QED BY <1>1

\* So the sum obeys the recursion it is defined by,
LEMMA TotalPick ==
    ASSUME NEW f, NEW S, IsFiniteSet(S)
    PROVE  Total(f, S) = IF S = {} THEN 0 ELSE f[Pick(S)] + Total(f, S \ {Pick(S)})
<1> DEFINE G(T) == CHOOSE g : Sums(g, f, T)
           R == S \ {Pick(S)}
<1>1. IsFiniteSet(R) /\ R \in SUBSET S
    BY FS_Subset
<1>2. Sums(G(S), f, S) /\ Sums(G(R), f, R)
    BY <1>1, SumsExist
<1>3. Total(f, S) = G(S)[S] /\ Total(f, R) = G(R)[R]
    BY TotalIs
<1> HIDE DEF G
<1>4. G(S)[R] = G(R)[R]
    BY <1>1, <1>2, SumsUnique
<1>5. G(S)[S] = IF S = {} THEN 0 ELSE f[Pick(S)] + G(S)[R]
    BY <1>2 DEF Sums
<1> QED BY <1>3, <1>4, <1>5

LEMMA TotalEmpty == ASSUME NEW f PROVE Total(f, {}) = 0
BY TotalPick, FS_EmptySet

\* is a number,
LEMMA TotalType ==
    ASSUME NEW f, NEW S, IsFiniteSet(S), \A x \in S : f[x] \in Int
    PROVE  Total(f, S) \in Int
<1> DEFINE F == {T \in SUBSET S : Total(f, T) \notin Int}
<1>1. ASSUME F # {} PROVE FALSE
  <2>0. F \subseteq SUBSET S
      OBVIOUS
  <2>1. PICK T \in F : \A Y \in F : Y \subseteq T => Y = T
    <3> HIDE DEF F
    <3> QED BY <1>1, <2>0, SmallestSet
  <2>2. IsFiniteSet(T)
      BY FS_Subset
  <2>3. Total(f, T) = IF T = {} THEN 0 ELSE f[Pick(T)] + Total(f, T \ {Pick(T)})
      BY <2>2, TotalPick
  <2>4. T # {} => Pick(T) \in T
      BY DEF Pick
  <2>5. T # {} => Total(f, T \ {Pick(T)}) \in Int
      BY <2>1, <2>4
  <2> QED BY <2>3, <2>4, <2>5
<1> QED BY <1>1

\* and does not depend on which element is taken out first.
LEMMA TotalRemove ==
    ASSUME NEW f, NEW S, IsFiniteSet(S), \A x \in S : f[x] \in Int, NEW x \in S
    PROVE  Total(f, S) = f[x] + Total(f, S \ {x})
<1> DEFINE F == {T \in SUBSET S : \E y \in T : Total(f, T) # f[y] + Total(f, T \ {y})}
<1>1. ASSUME F # {} PROVE FALSE
  <2>0. F \subseteq SUBSET S
      OBVIOUS
  <2>1. PICK T \in F : \A Y \in F : Y \subseteq T => Y = T
    <3> HIDE DEF F
    <3> QED BY <1>1, <2>0, SmallestSet
  <2>2. PICK y \in T : Total(f, T) # f[y] + Total(f, T \ {y})
      BY <2>1
  <2> DEFINE c == Pick(T)
             U == T \ {c, y}
  <2>3. c \in T /\ T \subseteq S
      BY DEF Pick
  <2>4. IsFiniteSet(T) /\ IsFiniteSet(T \ {y}) /\ IsFiniteSet(U)
      BY FS_Subset
  <2>5. Total(f, T) = f[c] + Total(f, T \ {c})
      BY <2>2, <2>4, TotalPick
  <2>6. c # y
      BY <2>2, <2>5
  <2> HIDE DEF c
  <2>7. T \ {c} \notin F /\ T \ {y} \notin F
      BY <2>1, <2>2, <2>3
  <2>8. (T \ {c}) \ {y} = U /\ (T \ {y}) \ {c} = U
      OBVIOUS
  <2>9. Total(f, T \ {c}) = f[y] + Total(f, U)
      BY <2>2, <2>3, <2>6, <2>7, <2>8
  <2>10. Total(f, T \ {y}) = f[c] + Total(f, U)
      BY <2>2, <2>3, <2>6, <2>7, <2>8
  <2>11. Total(f, U) \in Int /\ f[c] \in Int /\ f[y] \in Int
      BY <2>3, <2>4, TotalType
  <2> HIDE DEF U
  <2> QED BY <2>2, <2>5, <2>9, <2>10, <2>11
<1> QED BY <1>1

\* A sum over two parts.
LEMMA TotalSplit ==
    ASSUME NEW f, NEW S, IsFiniteSet(S), \A x \in S : f[x] \in Int, NEW T \in SUBSET S
    PROVE  Total(f, S) = Total(f, T) + Total(f, S \ T)
<1> DEFINE F == {U \in SUBSET T : Total(f, U \cup (S \ T)) # Total(f, U) + Total(f, S \ T)}
<1>1. ASSUME F # {} PROVE FALSE
  <2>0. F \subseteq SUBSET T /\ IsFiniteSet(T)
      BY FS_Subset
  <2>1. PICK U \in F : \A Y \in F : Y \subseteq U => Y = U
    <3> HIDE DEF F
    <3> QED BY <1>1, <2>0, SmallestSet
  <2> DEFINE W == U \cup (S \ T)
  <2>2. U \subseteq T /\ Total(f, W) # Total(f, U) + Total(f, S \ T)
      BY <2>1
  <2>3. IsFiniteSet(U) /\ IsFiniteSet(W) /\ IsFiniteSet(S \ T)
      BY <2>0, <2>2, FS_Subset
  <2>4. Total(f, S \ T) \in Int
      BY <2>3, TotalType
  <2>5. CASE U = {}
      BY <2>2, <2>4, <2>5, TotalEmpty
  <2>6. CASE U # {}
    <3>1. PICK x : x \in U
        BY <2>6
    <3>2. Total(f, U) = f[x] + Total(f, U \ {x})
        BY <2>2, <2>3, <3>1, TotalRemove
    <3>3. Total(f, W) = f[x] + Total(f, W \ {x})
        BY <2>2, <2>3, <3>1, TotalRemove
    <3>4. W \ {x} = (U \ {x}) \cup (S \ T)
        BY <2>2, <3>1
    <3>5. U \ {x} \notin F
        BY <2>1, <3>1
    <3>6. Total(f, W \ {x}) = Total(f, U \ {x}) + Total(f, S \ T)
        BY <2>2, <3>4, <3>5
    <3>7. Total(f, U \ {x}) \in Int /\ f[x] \in Int
      <4>1. IsFiniteSet(U \ {x}) /\ \A y \in U \ {x} : f[y] \in Int
          BY <2>2, <2>3, FS_Subset
      <4> QED BY <2>2, <3>1, <4>1, TotalType
    <3> QED BY <2>2, <2>4, <3>2, <3>3, <3>6, <3>7
  <2> QED BY <2>5, <2>6
<1>2. T \cup (S \ T) = S
    OBVIOUS
<1> QED BY <1>1, <1>2

\* Only the summands count,
LEMMA TotalAgrees ==
    ASSUME NEW f, NEW h, NEW S, IsFiniteSet(S), \A x \in S : f[x] = h[x]
    PROVE  Total(f, S) = Total(h, S)
<1> DEFINE F == {T \in SUBSET S : Total(f, T) # Total(h, T)}
<1>1. ASSUME F # {} PROVE FALSE
  <2>0. F \subseteq SUBSET S
      OBVIOUS
  <2>1. PICK T \in F : \A Y \in F : Y \subseteq T => Y = T
    <3> HIDE DEF F
    <3> QED BY <1>1, <2>0, SmallestSet
  <2>2. IsFiniteSet(T)
      BY FS_Subset
  <2>3. /\ Total(f, T) = IF T = {} THEN 0 ELSE f[Pick(T)] + Total(f, T \ {Pick(T)})
        /\ Total(h, T) = IF T = {} THEN 0 ELSE h[Pick(T)] + Total(h, T \ {Pick(T)})
      BY <2>2, TotalPick
  <2>4. T # {} => Pick(T) \in T
      BY DEF Pick
  <2>5. T # {} => Total(f, T \ {Pick(T)}) = Total(h, T \ {Pick(T)})
      BY <2>1, <2>4
  <2> QED BY <2>1, <2>3, <2>4, <2>5
<1> QED BY <1>1

\* sums add, summand by summand;
LEMMA TotalAdds ==
    ASSUME NEW f, NEW d, NEW h, NEW S, IsFiniteSet(S),
           \A x \in S : f[x] \in Int /\ d[x] \in Int /\ h[x] = f[x] + d[x]
    PROVE  Total(h, S) = Total(f, S) + Total(d, S)
<1> DEFINE F == {T \in SUBSET S : Total(h, T) # Total(f, T) + Total(d, T)}
<1>1. ASSUME F # {} PROVE FALSE
  <2>0. F \subseteq SUBSET S
      OBVIOUS
  <2>1. PICK T \in F : \A Y \in F : Y \subseteq T => Y = T
    <3> HIDE DEF F
    <3> QED BY <1>1, <2>0, SmallestSet
  <2> DEFINE c == Pick(T)
             U == T \ {c}
  <2>2. IsFiniteSet(T) /\ IsFiniteSet(U) /\ U \subseteq S
      BY FS_Subset
  <2>3. /\ Total(f, T) = IF T = {} THEN 0 ELSE f[c] + Total(f, U)
        /\ Total(d, T) = IF T = {} THEN 0 ELSE d[c] + Total(d, U)
        /\ Total(h, T) = IF T = {} THEN 0 ELSE h[c] + Total(h, U)
      BY <2>2, TotalPick
  <2>4. T # {} => c \in T
      BY DEF Pick
  <2>5. T # {} => Total(h, U) = Total(f, U) + Total(d, U)
      BY <2>1, <2>4
  <2>6. Total(f, U) \in Int /\ Total(d, U) \in Int
      BY <2>2, TotalType
  <2>7. T # {} => f[c] \in Int /\ d[c] \in Int /\ h[c] = f[c] + d[c]
      BY <2>4
  <2>8. Total(h, T) # Total(f, T) + Total(d, T)
      BY <2>1
  <2> HIDE DEF c, U, F
  <2>9. CASE T = {}
      BY <2>3, <2>8, <2>9
  <2>10. CASE T # {}
      BY <2>3, <2>5, <2>6, <2>7, <2>8, <2>10
  <2> QED BY <2>9, <2>10
<1> QED BY <1>1

\* a constant is added as often as there are summands;
LEMMA TotalConstant ==
    ASSUME NEW f, NEW c \in Int, NEW S, IsFiniteSet(S), \A x \in S : f[x] = c
    PROVE  Total(f, S) = Cardinality(S) * c
<1> DEFINE F == {T \in SUBSET S : Total(f, T) # Cardinality(T) * c}
<1>1. ASSUME F # {} PROVE FALSE
  <2>0. F \subseteq SUBSET S
      OBVIOUS
  <2>1. PICK T \in F : \A Y \in F : Y \subseteq T => Y = T
    <3> HIDE DEF F
    <3> QED BY <1>1, <2>0, SmallestSet
  <2>2. IsFiniteSet(T)
      BY FS_Subset
  <2>3. CASE T = {}
      BY <2>1, <2>3, TotalEmpty, FS_EmptySet
  <2>4. CASE T # {}
    <3>1. PICK x : x \in T
        BY <2>4
    <3>2. Total(f, T) = c + Total(f, T \ {x})
      <4>1. \A y \in T : f[y] \in Int
          OBVIOUS
      <4> QED BY <2>2, <3>1, <4>1, TotalRemove
    <3>3. Total(f, T \ {x}) = Cardinality(T \ {x}) * c
        BY <2>1, <3>1
    <3>4. Cardinality(T \ {x}) = Cardinality(T) - 1 /\ Cardinality(T) \in Nat
        BY <2>2, <3>1, FS_RemoveElement, FS_CardinalityType
    <3> DEFINE k == Cardinality(T)
    <3> HIDE DEF k
    <3>5. k \in Nat => c + (k - 1) * c = k * c
        OBVIOUS
    <3> QED BY <2>1, <3>2, <3>3, <3>4, <3>5 DEF k
  <2> QED BY <2>3, <2>4
<1> QED BY <1>1

\* and what is nowhere negative has no negative sum.
LEMMA TotalNonnegative ==
    ASSUME NEW f, NEW S, IsFiniteSet(S), \A x \in S : f[x] \in Nat
    PROVE  Total(f, S) \in Nat
<1> DEFINE F == {T \in SUBSET S : Total(f, T) \notin Nat}
<1>1. ASSUME F # {} PROVE FALSE
  <2>0. F \subseteq SUBSET S
      OBVIOUS
  <2>1. PICK T \in F : \A Y \in F : Y \subseteq T => Y = T
    <3> HIDE DEF F
    <3> QED BY <1>1, <2>0, SmallestSet
  <2>2. Total(f, T) = IF T = {} THEN 0 ELSE f[Pick(T)] + Total(f, T \ {Pick(T)})
      BY FS_Subset, TotalPick
  <2>3. T # {} => Pick(T) \in T
      BY DEF Pick
  <2>4. T # {} => Total(f, T \ {Pick(T)}) \in Nat
      BY <2>1, <2>3
  <2> QED BY <2>1, <2>2, <2>3, <2>4
<1> QED BY <1>1

\* A change of some summands moves the sum by the sum of the changes.
LEMMA TotalMoves ==
    ASSUME NEW f, NEW h, NEW d, NEW S, IsFiniteSet(S), NEW T \in SUBSET S,
           \A x \in S : f[x] \in Int,
           \A x \in T : d[x] \in Int /\ h[x] = f[x] + d[x],
           \A x \in S \ T : h[x] = f[x]
    PROVE  Total(h, S) = Total(f, S) + Total(d, T)
<1>1. IsFiniteSet(T) /\ IsFiniteSet(S \ T)
    BY FS_Subset
<1>2. \A x \in S : h[x] \in Int
    OBVIOUS
<1>3. Total(h, S) = Total(h, T) + Total(h, S \ T)
    BY <1>2, TotalSplit
<1>4. Total(f, S) = Total(f, T) + Total(f, S \ T)
    BY TotalSplit
<1>5. Total(h, S \ T) = Total(f, S \ T)
    BY <1>1, TotalAgrees
<1>6. Total(h, T) = Total(f, T) + Total(d, T)
    BY <1>1, TotalAdds
<1>7. Total(f, T) \in Int /\ Total(d, T) \in Int /\ Total(f, S \ T) \in Int
    BY <1>1, TotalType
<1> QED BY <1>3, <1>4, <1>5, <1>6, <1>7

\* Counting by a key: the counts of the keys add up to what has one of them.
LEMMA CountByKey ==
    ASSUME NEW C, IsFiniteSet(C), NEW key, NEW D, IsFiniteSet(D)
    PROVE  Total([d \in D |-> Cardinality({x \in C : key[x] = d})], D)
               = Cardinality({x \in C : key[x] \in D})
<1> DEFINE Of(d) == {x \in C : key[x] = d}
           Within(T) == {x \in C : key[x] \in T}
           h == [d \in D |-> Cardinality(Of(d))]
           F == {T \in SUBSET D : Total(h, T) # Cardinality(Within(T))}
<1>1. ASSUME F # {} PROVE FALSE
  <2>0. F \subseteq SUBSET D
      OBVIOUS
  <2>1. PICK T \in F : \A Y \in F : Y \subseteq T => Y = T
    <3> HIDE DEF F
    <3> QED BY <1>1, <2>0, SmallestSet
  <2>2. Total(h, T) = IF T = {} THEN 0 ELSE h[Pick(T)] + Total(h, T \ {Pick(T)})
      BY FS_Subset, TotalPick
  <2>3. CASE T = {}
    <3>1. Within(T) = {}
        BY <2>3
    <3> QED BY <2>1, <2>2, <2>3, <3>1, FS_EmptySet
  <2>4. CASE T # {}
    <3> DEFINE c == Pick(T)
               U == T \ {c}
    <3>1. c \in T /\ c \in D
        BY <2>4 DEF Pick
    <3>2. Total(h, U) = Cardinality(Within(U))
        BY <2>1, <3>1
    <3>3. h[c] = Cardinality(Of(c))
        BY <3>1
    <3>4. /\ Within(T) = Of(c) \cup Within(U) /\ Of(c) \cap Within(U) = {}
          /\ IsFiniteSet(Of(c)) /\ IsFiniteSet(Within(U))
        BY <3>1, FS_Subset
    <3>5. Cardinality(Within(T)) = Cardinality(Of(c)) + Cardinality(Within(U))
      <4> HIDE DEF Of, Within, c, U
      <4>1. /\ Cardinality(Of(c)) \in Nat /\ Cardinality(Within(U)) \in Nat
            /\ Cardinality(Of(c) \cap Within(U)) = 0
          BY <3>4, FS_CardinalityType, FS_EmptySet
      <4>2. Cardinality(Of(c) \cup Within(U))
                = Cardinality(Of(c)) + Cardinality(Within(U)) - Cardinality(Of(c) \cap Within(U))
          BY <3>4, FS_Union
      <4> QED BY <3>4, <4>1, <4>2
    <3>6. Total(h, T) # Cardinality(Within(T))
        BY <2>1
    <3> HIDE DEF Of, Within, h
    <3> QED BY <2>2, <2>4, <3>2, <3>3, <3>5, <3>6
  <2> QED BY <2>3, <2>4
<1> QED BY <1>1
=============================================================================
