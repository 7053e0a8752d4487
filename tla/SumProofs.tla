------------------------------ MODULE SumProofs ------------------------------
(***************************************************************************)
(* Sums of a weight over a finite set.  MapThenSumSet adds the weights up  *)
(* one element at a time, by a recursive function; here the sum is shown   *)
(* to be the number of units the set holds, when a weight of n is n units. *)
(* What is added, split or compared is then a set, and the facts about     *)
(* cardinalities serve.                                                    *)
(***************************************************************************)
EXTENDS Integers, FiniteSets, FiniteSetTheorems, TLAPS

(* f is a weight on S.                                                     *)
Weighs(f, S) == \A x \in S : f[x] \in Nat

(* The units of x, and of all of S.                                        *)
UnitsOf(f, x) == {x} \X (1 .. f[x])
Units(f, S)   == {u \in S \X Nat : u[2] \in 1 .. f[u[1]]}

SumOf(f, S) == Cardinality(Units(f, S))

(* A finite set of weights holds finitely many units.                      *)
LEMMA UnitsAreFinite ==
  ASSUME NEW S, IsFiniteSet(S), NEW f, Weighs(f, S)
  PROVE  IsFiniteSet(Units(f, S))
<1> DEFINE each  == [x \in S |-> UnitsOf(f, x)]
           parts == {UnitsOf(f, x) : x \in S}
<1>1. each \in Surjection(S, parts)
  BY DEF Surjection
<1>2. IsFiniteSet(parts)
  BY <1>1, FS_Surjection
<1>3. ASSUME NEW x \in S
      PROVE  IsFiniteSet(UnitsOf(f, x))
  <2>1. IsFiniteSet({x})
    BY FS_Singleton
  <2>2. IsFiniteSet(1 .. f[x])
    BY FS_Interval DEF Weighs
  <2> QED BY <2>1, <2>2, FS_Product DEF UnitsOf
<1>4. IsFiniteSet(UNION parts)
  BY <1>2, <1>3, FS_UNION
<1>5. Units(f, S) \subseteq UNION parts
  BY DEF Units, UnitsOf
<1> QED BY <1>4, <1>5, FS_Subset

(* A sum is a natural number, and that of nothing is zero.                 *)
LEMMA SumIsNat ==
  ASSUME NEW S, IsFiniteSet(S), NEW f, Weighs(f, S)
  PROVE  SumOf(f, S) \in Nat
BY UnitsAreFinite, FS_CardinalityType DEF SumOf

LEMMA SumOfNothing == \A f : SumOf(f, {}) = 0
<1> SUFFICES ASSUME NEW f
             PROVE  SumOf(f, {}) = 0
  OBVIOUS
<1>1. Units(f, {}) = {}
  BY DEF Units
<1> QED BY <1>1, FS_EmptySet DEF SumOf

(* A sum depends on the weights of the set alone.                          *)
LEMMA SumAgrees ==
  ASSUME NEW S, NEW f, NEW g, \A x \in S : f[x] = g[x]
  PROVE  SumOf(f, S) = SumOf(g, S)
<1>1. Units(f, S) = Units(g, S)
  BY DEF Units
<1> QED BY <1>1 DEF SumOf

(* A set's sum is that of a part and that of the rest.                     *)
LEMMA SumSplits ==
  ASSUME NEW S, IsFiniteSet(S), NEW f, Weighs(f, S), NEW T \in SUBSET S
  PROVE  SumOf(f, S) = SumOf(f, T) + SumOf(f, S \ T)
<1>1. /\ IsFiniteSet(T) /\ IsFiniteSet(S \ T)
      /\ Weighs(f, T) /\ Weighs(f, S \ T)
  BY FS_Subset, FS_Difference DEF Weighs
<1>2. IsFiniteSet(Units(f, T)) /\ IsFiniteSet(Units(f, S \ T))
  BY <1>1, UnitsAreFinite
<1>3. /\ Units(f, S) = Units(f, T) \cup Units(f, S \ T)
      /\ Units(f, T) \cap Units(f, S \ T) = {}
  BY DEF Units
<1>4. /\ Cardinality(Units(f, T)) \in Nat /\ Cardinality(Units(f, S \ T)) \in Nat
      /\ Cardinality({}) = 0
  BY <1>2, FS_CardinalityType, FS_EmptySet
<1>5. Cardinality(Units(f, T) \cup Units(f, S \ T))
        = Cardinality(Units(f, T)) + Cardinality(Units(f, S \ T))
            - Cardinality(Units(f, T) \cap Units(f, S \ T))
  BY <1>2, FS_Union, Zenon
<1>6. SumOf(f, S) = SumOf(f, T) + SumOf(f, S \ T) - 0
  BY <1>3, <1>4, <1>5, Zenon DEF SumOf
<1>7. SumOf(f, T) \in Nat /\ SumOf(f, S \ T) \in Nat
  BY <1>4, Zenon DEF SumOf
<1> QED BY <1>6, <1>7

(* The sum of one element is its weight.                                   *)
LEMMA SumOfOne ==
  ASSUME NEW f, NEW x, f[x] \in Nat
  PROVE  SumOf(f, {x}) = f[x]
<1>1. Units(f, {x}) = {x} \X (1 .. f[x])
  BY DEF Units
<1>2. IsFiniteSet({x}) /\ Cardinality({x}) = 1
  BY FS_Singleton
<1>3. IsFiniteSet(1 .. f[x]) /\ Cardinality(1 .. f[x]) = f[x]
  BY FS_Interval
<1>4. Cardinality({x} \X (1 .. f[x])) = Cardinality({x}) * Cardinality(1 .. f[x])
  BY <1>2, <1>3, FS_Product, Zenon
<1>5. SumOf(f, {x}) = 1 * f[x]
  BY <1>1, <1>2, <1>3, <1>4, Zenon DEF SumOf
<1> QED BY <1>5

(* A part weighs no more than the whole, and a lighter weight no more.     *)
LEMMA SumGrows ==
  ASSUME NEW S, IsFiniteSet(S), NEW g, Weighs(g, S), NEW T \in SUBSET S,
         NEW f, Weighs(f, T), \A x \in T : f[x] <= g[x]
  PROVE  SumOf(f, T) <= SumOf(g, S)
<1>1. Units(f, T) \subseteq Units(g, S)
  BY DEF Units, Weighs
<1>2. IsFiniteSet(Units(g, S))
  BY UnitsAreFinite
<1> QED BY <1>1, <1>2, FS_Subset DEF SumOf

(* Adding up one element at a time, in any order, comes to the sum: the    *)
(* smallest set for which it did not would be smaller by one element.      *)
Adds(g, f, S) ==
  g = [s \in SUBSET S |->
         IF s = {} THEN 0
         ELSE f[CHOOSE x \in s : TRUE] + g[s \ {CHOOSE x \in s : TRUE}]]

LEMMA SumOfTheRest ==
  ASSUME NEW S, IsFiniteSet(S), NEW f, Weighs(f, S), NEW x \in S
  PROVE  SumOf(f, S) = f[x] + SumOf(f, S \ {x})
<1>1. SumOf(f, S) = SumOf(f, {x}) + SumOf(f, S \ {x})
  BY SumSplits
<1>2. SumOf(f, {x}) = f[x]
  BY SumOfOne DEF Weighs
<1> QED BY <1>1, <1>2

LEMMA AddingUp ==
  ASSUME NEW S, IsFiniteSet(S), NEW f, Weighs(f, S)
  PROVE  /\ \E g : Adds(g, f, S)
         /\ \A g : Adds(g, f, S) => g[S] = SumOf(f, S)
<1>1. ASSUME NEW s \in SUBSET S, s # {}
      PROVE  LET x == CHOOSE x \in s : TRUE
             IN  /\ x \in s /\ s \ {x} \in SUBSET S /\ s \ {x} # s
                 /\ SumOf(f, s) = f[x] + SumOf(f, s \ {x})
  <2> DEFINE x == CHOOSE x \in s : TRUE
  <2>1. x \in s
    BY <1>1
  <2>2. IsFiniteSet(s) /\ Weighs(f, s)
    BY FS_Subset DEF Weighs
  <2>3. SumOf(f, s) = f[x] + SumOf(f, s \ {x})
    <3> HIDE DEF x
    <3> QED BY <2>1, <2>2, SumOfTheRest, Zenon
  <2> QED BY <2>1, <2>3
<1>2. Adds([s \in SUBSET S |-> SumOf(f, s)], f, S)
  <2> DEFINE g == [s \in SUBSET S |-> SumOf(f, s)]
             x(s) == CHOOSE x \in s : TRUE
  <2>1. ASSUME NEW s \in SUBSET S
        PROVE  SumOf(f, s) = IF s = {} THEN 0 ELSE f[x(s)] + g[s \ {x(s)}]
    <3>1. CASE s = {}
      BY <3>1, SumOfNothing, Zenon
    <3>2. CASE s # {}
      <4>1. s \ {x(s)} \in SUBSET S /\ SumOf(f, s) = f[x(s)] + SumOf(f, s \ {x(s)})
        BY <1>1, <3>2, Zenon
      <4>2. g[s \ {x(s)}] = SumOf(f, s \ {x(s)})
        BY <4>1
      <4> QED BY <3>2, <4>1, <4>2, Zenon
    <3> QED BY <3>1, <3>2, Zenon
  <2>2. g = [s \in SUBSET S |-> IF s = {} THEN 0 ELSE f[x(s)] + g[s \ {x(s)}]]
    <3> HIDE DEF x
    <3> QED BY <2>1
  <2> QED BY <2>2, Zenon DEF Adds
<1>3. ASSUME NEW g, Adds(g, f, S)
      PROVE  g[S] = SumOf(f, S)
  <2> DEFINE wrong == {s \in SUBSET S : g[s] # SumOf(f, s)}
             less  == StrictSubsetOrdering(S)
  <2>1. SUFFICES ASSUME wrong # {}
                 PROVE  FALSE
    OBVIOUS
  <2>2. IsWellFoundedOn(less, SUBSET S)
    BY FS_StrictSubsetOrderingWellFounded, FS_FiniteSubsetsOfFinite
  <2>3. PICK s \in wrong : \A t \in wrong : ~(<<t, s>> \in less)
    BY <2>1, <2>2, WFMin
  <2>4. s # {}
    BY <1>3, SumOfNothing DEF Adds
  <2> DEFINE x == CHOOSE x \in s : TRUE
  <2>5. /\ s \in SUBSET S /\ x \in s /\ s \ {x} \in SUBSET S /\ s \ {x} # s
        /\ SumOf(f, s) = f[x] + SumOf(f, s \ {x})
    BY <1>1, <2>4
  <2>6. g[s] = f[x] + g[s \ {x}]
    BY <1>3, <2>4, <2>5 DEF Adds
  <2>7. <<s \ {x}, s>> \in less
    BY <2>5 DEF StrictSubsetOrdering
  <2>8. g[s \ {x}] = SumOf(f, s \ {x})
    BY <2>3, <2>5, <2>7
  <2> QED BY <2>3, <2>5, <2>6, <2>8
<1> QED BY <1>2, <1>3

(* Weights that are all at most, or all at least, one value.               *)
LEMMA SumOfBounded ==
  ASSUME NEW S, IsFiniteSet(S), NEW f, Weighs(f, S), NEW m \in Nat
  PROVE  /\ (\A x \in S : f[x] <= m) => SumOf(f, S) <= Cardinality(S) * m
         /\ (\A x \in S : m <= f[x]) => Cardinality(S) * m <= SumOf(f, S)
<1> DEFINE g == [x \in S |-> m]
<1>1. Weighs(g, S)
  BY DEF Weighs
<1>2. Units(g, S) = S \X (1 .. m)
  BY DEF Units
<1>3. IsFiniteSet(1 .. m) /\ Cardinality(1 .. m) = m
  BY FS_Interval
<1>4. SumOf(g, S) = Cardinality(S) * m
  BY <1>2, <1>3, FS_Product DEF SumOf
<1>5. (\A x \in S : f[x] <= m) => \A x \in S : f[x] <= g[x]
  OBVIOUS
<1>6. (\A x \in S : m <= f[x]) => \A x \in S : g[x] <= f[x]
  OBVIOUS
<1> HIDE DEF g
<1>7. S \in SUBSET S
  OBVIOUS
<1>8. (\A x \in S : f[x] <= g[x]) => SumOf(f, S) <= SumOf(g, S)
  BY <1>1, <1>7, SumGrows
<1>9. (\A x \in S : g[x] <= f[x]) => SumOf(g, S) <= SumOf(f, S)
  BY <1>1, <1>7, SumGrows
<1> QED BY <1>4, <1>5, <1>6, <1>8, <1>9

(* A set that weighs as much as another of heavier elements and more of    *)
(* them weighs no more.                                                    *)
LEMMA FewerAndLighter ==
  ASSUME NEW S, IsFiniteSet(S), NEW T, IsFiniteSet(T), NEW f, Weighs(f, S), Weighs(f, T),
         Cardinality(S) <= Cardinality(T), NEW m \in Nat,
         \A x \in S \ T : f[x] <= m, \A x \in T \ S : m <= f[x]
  PROVE  SumOf(f, S) <= SumOf(f, T)
<1> DEFINE both == S \cap T
<1>1. both \in SUBSET S /\ both \in SUBSET T /\ S \ both = S \ T /\ T \ both = T \ S
  OBVIOUS
<1>2. /\ IsFiniteSet(S \ T) /\ Cardinality(S \ T) = Cardinality(S) - Cardinality(both)
      /\ IsFiniteSet(T \ S) /\ Cardinality(T \ S) = Cardinality(T) - Cardinality(T \cap S)
  BY FS_Difference
<1>3. T \cap S = both
  OBVIOUS
<1>4. Cardinality(S \ T) <= Cardinality(T \ S)
        /\ Cardinality(S \ T) \in Nat /\ Cardinality(T \ S) \in Nat
  <2>1. /\ Cardinality(S) \in Nat /\ Cardinality(T) \in Nat
        /\ Cardinality(S \ T) \in Nat /\ Cardinality(T \ S) \in Nat
    BY <1>2, FS_CardinalityType
  <2>2. IsFiniteSet(both)
    BY <1>1, FS_Subset
  <2>3. Cardinality(both) \in Nat
    BY <2>2, FS_CardinalityType
  <2> QED BY <1>2, <1>3, <2>1, <2>3
<1>5. Weighs(f, S \ T) /\ Weighs(f, T \ S) /\ Weighs(f, both)
  BY DEF Weighs
<1>6. SumOf(f, S) = SumOf(f, both) + SumOf(f, S \ T)
  BY <1>1, SumSplits
<1>7. SumOf(f, T) = SumOf(f, both) + SumOf(f, T \ S)
  BY <1>1, SumSplits
<1>8. SumOf(f, S \ T) <= Cardinality(S \ T) * m
  BY <1>2, <1>5, SumOfBounded
<1>9. Cardinality(T \ S) * m <= SumOf(f, T \ S)
  BY <1>2, <1>5, SumOfBounded
<1>10. \A a, b \in Nat : a <= b => a * m <= b * m
  OBVIOUS
<1>11. Cardinality(S \ T) * m <= Cardinality(T \ S) * m
  BY <1>4, <1>10
<1>12. /\ SumOf(f, both) \in Nat /\ SumOf(f, S \ T) \in Nat /\ SumOf(f, T \ S) \in Nat
       /\ Cardinality(S \ T) * m \in Nat /\ Cardinality(T \ S) * m \in Nat
  <2>1. IsFiniteSet(both)
    BY <1>1, FS_Subset
  <2>2. \A a \in Nat : a * m \in Nat
    OBVIOUS
  <2> QED BY <1>2, <1>4, <1>5, <2>1, <2>2, SumIsNat
<1> HIDE DEF both
<1> QED BY <1>6, <1>7, <1>8, <1>9, <1>11, <1>12

(* A finite set of integers has a largest: the smallest set that had none  *)
(* would have one without one of its elements.                             *)
LEMMA LargestExists ==
  ASSUME NEW S \in SUBSET Int, IsFiniteSet(S), S # {}
  PROVE  \E m \in S : \A n \in S : n <= m
<1> DEFINE open == {T \in SUBSET S : T # {} /\ \A m \in T : \E n \in T : ~(n <= m)}
           less == StrictSubsetOrdering(S)
<1>1. SUFFICES ASSUME open # {}
               PROVE  FALSE
  OBVIOUS
<1>2. IsWellFoundedOn(less, SUBSET S)
  BY FS_StrictSubsetOrderingWellFounded, FS_FiniteSubsetsOfFinite
<1>3. PICK T \in open : \A U \in open : ~(<<U, T>> \in less)
  BY <1>1, <1>2, WFMin
<1>4. PICK x \in T : TRUE
  OBVIOUS
<1> DEFINE U == T \ {x}
<1>5. U \in SUBSET S /\ <<U, T>> \in less
  BY DEF StrictSubsetOrdering
<1>6. U \notin open
  BY <1>3, <1>5
<1>7. CASE U = {}
  <2>1. T = {x} /\ x \in Int
    BY <1>7
  <2> QED BY <2>1
<1>8. CASE U # {}
  <2>1. PICK m \in U : \A n \in U : n <= m
    BY <1>5, <1>6, <1>8
  <2>2. m \in Int /\ x \in Int /\ \A n \in T : n \in Int
    OBVIOUS
  <2>3. CASE x <= m
    <3>1. \A n \in T : n <= m
      BY <2>1, <2>3
    <3> QED BY <3>1
  <2>4. CASE ~(x <= m)
    <3>1. \A n \in T : n <= x
      BY <2>1, <2>2, <2>4
    <3> QED BY <3>1
  <2> QED BY <2>3, <2>4
<1> QED BY <1>7, <1>8

(* The values of a function on a finite set are finitely many.             *)
LEMMA ValuesAreFinite ==
  ASSUME NEW S, IsFiniteSet(S), NEW f, f = [x \in S |-> f[x]]
  PROVE  IsFiniteSet({f[x] : x \in S})
<1> DEFINE T == {f[x] : x \in S}
<1>1. f \in Surjection(S, T)
  BY DEF Surjection
<1> HIDE DEF T
<1> QED BY <1>1, FS_Surjection DEF T

===============================================================================
