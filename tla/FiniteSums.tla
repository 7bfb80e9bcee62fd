----------------------------- MODULE FiniteSums -----------------------------
(***************************************************************************)
(* Facts about SumFunctionOnSet of the community module Functions, for     *)
(* every function and every finite set: the sum of a set is that of the    *)
(* set without an element plus the element's value, whichever it is.       *)
(*                                                                         *)
(* SumFunctionOnSet is defined by recursion over the subsets of the set,   *)
(* with the element to remove and the function itself both CHOOSEn.  The   *)
(* induction is by a smallest counterexample: a family of subsets of a     *)
(* finite set that is not empty has a minimal member.                      *)
(***************************************************************************)
EXTENDS Integers, FiniteSets, Functions, Folds, FiniteSetTheorems, TLAPS

(* A family of subsets of a finite set has a minimal member.               *)
LEMMA MinimalSubset ==
  ASSUME NEW S, IsFiniteSet(S), NEW F \in SUBSET (SUBSET S), F # {}
  PROVE  \E x \in F : \A y \in F : y \subseteq x => y = x
<1>1. IsWellFoundedOn(StrictSubsetOrdering(S), SUBSET S)
  BY FS_StrictSubsetOrderingWellFounded, FS_FiniteSubsetsOfFinite
<1>2. PICK x \in F : \A y \in F : <<y, x>> \notin StrictSubsetOrdering(S)
  BY <1>1, WFMin
<1> QED BY <1>2 DEF StrictSubsetOrdering

(* A set of naturals that is not empty has a least element.                *)
LEMMA LeastNatural ==
  ASSUME NEW T \in SUBSET Nat, T # {}
  PROVE  \E x \in T : \A y \in T : x <= y
<1>1. PICK t \in T : TRUE
  OBVIOUS
<1> DEFINE F == {0..k : k \in {j \in T : j <= t}}
<1>2. IsFiniteSet(0..t)
  BY FS_Interval
<1>3. F \in SUBSET (SUBSET (0..t)) /\ F # {}
  <2>1. 0..t \in F
    OBVIOUS
  <2> QED BY <2>1
<1> HIDE DEF F
<1>4. PICK s \in F : \A y \in F : y \subseteq s => y = s
  <2>1. ASSUME NEW S, IsFiniteSet(S), F \in SUBSET (SUBSET S), F # {}
        PROVE  \E s \in F : \A y \in F : y \subseteq s => y = s
    BY <2>1, MinimalSubset
  <2> QED BY <1>2, <1>3, <2>1
<1>5. PICK x \in T : x <= t /\ s = 0..x
  BY <1>4 DEF F
<1>6. ASSUME NEW y \in T, y < x
      PROVE  FALSE
  <2>1. 0..y \in F
    BY <1>5, <1>6 DEF F
  <2>2. 0..y = 0..x
    BY <2>1, <1>4, <1>5, <1>6
  <2>3. x \in 0..x /\ x \notin 0..y
    BY <1>6
  <2> QED BY <2>2, <2>3
<1> QED BY <1>6

(* g is the function that SumFunctionOnSet(f, S) is defined with.          *)
Summed(f, g, S) ==
  g = [s \in SUBSET S |-> IF s = {} THEN 0
         ELSE f[CHOOSE x \in s : TRUE] + g[s \ {CHOOSE x \in s : TRUE}]]

(* SumFunctionOnSet is the value of a function that was chosen.            *)
LEMMA SumChoice ==
  ASSUME NEW f, NEW S
  PROVE  SumFunctionOnSet(f, S) = (CHOOSE g : Summed(f, g, S))[S]
BY DEF SumFunctionOnSet, FoldFunctionOnSet, MapThenFoldSet, Summed

(* Such a function, restricted to the subsets of a subset, is one for it.  *)
LEMMA SummedOnSubset ==
  ASSUME NEW f, NEW S, NEW g, Summed(f, g, S), NEW T \in SUBSET S
  PROVE  Summed(f, [s \in SUBSET T |-> g[s]], T)
<1> DEFINE h == [s \in SUBSET T |-> g[s]]
           x(s) == CHOOSE x \in s : TRUE
           k == [s \in SUBSET T |-> IF s = {} THEN 0 ELSE f[x(s)] + h[s \ {x(s)}]]
<1>1. ASSUME NEW s \in SUBSET T
      PROVE  h[s] = k[s]
  <2>1. s \in SUBSET S /\ s \ {x(s)} \in SUBSET T
    OBVIOUS
  <2>2. g[s] = IF s = {} THEN 0 ELSE f[x(s)] + g[s \ {x(s)}]
    BY <2>1 DEF Summed
  <2>3. h[s \ {x(s)}] = g[s \ {x(s)}]
    BY <2>1
  <2> QED BY <2>2, <2>3
<1>2. h = k
  BY <1>1
<1> QED BY <1>2 DEF Summed

(* There is one such function at most.                                     *)
LEMMA SummedUnique ==
  ASSUME NEW f, NEW S, IsFiniteSet(S), NEW g, NEW h, Summed(f, g, S), Summed(f, h, S)
  PROVE  g = h
<1> DEFINE F == {s \in SUBSET S : g[s] # h[s]}
           x(s) == CHOOSE x \in s : TRUE
<1>1. ASSUME NEW s \in SUBSET S
      PROVE  /\ g[s] = IF s = {} THEN 0 ELSE f[x(s)] + g[s \ {x(s)}]
             /\ h[s] = IF s = {} THEN 0 ELSE f[x(s)] + h[s \ {x(s)}]
  BY DEF Summed
<1>2. F = {}
  <2>1. SUFFICES ASSUME F # {} PROVE FALSE
    OBVIOUS
  <2>2. PICK s \in F : \A y \in F : y \subseteq s => y = s
    <3>1. F \in SUBSET (SUBSET S)
      OBVIOUS
    <3> HIDE DEF F
    <3> QED BY <2>1, <3>1, MinimalSubset
  <2>3. s # {}
    BY <2>2, <1>1
  <2>4. x(s) \in s
    BY <2>3
  <2>5. s \ {x(s)} \notin F
    BY <2>2, <2>4
  <2>6. g[s \ {x(s)}] = h[s \ {x(s)}]
    BY <2>5
  <2>7. s \in SUBSET S /\ g[s] # h[s]
    BY <2>2
  <2> HIDE DEF F, x
  <2>8. g[s] = f[x(s)] + g[s \ {x(s)}] /\ h[s] = f[x(s)] + h[s \ {x(s)}]
    BY <2>3, <2>7, <1>1
  <2> QED BY <2>6, <2>7, <2>8
<1>3. DOMAIN g = SUBSET S /\ DOMAIN h = SUBSET S /\ \A s \in SUBSET S : g[s] = h[s]
  BY <1>2 DEF Summed
<1>4. g = [s \in SUBSET S |-> g[s]] /\ h = [s \in SUBSET S |-> h[s]]
  BY DEF Summed
<1> QED BY <1>3, <1>4

Summable(f, S) == \E g : Summed(f, g, S)

(* If there is one, it gives the sum of every subset.                      *)
LEMMA SumValue ==
  ASSUME NEW f, NEW S, IsFiniteSet(S), NEW g, Summed(f, g, S), NEW T \in SUBSET S
  PROVE  SumFunctionOnSet(f, T) = g[T]
<1> DEFINE h == [s \in SUBSET T |-> g[s]]
<1>1. Summed(f, h, T)
  BY SummedOnSubset
<1>2. IsFiniteSet(T)
  BY FS_Subset
<1> HIDE DEF h
<1>3. Summed(f, CHOOSE k : Summed(f, k, T), T)
  BY <1>1
<1>4. (CHOOSE k : Summed(f, k, T)) = h
  BY <1>1, <1>2, <1>3, SummedUnique
<1>5. h[T] = g[T]
  BY DEF h
<1> QED BY <1>4, <1>5, SumChoice

(* Then the recursive equation holds for the sum itself.                   *)
LEMMA SumUnfolds ==
  ASSUME NEW f, NEW S, IsFiniteSet(S), Summable(f, S), NEW T \in SUBSET S
  PROVE  SumFunctionOnSet(f, T) =
           IF T = {} THEN 0
           ELSE f[CHOOSE x \in T : TRUE] + SumFunctionOnSet(f, T \ {CHOOSE x \in T : TRUE})
<1>1. PICK g : Summed(f, g, S)
  BY DEF Summable
<1> DEFINE x == CHOOSE x \in T : TRUE
<1>2. T \ {x} \in SUBSET S
  OBVIOUS
<1>3. g[T] = IF T = {} THEN 0 ELSE f[x] + g[T \ {x}]
  BY <1>1 DEF Summed
<1> HIDE DEF x
<1>4. SumFunctionOnSet(f, T) = g[T] /\ SumFunctionOnSet(f, T \ {x}) = g[T \ {x}]
  BY <1>1, <1>2, SumValue
<1>5. SumFunctionOnSet(f, T) = IF T = {} THEN 0 ELSE f[x] + SumFunctionOnSet(f, T \ {x})
  BY <1>3, <1>4
<1> QED BY <1>5 DEF x

(* There always is one, on a finite set.                                   *)
LEMMA AllSummable ==
  ASSUME NEW f, NEW S, IsFiniteSet(S)
  PROVE  Summable(f, S)
<1> DEFINE F == {s \in SUBSET S : ~Summable(f, s)}
<1>1. SUFFICES F = {}
  OBVIOUS
<1>2. SUFFICES ASSUME F # {} PROVE FALSE
  OBVIOUS
<1>3. PICK T \in F : \A y \in F : y \subseteq T => y = T
  <2>1. F \in SUBSET (SUBSET S)
    OBVIOUS
  <2> HIDE DEF F
  <2> QED BY <1>2, <2>1, MinimalSubset
<1>4. T \in SUBSET S /\ ~Summable(f, T) /\ \A U \in SUBSET T : U # T => Summable(f, U)
  BY <1>3
<1> HIDE DEF F
<1> DEFINE x(s) == CHOOSE x \in s : TRUE
           Sum(s) == SumFunctionOnSet(f, s)
           g == [s \in SUBSET T |-> IF s = {} THEN 0 ELSE f[x(s)] + Sum(s \ {x(s)})]
           h == [s \in SUBSET T |-> IF s = {} THEN 0 ELSE f[x(s)] + g[s \ {x(s)}]]
<1>5. ASSUME NEW s \in SUBSET T, s # {}
      PROVE  g[s \ {x(s)}] = Sum(s \ {x(s)})
  <2>1. PICK U : U = s \ {x(s)}
    OBVIOUS
  <2>2. U \in SUBSET T /\ U # T
    BY <1>5, <2>1
  <2>3. IsFiniteSet(U)
    BY <1>4, <2>2, FS_Subset
  <2>4. U \in SUBSET U
    OBVIOUS
  <2>5. Summable(f, U)
    BY <1>4, <2>2
  <2>6. SumFunctionOnSet(f, U) = IF U = {} THEN 0
           ELSE f[CHOOSE y \in U : TRUE] + SumFunctionOnSet(f, U \ {CHOOSE y \in U : TRUE})
    BY <2>3, <2>4, <2>5, SumUnfolds
  <2>7. g[U] = Sum(U)
    BY <2>2, <2>6
  <2> QED BY <2>1, <2>7
<1>6. g = h
  <2>1. ASSUME NEW s \in SUBSET T
        PROVE  g[s] = h[s]
    <3>1. /\ g[s] = IF s = {} THEN 0 ELSE f[x(s)] + Sum(s \ {x(s)})
          /\ h[s] = IF s = {} THEN 0 ELSE f[x(s)] + g[s \ {x(s)}]
      OBVIOUS
    <3> HIDE DEF g, h, x, Sum
    <3> QED BY <3>1, <1>5
  <2> QED BY <2>1
<1>7. Summed(f, g, T)
  BY <1>6 DEF Summed
<1> QED BY <1>4, <1>7 DEF Summable

(* The recursive equation, without the choice of the element.              *)
LEMMA SumStep ==
  ASSUME NEW f, NEW S, IsFiniteSet(S)
  PROVE  /\ S = {} => SumFunctionOnSet(f, S) = 0
         /\ S # {} => \E x \in S :
              SumFunctionOnSet(f, S) = f[x] + SumFunctionOnSet(f, S \ {x})
BY AllSummable, SumUnfolds

(* Any element may be taken out, and a sum of integers is an integer.      *)
LEMMA SumRemove ==
  ASSUME NEW f, NEW S, IsFiniteSet(S), \A x \in S : f[x] \in Int
  PROVE  \A T \in SUBSET S :
           /\ SumFunctionOnSet(f, T) \in Int
           /\ \A x \in T : SumFunctionOnSet(f, T) = f[x] + SumFunctionOnSet(f, T \ {x})
<1> DEFINE Sum(s) == SumFunctionOnSet(f, s)
           Good(s) == Sum(s) \in Int /\ \A x \in s : Sum(s) = f[x] + Sum(s \ {x})
           F == {s \in SUBSET S : ~Good(s)}
<1>1. SUFFICES ASSUME F # {} PROVE FALSE
  OBVIOUS
<1>2. PICK T \in F : \A y \in F : y \subseteq T => y = T
  <2>1. F \in SUBSET (SUBSET S)
    OBVIOUS
  <2> HIDE DEF F
  <2> QED BY <1>1, <2>1, MinimalSubset
<1>3. T \in SUBSET S /\ ~Good(T)
  BY <1>2
<1>4. ASSUME NEW U \in SUBSET T, U # T
      PROVE  Good(U)
  BY <1>2, <1>3, <1>4
<1>5. \A U \in SUBSET S : IsFiniteSet(U)
  BY FS_Subset
<1> HIDE DEF F
<1>6. T # {}
  <2>1. ASSUME T = {} PROVE Good(T)
    BY <2>1, <1>3, <1>5, SumStep
  <2> QED BY <2>1, <1>3
<1>7. PICK y \in T : Sum(T) = f[y] + Sum(T \ {y})
  BY <1>3, <1>5, <1>6, SumStep
<1>8. Good(T \ {y})
  BY <1>4
<1>9. Sum(T) \in Int /\ f[y] \in Int
  BY <1>3, <1>7, <1>8
<1>10. ASSUME NEW x \in T
       PROVE  Sum(T) = f[x] + Sum(T \ {x})
  <2>1. CASE x = y
    BY <2>1, <1>7
  <2>2. CASE x # y
    <3>1. f[x] \in Int
      BY <1>3
    <3>2. Good(T \ {x})
      BY <1>4
    <3>3. (T \ {x}) \ {y} = (T \ {y}) \ {x}
      OBVIOUS
    <3>4. Good((T \ {y}) \ {x})
      <4>1. (T \ {y}) \ {x} \in SUBSET T /\ (T \ {y}) \ {x} # T
        OBVIOUS
      <4> QED BY <4>1, <1>4
    <3>5. Sum(T \ {x}) = f[y] + Sum((T \ {y}) \ {x})
      BY <2>2, <3>2, <3>3
    <3>6. Sum(T \ {y}) = f[x] + Sum((T \ {y}) \ {x})
      BY <2>2, <1>8
    <3>7. Sum((T \ {y}) \ {x}) \in Int
      BY <3>4
    <3> HIDE DEF Sum
    <3> QED BY <1>7, <1>9, <3>1, <3>5, <3>6, <3>7
  <2> QED BY <2>1, <2>2
<1> QED BY <1>3, <1>9, <1>10

(* Nothing adds up to zero.                                                *)
LEMMA SumEmpty == \A f : SumFunctionOnSet(f, {}) = 0
BY FS_EmptySet, SumStep

(* What one more element adds.                                             *)
LEMMA SumAdd ==
  ASSUME NEW f, NEW S, IsFiniteSet(S), NEW x, x \notin S, \A y \in S \cup {x} : f[y] \in Int
  PROVE  /\ SumFunctionOnSet(f, S) \in Int
         /\ SumFunctionOnSet(f, S \cup {x}) = SumFunctionOnSet(f, S) + f[x]
<1>1. IsFiniteSet(S \cup {x})
  BY FS_AddElement
<1>2. (S \cup {x}) \ {x} = S
  OBVIOUS
<1>3. /\ SumFunctionOnSet(f, S) \in Int
      /\ SumFunctionOnSet(f, S \cup {x}) = f[x] + SumFunctionOnSet(f, (S \cup {x}) \ {x})
  BY <1>1, SumRemove
<1>4. SumFunctionOnSet(f, S \cup {x}) = f[x] + SumFunctionOnSet(f, S)
  BY <1>2, <1>3, Zenon
<1>5. f[x] \in Int
  OBVIOUS
<1> QED BY <1>3, <1>4, <1>5

(* The sum depends on the values on the set alone.                         *)
LEMMA SumSame ==
  ASSUME NEW f, NEW g, NEW S, IsFiniteSet(S), \A x \in S : f[x] = g[x] /\ f[x] \in Int
  PROVE  SumFunctionOnSet(f, S) = SumFunctionOnSet(g, S)
<1> DEFINE Good(s) == SumFunctionOnSet(f, s) = SumFunctionOnSet(g, s)
           F == {s \in SUBSET S : ~Good(s)}
<1>1. SUFFICES ASSUME F # {} PROVE FALSE
  OBVIOUS
<1>2. PICK T \in F : \A y \in F : y \subseteq T => y = T
  <2>1. F \in SUBSET (SUBSET S)
    OBVIOUS
  <2> HIDE DEF F
  <2> QED BY <1>1, <2>1, MinimalSubset
<1>3. T \in SUBSET S /\ ~Good(T) /\ T # {}
  BY <1>2, SumEmpty
<1>4. PICK x \in T : TRUE
  BY <1>3
<1>5. Good(T \ {x})
  BY <1>2, <1>3
<1>6. /\ SumFunctionOnSet(f, T) = f[x] + SumFunctionOnSet(f, T \ {x})
      /\ SumFunctionOnSet(g, T) = g[x] + SumFunctionOnSet(g, T \ {x})
  <2>1. (\A y \in S : g[y] \in Int) /\ (\A y \in S : f[y] \in Int)
    OBVIOUS
  <2>2. T \in SUBSET S
    BY <1>3
  <2> HIDE DEF F
  <2>3. SumFunctionOnSet(f, T) = f[x] + SumFunctionOnSet(f, T \ {x})
    BY <2>1, <2>2, SumRemove
  <2>4. SumFunctionOnSet(g, T) = g[x] + SumFunctionOnSet(g, T \ {x})
    BY <2>1, <2>2, SumRemove
  <2> QED BY <2>3, <2>4
<1> QED BY <1>3, <1>5, <1>6

(* A sum of naturals is a natural.                                         *)
LEMMA SumNat ==
  ASSUME NEW f, NEW S, IsFiniteSet(S), \A x \in S : f[x] \in Nat
  PROVE  SumFunctionOnSet(f, S) \in Nat
<1> DEFINE Good(s) == SumFunctionOnSet(f, s) \in Nat
           F == {s \in SUBSET S : ~Good(s)}
<1>1. SUFFICES ASSUME F # {} PROVE FALSE
  OBVIOUS
<1>2. PICK T \in F : \A y \in F : y \subseteq T => y = T
  <2>1. F \in SUBSET (SUBSET S)
    OBVIOUS
  <2> HIDE DEF F
  <2> QED BY <1>1, <2>1, MinimalSubset
<1>3. T \in SUBSET S /\ ~Good(T) /\ T # {}
  <2>1. SumFunctionOnSet(f, {}) = 0
    BY SumEmpty
  <2>2. Good({})
    BY <2>1
  <2> QED BY <1>2, <2>2
<1>4. PICK x \in T : TRUE
  BY <1>3
<1>5. Good(T \ {x})
  BY <1>2, <1>3
<1>6. SumFunctionOnSet(f, T) = f[x] + SumFunctionOnSet(f, T \ {x})
  <2>1. \A y \in S : f[y] \in Int
    OBVIOUS
  <2> QED BY <1>3, <2>1, SumRemove
<1>7. f[x] \in Nat
  BY <1>3
<1> QED BY <1>3, <1>5, <1>6, <1>7

(* The sum of two sets that have no element in common.                     *)
LEMMA SumUnion ==
  ASSUME NEW f, NEW S, NEW R, IsFiniteSet(S), IsFiniteSet(R), S \cap R = {},
         \A x \in S \cup R : f[x] \in Int
  PROVE  SumFunctionOnSet(f, S \cup R) = SumFunctionOnSet(f, S) + SumFunctionOnSet(f, R)
<1> DEFINE Sum(s) == SumFunctionOnSet(f, s)
           Good(s) == Sum(S \cup s) = Sum(S) + Sum(s)
           F == {s \in SUBSET R : ~Good(s)}
<1>1. SUFFICES ASSUME F # {} PROVE FALSE
  OBVIOUS
<1>2. PICK T \in F : \A y \in F : y \subseteq T => y = T
  <2>1. F \in SUBSET (SUBSET R)
    OBVIOUS
  <2> HIDE DEF F
  <2> QED BY <1>1, <2>1, MinimalSubset
<1>3. T \in SUBSET R /\ ~Good(T)
  BY <1>2
<1>4. IsFiniteSet(S \cup R)
  BY FS_Union
<1>5. \A s \in SUBSET (S \cup R) : Sum(s) \in Int
  BY <1>4, SumRemove
<1>6. T # {}
  <2>1. S \cup {} = S
    OBVIOUS
  <2>2. Sum({}) = 0 /\ Sum(S) \in Int
    BY <1>5, SumEmpty
  <2>3. Good({})
    BY <2>1, <2>2
  <2> QED BY <1>3, <2>3
<1>7. PICK x \in T : TRUE
  BY <1>6
<1>8. Good(T \ {x})
  BY <1>2, <1>3
<1>9. (S \cup T) \ {x} = S \cup (T \ {x})
  BY <1>3
<1>10. Sum(T) = f[x] + Sum(T \ {x}) /\ Sum(S \cup T) = f[x] + Sum((S \cup T) \ {x})
  <2>1. T \in SUBSET (S \cup R) /\ S \cup T \in SUBSET (S \cup R)
    BY <1>3
  <2> QED BY <1>4, <2>1, SumRemove
<1>11. Sum(S \cup T) = f[x] + Sum(S \cup (T \ {x}))
  BY <1>9, <1>10, Zenon
<1>12. /\ f[x] \in Int /\ Sum(S) \in Int /\ Sum(T \ {x}) \in Int
  BY <1>3, <1>5
<1> HIDE DEF Sum, F
<1> QED BY <1>3, <1>8, <1>10, <1>11, <1>12

(* Zeros add up to zero.                                                   *)
LEMMA SumZero ==
  ASSUME NEW f, NEW S, IsFiniteSet(S), \A x \in S : f[x] = 0
  PROVE  SumFunctionOnSet(f, S) = 0
<1> DEFINE Good(s) == SumFunctionOnSet(f, s) = 0
           F == {s \in SUBSET S : ~Good(s)}
<1>1. SUFFICES ASSUME F # {} PROVE FALSE
  OBVIOUS
<1>2. PICK T \in F : \A y \in F : y \subseteq T => y = T
  <2>1. F \in SUBSET (SUBSET S)
    OBVIOUS
  <2> HIDE DEF F
  <2> QED BY <1>1, <2>1, MinimalSubset
<1>3. T \in SUBSET S /\ ~Good(T) /\ T # {}
  BY <1>2, SumEmpty
<1>4. PICK x \in T : TRUE
  BY <1>3
<1>5. Good(T \ {x})
  BY <1>2, <1>3
<1>6. SumFunctionOnSet(f, T) = f[x] + SumFunctionOnSet(f, T \ {x})
  <2>1. \A y \in S : f[y] \in Int
    OBVIOUS
  <2> QED BY <1>3, <2>1, SumRemove
<1>7. f[x] = 0
  BY <1>3
<1> QED BY <1>3, <1>5, <1>6, <1>7

(* A sum grows with its terms.                                             *)
LEMMA SumMonotone ==
  ASSUME NEW f, NEW g, NEW S, IsFiniteSet(S),
         \A x \in S : f[x] \in Int /\ g[x] \in Int /\ f[x] <= g[x]
  PROVE  SumFunctionOnSet(f, S) <= SumFunctionOnSet(g, S)
<1> DEFINE Good(s) == SumFunctionOnSet(f, s) <= SumFunctionOnSet(g, s)
           F == {s \in SUBSET S : ~Good(s)}
<1>1. SUFFICES ASSUME F # {} PROVE FALSE
  OBVIOUS
<1>2. PICK T \in F : \A y \in F : y \subseteq T => y = T
  <2>1. F \in SUBSET (SUBSET S)
    OBVIOUS
  <2> HIDE DEF F
  <2> QED BY <1>1, <2>1, MinimalSubset
<1>3. T \in SUBSET S /\ ~Good(T) /\ T # {}
  <2>1. SumFunctionOnSet(f, {}) = 0 /\ SumFunctionOnSet(g, {}) = 0
    BY SumEmpty
  <2>2. Good({})
    BY <2>1
  <2> QED BY <1>2, <2>2
<1>4. PICK x \in T : TRUE
  BY <1>3
<1>5. Good(T \ {x})
  BY <1>2, <1>3
<1> HIDE DEF F
<1>6. (\A y \in S : f[y] \in Int) /\ (\A y \in S : g[y] \in Int)
  OBVIOUS
<1>7. /\ SumFunctionOnSet(f, T) = f[x] + SumFunctionOnSet(f, T \ {x})
      /\ SumFunctionOnSet(f, T \ {x}) \in Int
  BY <1>3, <1>6, SumRemove
<1>8. /\ SumFunctionOnSet(g, T) = g[x] + SumFunctionOnSet(g, T \ {x})
      /\ SumFunctionOnSet(g, T \ {x}) \in Int
  BY <1>3, <1>6, SumRemove
<1>9. f[x] \in Int /\ g[x] \in Int /\ f[x] <= g[x]
  BY <1>3
<1> QED BY <1>3, <1>5, <1>7, <1>8, <1>9
=============================================================================
