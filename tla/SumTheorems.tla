----------------------------- MODULE SumTheorems -----------------------------
(***************************************************************************)
(* Facts about SumFunctionOnSet(f, S), the sum of f[x] for x in a finite   *)
(* set S, which the invariants about balances and counters rest on.        *)
(*                                                                         *)
(* The sum is a fold by a recursive function over the subsets of S.  The   *)
(* inductions use sets where the theorems of the library use an operator:  *)
(* a set of numbers, or of subsets, that holds what is to be proved.  The  *)
(* last part is the arithmetic of shares: quotients rounded down, and what *)
(* all parts of a pot leave of it.                                         *)
(***************************************************************************)
EXTENDS Functions, FiniteSets, Integers, FiniteSetTheorems, WellFoundedInduction,
        TLAPS

-----------------------------------------------------------------------------
(* Induction.                                                              *)

\* A set of numbers that is closed under + 1 holds all of them.
LEMMA NumberInduction ==
    ASSUME NEW Q, 0 \in Q, \A n \in Nat : n \in Q => n + 1 \in Q
    PROVE  Nat \subseteq Q
<1> DEFINE Bad == {n \in Nat : n \notin Q}
<1> SUFFICES ASSUME Bad # {} PROVE FALSE
  OBVIOUS
<1>1. PICK n \in Bad : \A m \in Bad : ~ (<<m, n>> \in OpToRel(<, Nat))
  <2>1. Bad \subseteq Nat
    OBVIOUS
  <2> HIDE DEF Bad
  <2> QED BY <2>1, WFMin, NatLessThanWellFounded
<1>2. n - 1 \in Bad
  OBVIOUS
<1>3. <<n - 1, n>> \in OpToRel(<, Nat)
  BY <1>2 DEF OpToRel
<1> QED BY <1>1, <1>2, <1>3

\* So does one of subsets that is closed under adding an element.
LEMMA FiniteInduction ==
    ASSUME NEW S, IsFiniteSet(S), NEW Q,
           {} \in Q,
           \A T \in SUBSET S, x \in S : T \in Q /\ x \notin T => T \cup {x} \in Q
    PROVE  S \in Q
<1> DEFINE Bad == {T \in SUBSET S : T \notin Q}
           Sizes == {n \in Nat : \E T \in Bad : Cardinality(T) = n}
<1> SUFFICES ASSUME S \notin Q PROVE FALSE
  OBVIOUS
<1>1. Sizes # {}
  <2>1. S \in Bad
    OBVIOUS
  <2>2. Cardinality(S) \in Nat
    BY FS_CardinalityType
  <2> QED BY <2>1, <2>2
<1>2. PICK n \in Sizes : \A m \in Sizes : ~ (<<m, n>> \in OpToRel(<, Nat))
  <2>1. Sizes \subseteq Nat
    OBVIOUS
  <2> HIDE DEF Sizes
  <2> QED BY <1>1, <2>1, WFMin, NatLessThanWellFounded
<1>3. PICK T \in Bad : Cardinality(T) = n
  OBVIOUS
<1>4. T # {}
  OBVIOUS
<1>5. PICK x \in T : TRUE
  BY <1>4
<1>6. /\ IsFiniteSet(T \ {x})
      /\ Cardinality(T \ {x}) = n - 1
      /\ n - 1 \in Nat
  <2>1. IsFiniteSet(T)
    BY FS_Subset
  <2> HIDE DEF Bad, Sizes
  <2>2. /\ IsFiniteSet(T \ {x})
        /\ Cardinality(T \ {x}) = Cardinality(T) - 1
    BY <2>1, <1>5, FS_RemoveElement
  <2>3. Cardinality(T \ {x}) \in Nat
    BY <2>2, FS_CardinalityType
  <2> QED BY <2>2, <2>3, <1>3
<1>7. T \ {x} \in Bad
  <2>1. T \ {x} \in Q => (T \ {x}) \cup {x} \in Q
    OBVIOUS
  <2>2. (T \ {x}) \cup {x} = T
    OBVIOUS
  <2> QED BY <2>1, <2>2
<1>8. n - 1 \in Sizes
  BY <1>6, <1>7
<1>9. <<n - 1, n>> \in OpToRel(<, Nat)
  BY <1>6 DEF OpToRel
<1> QED BY <1>2, <1>8, <1>9

-----------------------------------------------------------------------------
(* What the fold computes.                                                 *)

\* The element taken out of s, the step of the fold, and its equation over S.
Pick(s) == CHOOSE x \in s : TRUE

SumStep(f, g, s) == IF s = {} THEN 0 ELSE f[Pick(s)] + g[s \ {Pick(s)}]

IsSum(f, S, g) == g = [s \in SUBSET S |-> SumStep(f, g, s)]

\* The definition of the community modules.
LEMMA Unfold ==
    ASSUME NEW f, NEW S
    PROVE  SumFunctionOnSet(f, S) = (CHOOSE g : IsSum(f, S, g))[S]
BY DEF SumFunctionOnSet, FoldFunctionOnSet, MapThenFoldSet, IsSum, SumStep, Pick

\* The equation of the fold over S has a solution.
LEMMA SumExists ==
    ASSUME NEW S, IsFiniteSet(S), NEW f
    PROVE  \E g : IsSum(f, S, g)
<1> DEFINE Upto(n) == {s \in SUBSET S : Cardinality(s) <= n}
           Q == {n \in Nat : \E g : g = [s \in Upto(n) |-> SumStep(f, g, s)]}
<1>1. 0 \in Q
  <2> DEFINE g == [s \in Upto(0) |-> 0]
  <2>1. \A s \in Upto(0) : s = {}
    <3> TAKE s \in Upto(0)
    <3>1. IsFiniteSet(s)
      BY FS_Subset
    <3>2. Cardinality(s) \in Nat
      BY <3>1, FS_CardinalityType
    <3>3. Cardinality(s) = 0
      BY <3>2
    <3> QED BY <3>1, <3>3, FS_EmptySet
  <2>2. g = [s \in Upto(0) |-> SumStep(f, g, s)]
    BY <2>1 DEF SumStep
  <2> QED BY <2>2
<1>2. ASSUME NEW n \in Nat, n \in Q PROVE n + 1 \in Q
  <2>1. PICK g : g = [s \in Upto(n) |-> SumStep(f, g, s)]
    BY <1>2
  <2> DEFINE h == [s \in Upto(n + 1) |-> SumStep(f, g, s)]
  <2>2. ASSUME NEW s \in Upto(n + 1) PROVE SumStep(f, g, s) = SumStep(f, h, s)
    <3>1. CASE s = {}
      BY <3>1 DEF SumStep
    <3>2. CASE s # {}
      <4> DEFINE t == s \ {Pick(s)}
      <4>1. Pick(s) \in s
        BY <3>2 DEF Pick
      <4>2. t \in Upto(n)
        <5>1. IsFiniteSet(s) /\ Cardinality(s) \in Nat
          BY FS_Subset, FS_CardinalityType
        <5>2. Cardinality(t) = Cardinality(s) - 1
          BY <4>1, <5>1, FS_RemoveElement
        <5> QED BY <5>1, <5>2
      <4>3. t \in Upto(n + 1)
        BY <4>2, FS_Subset, FS_CardinalityType
      <4>4. g[t] = SumStep(f, g, t)
        BY <2>1, <4>2
      <4>5. h[t] = SumStep(f, g, t)
        BY <4>3
      <4> QED BY <3>2, <4>4, <4>5 DEF SumStep
    <3> QED BY <3>1, <3>2
  <2>3. h = [s \in Upto(n + 1) |-> SumStep(f, h, s)]
    BY <2>2
  <2>4. \E k : k = [s \in Upto(n + 1) |-> SumStep(f, k, s)]
    <3> HIDE DEF h
    <3> QED BY <2>3
  <2>5. n + 1 \in Nat
    OBVIOUS
  <2> HIDE DEF Upto, h
  <2> QED BY <2>4, <2>5, Zenon
<1>3. Cardinality(S) \in Q
  <2> HIDE DEF Q
  <2> QED BY <1>1, <1>2, NumberInduction, FS_CardinalityType
<1>4. Upto(Cardinality(S)) = SUBSET S
  BY FS_Subset
<1> QED BY <1>3, <1>4 DEF IsSum

\* Solutions over two sets agree on the subsets of the smaller.
LEMMA SumUnique ==
    ASSUME NEW S, NEW T \in SUBSET S, IsFiniteSet(T), NEW f, NEW g, NEW h,
           IsSum(f, S, g), IsSum(f, T, h)
    PROVE  g[T] = h[T]
<1> DEFINE Q == {n \in Nat : \A s \in SUBSET T : Cardinality(s) = n => g[s] = h[s]}
<1>1. 0 \in Q
  <2>1. ASSUME NEW s \in SUBSET T, Cardinality(s) = 0 PROVE s = {}
    BY <2>1, FS_Subset, FS_EmptySet
  <2>2. g[{}] = h[{}]
    BY DEF IsSum, SumStep
  <2> QED BY <2>1, <2>2
<1>2. ASSUME NEW n \in Nat, n \in Q PROVE n + 1 \in Q
  <2> SUFFICES ASSUME NEW s \in SUBSET T, Cardinality(s) = n + 1
               PROVE  g[s] = h[s]
    OBVIOUS
  <2>1. s # {}
    BY FS_EmptySet
  <2>2. Pick(s) \in s
    BY <2>1 DEF Pick
  <2>3. Cardinality(s \ {Pick(s)}) = n
    <3>1. IsFiniteSet(s)
      BY FS_Subset
    <3>2. Cardinality(s \ {Pick(s)}) = Cardinality(s) - 1
      BY <2>2, <3>1, FS_RemoveElement
    <3> QED BY <3>2
  <2>4. g[s \ {Pick(s)}] = h[s \ {Pick(s)}]
    BY <1>2, <2>3
  <2>5. g[s] = SumStep(f, g, s) /\ h[s] = SumStep(f, h, s)
    BY DEF IsSum
  <2> QED BY <2>4, <2>5 DEF SumStep
<1>3. Cardinality(T) \in Q
  <2> HIDE DEF Q
  <2> QED BY <1>1, <1>2, NumberInduction, FS_CardinalityType
<1> QED BY <1>3

\* The equation of the sum itself.
LEMMA SumEquation ==
    ASSUME NEW S, IsFiniteSet(S), NEW f
    PROVE  SumFunctionOnSet(f, S) =
             IF S = {} THEN 0
             ELSE f[Pick(S)] + SumFunctionOnSet(f, S \ {Pick(S)})
<1> DEFINE G(T) == CHOOSE g : IsSum(f, T, g)
           R == S \ {Pick(S)}
<1>1. IsFiniteSet(R) /\ R \in SUBSET S
  BY FS_Subset
<1>2. IsSum(f, S, G(S)) /\ IsSum(f, R, G(R))
  BY <1>1, SumExists
<1>3. G(S)[R] = G(R)[R]
  <2> HIDE DEF G, R
  <2> QED BY <1>1, <1>2, SumUnique
<1>4. G(S)[S] = SumStep(f, G(S), S)
  <2> HIDE DEF G
  <2> QED BY <1>2 DEF IsSum
<1>5. SumFunctionOnSet(f, S) = G(S)[S] /\ SumFunctionOnSet(f, R) = G(R)[R]
  BY Unfold
<1> HIDE DEF G
<1> QED BY <1>3, <1>4, <1>5 DEF SumStep

\* The empty sum.
LEMMA SumEmpty == \A f : SumFunctionOnSet(f, {}) = 0
BY SumEquation, FS_EmptySet

-----------------------------------------------------------------------------
(* Sums of integers.                                                       *)

IntegersOn(f, S) == \A x \in S : f[x] \in Int

\* Any element may be taken out first.
LEMMA SumTake ==
    ASSUME NEW S, IsFiniteSet(S), NEW f, IntegersOn(f, S)
    PROVE  /\ SumFunctionOnSet(f, S) \in Int
           /\ \A x \in S : SumFunctionOnSet(f, S)
                             = f[x] + SumFunctionOnSet(f, S \ {x})
<1> DEFINE Total(T) == SumFunctionOnSet(f, T)
           Good(T) == /\ Total(T) \in Int
                      /\ \A x \in T : Total(T) = f[x] + Total(T \ {x})
           Q == {n \in Nat : \A T \in SUBSET S : Cardinality(T) <= n => Good(T)}
<1> HIDE DEF Total
<1>0. ASSUME NEW T \in SUBSET S, T # {}
      PROVE  Pick(T) \in T /\ Total(T) = f[Pick(T)] + Total(T \ {Pick(T)})
  <2>1. Pick(T) \in T
    BY <1>0 DEF Pick
  <2>2. IsFiniteSet(T)
    BY FS_Subset
  <2> QED BY <1>0, <2>1, <2>2, SumEquation DEF Total
<1>1. 0 \in Q
  <2>1. Total({}) = 0
    BY SumEmpty DEF Total
  <2>2. ASSUME NEW T \in SUBSET S, Cardinality(T) <= 0 PROVE Good(T)
    <3>1. IsFiniteSet(T) /\ Cardinality(T) \in Nat
      BY FS_Subset, FS_CardinalityType
    <3>2. T = {}
      BY <3>1, <2>2, FS_EmptySet
    <3> QED BY <3>2, <2>1
  <2> HIDE DEF Good
  <2> QED BY <2>2
<1>2. ASSUME NEW n \in Nat, n \in Q PROVE n + 1 \in Q
  <2>0. \A T \in SUBSET S : Cardinality(T) <= n => Good(T)
    BY <1>2
  <2> SUFFICES ASSUME NEW T \in SUBSET S, Cardinality(T) <= n + 1, T # {}
               PROVE  Good(T)
    <3>1. Good({})
      BY SumEmpty DEF Total
    <3> HIDE DEF Good
    <3> QED BY <3>1
  <2> DEFINE p == Pick(T)
  <2>1. IsFiniteSet(T) /\ Cardinality(T) \in Nat
    BY FS_Subset, FS_CardinalityType
  <2>2. p \in T /\ Total(T) = f[p] + Total(T \ {p})
    BY <1>0
  <2> HIDE DEF p
  <2>3. ASSUME NEW x \in T PROVE Good(T \ {x})
    <3>1. Cardinality(T \ {x}) = Cardinality(T) - 1
      BY <2>1, FS_RemoveElement
    <3> HIDE DEF Good
    <3> QED BY <3>1, <2>0, <2>1
  <2>4. \A x \in T : f[x] \in Int
    BY DEF IntegersOn
  <2>5. ASSUME NEW x \in T PROVE Total(T) = f[x] + Total(T \ {x})
    <3>1. CASE x = p
      BY <3>1, <2>2
    <3>2. CASE x # p
      <4>1. Total(T \ {p}) = f[x] + Total((T \ {p}) \ {x})
        BY <3>2, <2>2, <2>3
      <4>2. Total(T \ {x}) = f[p] + Total((T \ {x}) \ {p})
        BY <3>2, <2>2, <2>3
      <4>3. (T \ {p}) \ {x} = (T \ {x}) \ {p}
        OBVIOUS
      <4>4. Total((T \ {x}) \ {p}) \in Int
        <5> DEFINE U == (T \ {x}) \ {p}
        <5>1. Cardinality(T \ {x}) = Cardinality(T) - 1 /\ IsFiniteSet(T \ {x})
          BY <2>1, FS_RemoveElement
        <5>2. Cardinality(U) <= Cardinality(T \ {x}) /\ Cardinality(U) \in Nat
          BY <5>1, FS_Subset, FS_CardinalityType
        <5>3. U \in SUBSET S /\ Cardinality(U) <= n
          BY <5>1, <5>2, <2>1
        <5>4. Good(U)
          <6> HIDE DEF Good, U
          <6> QED BY <5>3, <2>0
        <5> QED BY <5>4
      <4> DEFINE r == Total((T \ {x}) \ {p})
      <4>5. Total(T \ {p}) = f[x] + r /\ Total(T \ {x}) = f[p] + r /\ r \in Int
        BY <4>1, <4>2, <4>3, <4>4
      <4> HIDE DEF r
      <4>6. f[x] \in Int /\ f[p] \in Int
        BY <2>2, <2>4
      <4> QED BY <4>5, <4>6, <2>2
    <3> QED BY <3>1, <3>2
  <2> QED BY <2>2, <2>3, <2>4, <2>5
<1>3. Cardinality(S) \in Q
  <2> HIDE DEF Q
  <2> QED BY <1>1, <1>2, NumberInduction, FS_CardinalityType
<1> QED BY <1>3 DEF Total

\* The sum over a set with one element more.
LEMMA SumAddElement ==
    ASSUME NEW S, IsFiniteSet(S), NEW x, x \notin S, NEW f,
           IntegersOn(f, S \cup {x})
    PROVE  SumFunctionOnSet(f, S \cup {x}) = SumFunctionOnSet(f, S) + f[x]
<1>1. IsFiniteSet(S \cup {x}) /\ (S \cup {x}) \ {x} = S
  BY FS_AddElement
<1>2. SumFunctionOnSet(f, S) \in Int /\ f[x] \in Int
  BY SumTake DEF IntegersOn
<1>3. SumFunctionOnSet(f, S \cup {x}) = f[x] + SumFunctionOnSet(f, (S \cup {x}) \ {x})
  BY <1>1, SumTake
<1>4. SumFunctionOnSet(f, (S \cup {x}) \ {x}) = SumFunctionOnSet(f, S)
  BY <1>1
<1> QED BY <1>2, <1>3, <1>4

\* A sum sees only the values on its set.
LEMMA SumSame ==
    ASSUME NEW S, IsFiniteSet(S), NEW f, NEW g, IntegersOn(f, S),
           \A x \in S : g[x] = f[x]
    PROVE  SumFunctionOnSet(g, S) = SumFunctionOnSet(f, S)
<1> DEFINE Q == {T \in SUBSET S : SumFunctionOnSet(g, T) = SumFunctionOnSet(f, T)}
<1>1. {} \in Q
  BY SumEmpty
<1>2. ASSUME NEW T \in SUBSET S, NEW x \in S, T \in Q, x \notin T
      PROVE  T \cup {x} \in Q
  <2>1. IsFiniteSet(T) /\ IntegersOn(f, T \cup {x}) /\ IntegersOn(g, T \cup {x})
    BY FS_Subset DEF IntegersOn
  <2>2. SumFunctionOnSet(f, T \cup {x}) = SumFunctionOnSet(f, T) + f[x]
    BY <1>2, <2>1, SumAddElement
  <2>3. SumFunctionOnSet(g, T \cup {x}) = SumFunctionOnSet(g, T) + g[x]
    BY <1>2, <2>1, SumAddElement
  <2> QED BY <1>2, <2>2, <2>3
<1> HIDE DEF Q
<1>3. S \in Q
  BY <1>1, <1>2, FiniteInduction
<1> QED BY <1>3 DEF Q

\* Terms that differ in one element.
LEMMA SumChange ==
    ASSUME NEW S, IsFiniteSet(S), NEW f, NEW g, NEW x \in S,
           IntegersOn(f, S), g[x] \in Int, \A y \in S \ {x} : g[y] = f[y]
    PROVE  SumFunctionOnSet(g, S) = SumFunctionOnSet(f, S) - f[x] + g[x]
<1>1. IntegersOn(g, S) /\ IntegersOn(f, S \ {x}) /\ IsFiniteSet(S \ {x})
  BY FS_RemoveElement DEF IntegersOn
<1>2. SumFunctionOnSet(g, S \ {x}) = SumFunctionOnSet(f, S \ {x})
  BY <1>1, SumSame
<1>3. SumFunctionOnSet(f, S) = f[x] + SumFunctionOnSet(f, S \ {x})
  BY SumTake
<1>4. SumFunctionOnSet(g, S) = g[x] + SumFunctionOnSet(g, S \ {x})
  BY <1>1, SumTake
<1>5. SumFunctionOnSet(f, S \ {x}) \in Int /\ f[x] \in Int
  BY <1>1, SumTake DEF IntegersOn
<1> QED BY <1>2, <1>3, <1>4, <1>5

\* Sums are monotonic.
LEMMA SumMono ==
    ASSUME NEW S, IsFiniteSet(S), NEW f, NEW g, IntegersOn(f, S),
           IntegersOn(g, S), \A x \in S : f[x] <= g[x]
    PROVE  SumFunctionOnSet(f, S) <= SumFunctionOnSet(g, S)
<1> DEFINE Q == {T \in SUBSET S : SumFunctionOnSet(f, T) <= SumFunctionOnSet(g, T)}
<1>1. {} \in Q
  BY SumEmpty
<1>2. ASSUME NEW T \in SUBSET S, NEW x \in S, T \in Q, x \notin T
      PROVE  T \cup {x} \in Q
  <2>1. /\ IsFiniteSet(T)
        /\ IntegersOn(f, T \cup {x}) /\ IntegersOn(g, T \cup {x})
        /\ IntegersOn(f, T) /\ IntegersOn(g, T)
    BY FS_Subset DEF IntegersOn
  <2>2. SumFunctionOnSet(f, T \cup {x}) = SumFunctionOnSet(f, T) + f[x]
    BY <1>2, <2>1, SumAddElement
  <2>3. SumFunctionOnSet(g, T \cup {x}) = SumFunctionOnSet(g, T) + g[x]
    BY <1>2, <2>1, SumAddElement
  <2>4. SumFunctionOnSet(f, T) \in Int /\ SumFunctionOnSet(g, T) \in Int
    BY <2>1, SumTake
  <2>5. f[x] \in Int /\ g[x] \in Int /\ f[x] <= g[x]
    BY DEF IntegersOn
  <2>6. SumFunctionOnSet(f, T) <= SumFunctionOnSet(g, T)
    BY <1>2
  <2>7. SumFunctionOnSet(f, T \cup {x}) <= SumFunctionOnSet(g, T \cup {x})
    BY <2>2, <2>3, <2>4, <2>5, <2>6
  <2> QED BY <2>7
<1> HIDE DEF Q
<1>3. S \in Q
  BY <1>1, <1>2, FiniteInduction
<1> QED BY <1>3 DEF Q

\* They add up term by term.
LEMMA SumPlus ==
    ASSUME NEW S, IsFiniteSet(S), NEW f, NEW g, NEW h, IntegersOn(f, S),
           IntegersOn(g, S), \A x \in S : h[x] = f[x] + g[x]
    PROVE  SumFunctionOnSet(h, S) = SumFunctionOnSet(f, S) + SumFunctionOnSet(g, S)
<1> DEFINE Q == {T \in SUBSET S : SumFunctionOnSet(h, T)
                    = SumFunctionOnSet(f, T) + SumFunctionOnSet(g, T)}
<1>1. {} \in Q
  BY SumEmpty
<1>2. ASSUME NEW T \in SUBSET S, NEW x \in S, T \in Q, x \notin T
      PROVE  T \cup {x} \in Q
  <2>1. /\ IsFiniteSet(T)
        /\ IntegersOn(f, T \cup {x}) /\ IntegersOn(g, T \cup {x})
        /\ IntegersOn(h, T \cup {x})
        /\ IntegersOn(f, T) /\ IntegersOn(g, T)
    BY FS_Subset DEF IntegersOn
  <2>2. SumFunctionOnSet(f, T \cup {x}) = SumFunctionOnSet(f, T) + f[x]
    BY <1>2, <2>1, SumAddElement
  <2>3. SumFunctionOnSet(g, T \cup {x}) = SumFunctionOnSet(g, T) + g[x]
    BY <1>2, <2>1, SumAddElement
  <2>4. SumFunctionOnSet(h, T \cup {x}) = SumFunctionOnSet(h, T) + h[x]
    BY <1>2, <2>1, SumAddElement
  <2>5. SumFunctionOnSet(f, T) \in Int /\ SumFunctionOnSet(g, T) \in Int
    BY <2>1, SumTake
  <2>6. f[x] \in Int /\ g[x] \in Int /\ h[x] = f[x] + g[x]
    BY DEF IntegersOn
  <2>7. SumFunctionOnSet(h, T) = SumFunctionOnSet(f, T) + SumFunctionOnSet(g, T)
    BY <1>2
  <2>8. SumFunctionOnSet(h, T \cup {x})
          = SumFunctionOnSet(f, T \cup {x}) + SumFunctionOnSet(g, T \cup {x})
    BY <2>2, <2>3, <2>4, <2>5, <2>6, <2>7
  <2> QED BY <2>8
<1> HIDE DEF Q
<1>3. S \in Q
  BY <1>1, <1>2, FiniteInduction
<1> QED BY <1>3 DEF Q

\* A common factor may be taken out.
LEMMA SumTimes ==
    ASSUME NEW S, IsFiniteSet(S), NEW f, NEW g, NEW k \in Int, IntegersOn(f, S),
           \A x \in S : g[x] = k * f[x]
    PROVE  SumFunctionOnSet(g, S) = k * SumFunctionOnSet(f, S)
<1> DEFINE Q == {T \in SUBSET S :
                   SumFunctionOnSet(g, T) = k * SumFunctionOnSet(f, T)}
<1>1. {} \in Q
  BY SumEmpty
<1>2. ASSUME NEW T \in SUBSET S, NEW x \in S, T \in Q, x \notin T
      PROVE  T \cup {x} \in Q
  <2>1. /\ IsFiniteSet(T)
        /\ IntegersOn(f, T \cup {x}) /\ IntegersOn(g, T \cup {x})
        /\ IntegersOn(f, T)
    BY FS_Subset DEF IntegersOn
  <2>2. SumFunctionOnSet(f, T \cup {x}) = SumFunctionOnSet(f, T) + f[x]
    BY <1>2, <2>1, SumAddElement
  <2>3. SumFunctionOnSet(g, T \cup {x}) = SumFunctionOnSet(g, T) + g[x]
    BY <1>2, <2>1, SumAddElement
  <2>4. SumFunctionOnSet(f, T) \in Int /\ f[x] \in Int
    BY <2>1, SumTake DEF IntegersOn
  <2>5. k * (SumFunctionOnSet(f, T) + f[x])
          = k * SumFunctionOnSet(f, T) + k * f[x]
    BY <2>4
  <2>6. SumFunctionOnSet(g, T) = k * SumFunctionOnSet(f, T) /\ g[x] = k * f[x]
    BY <1>2
  <2>7. SumFunctionOnSet(g, T \cup {x}) = k * SumFunctionOnSet(f, T \cup {x})
    BY <2>2, <2>3, <2>5, <2>6
  <2> QED BY <2>7
<1> HIDE DEF Q
<1>3. S \in Q
  BY <1>1, <1>2, FiniteInduction
<1> QED BY <1>3 DEF Q

\* A sum of zeros.
LEMMA SumZero ==
    ASSUME NEW S, IsFiniteSet(S), NEW f, \A x \in S : f[x] = 0
    PROVE  SumFunctionOnSet(f, S) = 0
<1>1. IntegersOn(f, S) /\ \A x \in S : f[x] = 0 * f[x]
  BY DEF IntegersOn
<1>2. SumFunctionOnSet(f, S) = 0 * SumFunctionOnSet(f, S)
  BY <1>1, SumTimes
<1>3. SumFunctionOnSet(f, S) \in Int
  BY <1>1, SumTake
<1> QED BY <1>2, <1>3

\* Terms that are all the same.
LEMMA SumConstant ==
    ASSUME NEW S, IsFiniteSet(S), NEW k \in Int, NEW f, \A x \in S : f[x] = k
    PROVE  SumFunctionOnSet(f, S) = k * Cardinality(S)
<1> DEFINE Q == {T \in SUBSET S : SumFunctionOnSet(f, T) = k * Cardinality(T)}
<1>1. {} \in Q
  BY SumEmpty, FS_EmptySet
<1>2. ASSUME NEW T \in SUBSET S, NEW x \in S, T \in Q, x \notin T
      PROVE  T \cup {x} \in Q
  <2>1. IsFiniteSet(T) /\ IntegersOn(f, T \cup {x}) /\ f[x] = k
    BY FS_Subset DEF IntegersOn
  <2>2. SumFunctionOnSet(f, T \cup {x}) = SumFunctionOnSet(f, T) + f[x]
    BY <1>2, <2>1, SumAddElement
  <2>3. Cardinality(T \cup {x}) = Cardinality(T) + 1 /\ Cardinality(T) \in Nat
    BY <1>2, <2>1, FS_AddElement, FS_CardinalityType
  <2>4. k * (Cardinality(T) + 1) = k * Cardinality(T) + k
    BY <2>3
  <2> QED BY <1>2, <2>1, <2>2, <2>3, <2>4
<1> HIDE DEF Q
<1>3. S \in Q
  BY <1>1, <1>2, FiniteInduction
<1> QED BY <1>3 DEF Q

\* Sums of natural numbers.
LEMMA SumNat ==
    ASSUME NEW S, IsFiniteSet(S), NEW f, \A x \in S : f[x] \in Nat
    PROVE  /\ SumFunctionOnSet(f, S) \in Nat
           /\ \A x \in S : f[x] <= SumFunctionOnSet(f, S)
<1> DEFINE z == [x \in S |-> 0]
<1>1. IntegersOn(f, S) /\ IntegersOn(z, S) /\ \A x \in S : z[x] <= f[x]
  BY DEF IntegersOn
<1>2. \A T \in SUBSET S : SumFunctionOnSet(f, T) \in Nat
  <2> TAKE T \in SUBSET S
  <2>1. IsFiniteSet(T) /\ IntegersOn(f, T) /\ IntegersOn(z, T)
    BY <1>1, FS_Subset DEF IntegersOn
  <2>2. SumFunctionOnSet(z, T) = 0
    BY <2>1, SumZero
  <2>3. SumFunctionOnSet(z, T) <= SumFunctionOnSet(f, T)
    <3>1. \A x \in T : z[x] <= f[x]
      BY <1>1
    <3> HIDE DEF z
    <3> QED BY <2>1, <3>1, SumMono
  <2>4. SumFunctionOnSet(f, T) \in Int
    BY <2>1, SumTake
  <2> QED BY <2>2, <2>3, <2>4
<1>3. ASSUME NEW x \in S PROVE f[x] <= SumFunctionOnSet(f, S)
  <2>1. SumFunctionOnSet(f, S) = f[x] + SumFunctionOnSet(f, S \ {x})
    BY <1>1, SumTake
  <2>2. SumFunctionOnSet(f, S \ {x}) \in Nat /\ f[x] \in Nat
    BY <1>2
  <2> QED BY <2>1, <2>2
<1> QED BY <1>2, <1>3

\* The sum over two disjoint sets.
LEMMA SumUnion ==
    ASSUME NEW S, IsFiniteSet(S), NEW R, IsFiniteSet(R), R \cap S = {}, NEW f,
           IntegersOn(f, S \cup R)
    PROVE  SumFunctionOnSet(f, S \cup R)
             = SumFunctionOnSet(f, S) + SumFunctionOnSet(f, R)
<1> DEFINE Q == {T \in SUBSET R : SumFunctionOnSet(f, S \cup T)
                    = SumFunctionOnSet(f, S) + SumFunctionOnSet(f, T)}
<1>0. SumFunctionOnSet(f, S) \in Int
  BY SumTake DEF IntegersOn
<1>1. {} \in Q
  <2>1. S \cup {} = S
    OBVIOUS
  <2>2. SumFunctionOnSet(f, S \cup {})
          = SumFunctionOnSet(f, S) + SumFunctionOnSet(f, {})
    BY <1>0, <2>1, SumEmpty
  <2> QED BY <2>2
<1>2. ASSUME NEW T \in SUBSET R, NEW x \in R, T \in Q, x \notin T
      PROVE  T \cup {x} \in Q
  <2>1. /\ IsFiniteSet(T) /\ IsFiniteSet(S \cup T)
        /\ IntegersOn(f, T \cup {x}) /\ IntegersOn(f, (S \cup T) \cup {x})
        /\ IntegersOn(f, T)
        /\ x \notin S \cup T
    BY <1>2, FS_Subset, FS_Union DEF IntegersOn
  <2>2. SumFunctionOnSet(f, T \cup {x}) = SumFunctionOnSet(f, T) + f[x]
    BY <1>2, <2>1, SumAddElement
  <2>3. SumFunctionOnSet(f, (S \cup T) \cup {x}) = SumFunctionOnSet(f, S \cup T) + f[x]
    BY <2>1, SumAddElement
  <2>4. SumFunctionOnSet(f, T) \in Int /\ f[x] \in Int
    BY <2>1, SumTake DEF IntegersOn
  <2>5. S \cup (T \cup {x}) = (S \cup T) \cup {x}
    OBVIOUS
  <2>6. SumFunctionOnSet(f, S \cup T)
          = SumFunctionOnSet(f, S) + SumFunctionOnSet(f, T)
    BY <1>2
  <2>7. SumFunctionOnSet(f, (S \cup T) \cup {x})
          = SumFunctionOnSet(f, S) + SumFunctionOnSet(f, T \cup {x})
    BY <1>0, <2>2, <2>3, <2>4, <2>6
  <2>8. SumFunctionOnSet(f, S \cup (T \cup {x}))
          = SumFunctionOnSet(f, S) + SumFunctionOnSet(f, T \cup {x})
    BY <2>5, <2>7
  <2> QED BY <2>8
<1> HIDE DEF Q
<1>3. R \in Q
  BY <1>1, <1>2, FiniteInduction
<1> QED BY <1>3 DEF Q

\* Leaving out elements does not make a sum of natural numbers larger.
LEMMA SumSubset ==
    ASSUME NEW S, IsFiniteSet(S), NEW R \in SUBSET S, NEW f,
           \A x \in S : f[x] \in Nat
    PROVE  SumFunctionOnSet(f, R) <= SumFunctionOnSet(f, S)
<1>1. IsFiniteSet(R) /\ IsFiniteSet(S \ R) /\ R \cup (S \ R) = S
  BY FS_Subset
<1>2. IntegersOn(f, R \cup (S \ R))
  BY DEF IntegersOn
<1>3. SumFunctionOnSet(f, R \cup (S \ R))
        = SumFunctionOnSet(f, R) + SumFunctionOnSet(f, S \ R)
  BY <1>1, <1>2, SumUnion
<1>4. SumFunctionOnSet(f, R) \in Nat /\ SumFunctionOnSet(f, S \ R) \in Nat
  BY <1>1, SumNat
<1>5. SumFunctionOnSet(f, R \cup (S \ R)) = SumFunctionOnSet(f, S)
  BY <1>1
<1> QED BY <1>3, <1>4, <1>5

\* It makes it smaller unless all that is left out is zero.
LEMMA SumOfAll ==
    ASSUME NEW S, IsFiniteSet(S), NEW R \in SUBSET S, NEW f,
           \A x \in S : f[x] \in Nat
    PROVE  SumFunctionOnSet(f, R) >= SumFunctionOnSet(f, S)
             <=> \A x \in S : f[x] > 0 => x \in R
<1> DEFINE p == SumFunctionOnSet(f, R)
           q == SumFunctionOnSet(f, S \ R)
<1>1. IsFiniteSet(R) /\ IsFiniteSet(S \ R) /\ R \cup (S \ R) = S
  BY FS_Subset
<1>2. SumFunctionOnSet(f, S) = p + q
  <2>1. IntegersOn(f, R \cup (S \ R)) /\ (S \ R) \cap R = {}
    BY DEF IntegersOn
  <2>2. SumFunctionOnSet(f, R \cup (S \ R)) = p + q
    BY <1>1, <2>1, SumUnion
  <2> QED BY <1>1, <2>2
<1>3. /\ p \in Nat /\ q \in Nat
      /\ \A x \in S \ R : f[x] <= q
  BY <1>1, SumNat
<1>4. ASSUME \A x \in S : f[x] > 0 => x \in R PROVE q = 0
  <2>1. \A x \in S \ R : f[x] = 0
    BY <1>4
  <2> QED BY <1>1, <2>1, SumZero
<1> HIDE DEF p, q
<1>5. ASSUME p >= p + q, NEW x \in S, f[x] > 0 PROVE x \in R
  BY <1>3, <1>5
<1>6. p >= p + q <=> \A x \in S : f[x] > 0 => x \in R
  BY <1>3, <1>4, <1>5
<1> QED BY <1>2, <1>6 DEF p

\* A sum with one term that is not zero.
LEMMA SumOfOne ==
    ASSUME NEW S, IsFiniteSet(S), NEW f, NEW x \in S, f[x] \in Int,
           \A y \in S \ {x} : f[y] = 0
    PROVE  SumFunctionOnSet(f, S) = f[x]
<1> DEFINE z == [y \in S |-> 0]
<1>1. IntegersOn(z, S) /\ z[x] = 0 /\ \A y \in S \ {x} : f[y] = z[y]
  BY DEF IntegersOn
<1>2. SumFunctionOnSet(z, S) = 0
  BY SumZero
<1> HIDE DEF z
<1>3. SumFunctionOnSet(f, S) = SumFunctionOnSet(z, S) - z[x] + f[x]
  BY <1>1, SumChange
<1> QED BY <1>1, <1>2, <1>3

\* Two terms change and keep their sum.
LEMMA SumMoved ==
    ASSUME NEW S, IsFiniteSet(S), NEW f, NEW g, NEW x \in S, NEW y \in S, x # y,
           IntegersOn(f, S), IntegersOn(g, S), f[x] + f[y] = g[x] + g[y],
           \A w \in S \ {x, y} : g[w] = f[w]
    PROVE  SumFunctionOnSet(g, S) = SumFunctionOnSet(f, S)
<1> DEFINE h == [w \in S |-> IF w = x THEN g[x] ELSE f[w]]
<1>1. IntegersOn(h, S) /\ h[x] \in Int /\ g[y] \in Int
  BY DEF IntegersOn
<1>2. \A w \in S \ {x} : h[w] = f[w]
  OBVIOUS
<1>3. \A w \in S \ {y} : g[w] = h[w]
  OBVIOUS
<1>4. h[x] = g[x] /\ h[y] = f[y]
  OBVIOUS
<1> HIDE DEF h
<1>5. SumFunctionOnSet(h, S) = SumFunctionOnSet(f, S) - f[x] + h[x]
  BY <1>1, <1>2, SumChange
<1>6. SumFunctionOnSet(g, S) = SumFunctionOnSet(h, S) - h[y] + g[y]
  BY <1>1, <1>3, SumChange
<1>7. SumFunctionOnSet(f, S) \in Int /\ f[x] \in Int /\ f[y] \in Int /\ g[x] \in Int
  BY SumTake DEF IntegersOn
<1> QED BY <1>1, <1>4, <1>5, <1>6, <1>7

-----------------------------------------------------------------------------
(* The sets that are summed over.                                          *)

\* The records of a cycle and a number are as many as the pairs of them.
LEMMA TranchesOfFinite ==
    ASSUME NEW C, IsFiniteSet(C), NEW N, IsFiniteSet(N)
    PROVE  IsFiniteSet([cycle : C, tranche : N])
<1> DEFINE R == [cycle : C, tranche : N]
           f == [p \in C \X N |-> [cycle |-> p[1], tranche |-> p[2]]]
<1>1. IsFiniteSet(C \X N)
  BY FS_Product
<1>2. f \in [C \X N -> R]
  OBVIOUS
<1>3. ASSUME NEW r \in R PROVE \E p \in C \X N : f[p] = r
  <2>1. <<r.cycle, r.tranche>> \in C \X N
    OBVIOUS
  <2>2. f[<<r.cycle, r.tranche>>] = r
    OBVIOUS
  <2> QED BY <2>1, <2>2
<1>4. f \in Surjection(C \X N, R)
  BY <1>2, <1>3 DEF Surjection
<1> QED BY <1>1, <1>4, FS_Surjection

\* The sum of a table over the set of its rows.
LEMMA SumOfTable ==
    ASSUME NEW T, IsFiniteSet(T), NEW f, NEW g, DOMAIN g = T,
           \A x \in T : f[x] \in Int, \A x \in T : g[x] = f[x]
    PROVE  SumFunction(g) = SumFunctionOnSet(f, T)
<1>1. SumFunctionOnSet(g, T) = SumFunctionOnSet(f, T)
  BY SumSame DEF IntegersOn
<1> QED BY <1>1 DEF SumFunction

-----------------------------------------------------------------------------
(* Products and quotients, rounded down.                                   *)

\* A factor may be put on both sides.
LEMMA MulMono ==
    ASSUME NEW a \in Nat, NEW b \in Int, NEW c \in Int, b <= c
    PROVE  a * b <= a * c
<1>1. a * (c - b) >= 0
  OBVIOUS
<1>2. a * (c - b) = a * c - a * b
  OBVIOUS
<1> QED BY <1>1, <1>2

\* A positive factor on both sides can be dropped.
LEMMA CancelFactor ==
    ASSUME NEW k \in Nat \ {0}, NEW x \in Int, NEW y \in Int, k * x <= k * y
    PROVE  x <= y
<1> SUFFICES ASSUME x >= y + 1 PROVE FALSE
  OBVIOUS
<1>1. k * (x - y - 1) >= 0
  OBVIOUS
<1>2. k * (x - y - 1) = k * x - k * y - k
  OBVIOUS
<1> QED BY <1>1, <1>2

\* A quotient is rounded down.
LEMMA DivBounds ==
    ASSUME NEW x \in Int, NEW d \in Nat \ {0}
    PROVE  /\ x \div d \in Int
           /\ d * (x \div d) <= x
           /\ x <= d * (x \div d) + d - 1
  OBVIOUS

\* A quotient grows with the dividend.
LEMMA DivMono ==
    ASSUME NEW m \in Int, NEW n \in Int, NEW k \in Nat \ {0}, m <= n
    PROVE  m \div k <= n \div k
<1> DEFINE p == m \div k
           q == n \div k
<1>1. p \in Int /\ q \in Int /\ k * p <= m /\ n <= k * q + k - 1
  BY DivBounds
<1> SUFFICES p <= q
  OBVIOUS
<1> HIDE DEF p, q
<1>2. k * q + k = k * (q + 1)
  BY <1>1
<1>3. ASSUME q < p PROVE FALSE
  <2>1. k * (q + 1) <= k * p
    BY <1>1, <1>3, MulMono
  <2> QED BY <2>1, <1>1, <1>2
<1> QED BY <1>1, <1>3

\* Of natural numbers it is one.
LEMMA DivNat == \A m \in Nat, k \in Nat \ {0} : m \div k \in Nat
  OBVIOUS

\* A part of t is at most t.
LEMMA DivShare ==
    ASSUME NEW t \in Nat, NEW k \in Nat, NEW l \in Nat \ {0}, k <= l
    PROVE  (t * k) \div l <= t
<1>1. t * k <= t * l
  BY MulMono
<1>2. (t * k) \div l <= (t * l) \div l
  BY <1>1, DivMono
<1>3. (t * l) \div l = t
  OBVIOUS
<1> QED BY <1>2, <1>3

\* Dividing twice is never more than dividing by the product.
LEMMA DivTwice ==
    ASSUME NEW n \in Nat, NEW d \in Nat \ {0}
    PROVE  (n \div d) \div 2 <= n \div (2 * d)
<1> DEFINE q == n \div d
           h == q \div 2
           e == 2 * d
           k == n \div e
<1>1. q \in Int /\ d * q <= n
  BY DivBounds
<1> HIDE DEF q
<1>2. h \in Int /\ 2 * h <= q
  BY <1>1, DivBounds
<1> HIDE DEF h
<1>3. e \in Nat \ {0}
  OBVIOUS
<1>4. k \in Int /\ n <= e * k + e - 1
  <2> HIDE DEF e
  <2> QED BY <1>3, DivBounds
<1> HIDE DEF k
<1>5. d * (2 * h) <= d * q
  BY <1>1, <1>2, MulMono
<1>6. e * h = d * (2 * h) /\ d * (2 * h) \in Int /\ d * q \in Int
  BY <1>1, <1>2
<1> HIDE DEF e
<1>7. e * (k + 1) = e * k + e /\ e * k \in Int
  BY <1>3, <1>4
<1>8. e * h < e * (k + 1)
  BY <1>1, <1>3, <1>4, <1>5, <1>6, <1>7
<1>9. h <= k
  <2> SUFFICES ASSUME k + 1 <= h PROVE FALSE
    BY <1>2, <1>4
  <2>1. e * (k + 1) <= e * h
    BY <1>2, <1>3, <1>4, MulMono
  <2>2. e * (k + 1) \in Int /\ e * h \in Int
    BY <1>2, <1>3, <1>4
  <2> QED BY <1>8, <2>1, <2>2
<1> QED BY <1>9 DEF h, q, k, e

\* Parts of a pot in proportion to some shares, rounded down, are never more
\* than the pot; with all the shares there, less than one unit for each part
\* is left.
LEMMA PartsOfPot ==
    ASSUME NEW R, IsFiniteSet(R), NEW pot \in Nat, NEW total \in Nat \ {0},
           NEW sh, \A s \in R : sh[s] \in Nat,
           NEW part,
           \A s \in R : /\ part[s] \in Nat
                         /\ total * part[s] <= pot * sh[s]
                         /\ pot * sh[s] <= total * part[s] + total - 1,
           SumFunctionOnSet(sh, R) <= total
    PROVE  /\ SumFunctionOnSet(part, R) \in Nat
           /\ SumFunctionOnSet(part, R) <= pot
           /\ SumFunctionOnSet(sh, R) = total
                => /\ Cardinality(R) > 0
                   /\ pot - SumFunctionOnSet(part, R) < Cardinality(R)
<1> DEFINE exact == [s \in R |-> pot * sh[s]]
           whole == [s \in R |-> total * part[s]]
           room  == [s \in R |-> total - 1]
           upper == [s \in R |-> whole[s] + room[s]]
           S     == SumFunctionOnSet(sh, R)
           Q     == SumFunctionOnSet(part, R)
           n     == Cardinality(R)
<1>1. \A s \in R : /\ exact[s] \in Int /\ whole[s] \in Int /\ room[s] \in Int
                   /\ whole[s] <= exact[s]
                   /\ exact[s] <= upper[s]
  OBVIOUS
<1>2. /\ \A s \in R : exact[s] = pot * sh[s]
      /\ \A s \in R : whole[s] = total * part[s]
      /\ \A s \in R : room[s] = total - 1
      /\ \A s \in R : upper[s] = whole[s] + room[s]
  OBVIOUS
<1> HIDE DEF exact, whole, room, upper
<1>3. /\ IntegersOn(sh, R) /\ IntegersOn(part, R)
      /\ IntegersOn(exact, R) /\ IntegersOn(whole, R) /\ IntegersOn(room, R)
      /\ IntegersOn(upper, R)
  BY <1>1, <1>2 DEF IntegersOn
<1>4. S \in Nat /\ Q \in Nat
  BY SumNat
<1>5. SumFunctionOnSet(exact, R) = pot * S
  BY <1>2, <1>3, SumTimes
<1>6. SumFunctionOnSet(whole, R) = total * Q
  BY <1>2, <1>3, SumTimes
<1>7. SumFunctionOnSet(whole, R) <= SumFunctionOnSet(exact, R)
  BY <1>1, <1>3, SumMono
<1>8. Q <= pot
  <2> HIDE DEF S, Q
  <2>1. pot * S <= pot * total
    BY <1>4, MulMono DEF S
  <2>2. total * Q <= total * pot
    BY <1>4, <1>5, <1>6, <1>7, <2>1
  <2> QED BY <1>4, <2>2, CancelFactor
<1>9. ASSUME S = total PROVE n > 0 /\ pot - Q < n
  <2>1. n \in Nat
    BY FS_CardinalityType
  <2>2. n > 0
    <3>1. n = 0 => R = {}
      BY FS_EmptySet
    <3>2. R # {}
      BY <1>9, SumEmpty
    <3> QED BY <2>1, <3>1, <3>2
  <2>3. SumFunctionOnSet(room, R) = (total - 1) * n
    <3>1. total - 1 \in Int
      OBVIOUS
    <3> QED BY <1>2, <3>1, SumConstant
  <2>4. SumFunctionOnSet(upper, R)
          = SumFunctionOnSet(whole, R) + SumFunctionOnSet(room, R)
    BY <1>2, <1>3, SumPlus
  <2>5. SumFunctionOnSet(exact, R) <= SumFunctionOnSet(upper, R)
    BY <1>1, <1>3, SumMono
  <2>6. pot * total <= total * Q + (total - 1) * n
    BY <1>5, <1>6, <1>9, <2>3, <2>4, <2>5
  <2> HIDE DEF S, Q, n
  <2>7. total * (pot - Q) < total * n
    <3>1. /\ pot * total = total * pot
          /\ total * (pot - Q) = total * pot - total * Q
          /\ (total - 1) * n = total * n - n
          /\ total * n \in Int /\ total * Q \in Int /\ total * pot \in Int
      BY <1>4, <2>1
    <3> QED BY <2>1, <2>2, <2>6, <3>1
  <2>8. pot - Q < n
    <3> SUFFICES ASSUME n <= pot - Q PROVE FALSE
      BY <1>4, <2>1
    <3>1. total * n <= total * (pot - Q)
      BY <1>4, <2>1, MulMono
    <3>2. total * n \in Int /\ total * (pot - Q) \in Int
      BY <1>4, <2>1
    <3> QED BY <2>7, <3>1, <3>2
  <2> QED BY <2>2, <2>8
<1> QED BY <1>4, <1>8, <1>9
=============================================================================
