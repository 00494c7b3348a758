-------------------------- MODULE CollectionTheorems --------------------------
(***************************************************************************)
(* What a sum over a finite set is, for every set and every function, and  *)
(* what a set is in order.  The community modules define the sum by        *)
(* recursion over the subsets of the set, in an order that CHOOSE fixes.   *)
(***************************************************************************)
EXTENDS Orderings, SequencesExt, FiniteSetsExt, FiniteSetTheorems, WellFoundedInduction, TLAPS

\* The sum of f[x] for the members x of S.
SumOf(f, S) == MapThenSumSet(LAMBDA x : f[x], S)

\* The member with which the recursion goes on.
Chosen(s) == CHOOSE x \in s : TRUE

\* One step of the recursion, and what it defines on the subsets of S.
SumStep(f, g, s) == IF s = {} THEN 0 ELSE f[Chosen(s)] + g[s \ {Chosen(s)}]
IsSum(f, g, S) == g = [s \in SUBSET S |-> SumStep(f, g, s)]

\* The values of f on S are in T.
Maps(f, S, T) == \A x \in S : f[x] \in T

\* Each member adds its value to the sum of the others.
SumsOthers(f, g, S) == \A x \in S : g[S] = g[S \ {x}] + f[x]

\* Induction over the natural numbers, for a set of them.
LEMMA NaturalSets ==
  ASSUME NEW S, 0 \in S, \A n \in Nat : n \in S => n + 1 \in S
  PROVE  Nat \subseteq S
<1> DEFINE T == {n \in Nat : n \notin S}
<1>1. SUFFICES ASSUME T # {} PROVE FALSE  OBVIOUS
<1>2. T \subseteq Nat  OBVIOUS
<1>3. \E x \in T : \A y \in T : ~(<<y, x>> \in OpToRel(<, Nat))
  <2> HIDE DEF T
  <2> QED  BY <1>1, <1>2, WFMin, NatLessThanWellFounded
<1>4. PICK x \in T : \A y \in T : ~(<<y, x>> \in OpToRel(<, Nat))  BY <1>3
<1>5. x # 0 /\ x \in Nat  OBVIOUS
<1>6. x - 1 \in Nat /\ x - 1 + 1 = x /\ x - 1 < x  BY <1>5
<1>7. x - 1 \in T  BY <1>6
<1>8. <<x - 1, x>> \in OpToRel(<, Nat)  BY <1>5, <1>6 DEF OpToRel
<1>9. QED  BY <1>4, <1>7, <1>8

\* Induction over the subsets of a finite set, for a set of them.
LEMMA SubsetInduction ==
  ASSUME NEW S, IsFiniteSet(S), NEW P,
         \A s \in SUBSET S : (\A x \in s : s \ {x} \in P) => s \in P
  PROVE  \A s \in SUBSET S : s \in P
<1> DEFINE T == {n \in Nat : \A s \in SUBSET S : Cardinality(s) = n => s \in P}
<1>1. \A s \in SUBSET S : IsFiniteSet(s) /\ Cardinality(s) \in Nat
  BY FS_Subset, FS_CardinalityType
<1>2. 0 \in T
  <2>1. \A s \in SUBSET S : Cardinality(s) = 0 => s = {}  BY <1>1, FS_EmptySet
  <2>2. QED  BY <2>1
<1>3. ASSUME NEW n \in Nat, n \in T PROVE n + 1 \in T
  <2> SUFFICES ASSUME NEW s \in SUBSET S, Cardinality(s) = n + 1,
                      NEW x \in s
               PROVE  s \ {x} \in P
    OBVIOUS
  <2>1. Cardinality(s \ {x}) = n  BY <1>1, FS_RemoveElement
  <2>2. s \ {x} \in SUBSET S  OBVIOUS
  <2>3. QED  BY <1>3, <2>1, <2>2
<1>4. Nat \subseteq T
  <2> HIDE DEF T
  <2> QED  BY <1>2, <1>3, NaturalSets
<1>5. QED  BY <1>1, <1>4

\* The recursion over a finite set defines a function.
LEMMA SumExists ==
  ASSUME NEW S, IsFiniteSet(S), NEW f, Maps(f, S, Int)
  PROVE  \E g \in [SUBSET S -> Int] : IsSum(f, g, S)
<1> DEFINE Upto(g, n) ==
             \A s \in SUBSET S : Cardinality(s) <= n => g[s] = SumStep(f, g, s)
           T == {n \in Nat : \E g \in [SUBSET S -> Int] : Upto(g, n)}
<1>1. \A s \in SUBSET S : IsFiniteSet(s) /\ Cardinality(s) \in Nat
  BY FS_Subset, FS_CardinalityType
<1>2. 0 \in T
  <2> DEFINE zero == [s \in SUBSET S |-> 0]
  <2>1. \A s \in SUBSET S : Cardinality(s) <= 0 => s = {}
    BY <1>1, FS_EmptySet
  <2>2. Upto(zero, 0)  BY <2>1 DEF SumStep
  <2>3. zero \in [SUBSET S -> Int]  OBVIOUS
  <2>4. QED  BY <2>2, <2>3
<1>3. ASSUME NEW n \in Nat, n \in T PROVE n + 1 \in T
  <2>1. PICK g \in [SUBSET S -> Int] : Upto(g, n)  BY <1>3
  <2> DEFINE h == [s \in SUBSET S |-> SumStep(f, g, s)]
  <2>2. ASSUME NEW s \in SUBSET S, s # {}
        PROVE  /\ Chosen(s) \in S /\ s \ {Chosen(s)} \in SUBSET S
               /\ Cardinality(s \ {Chosen(s)}) = Cardinality(s) - 1
    <3>1. Chosen(s) \in s  BY <2>2 DEF Chosen
    <3>2. QED  BY <1>1, <3>1, FS_RemoveElement
  <2>3. h \in [SUBSET S -> Int]  BY <2>2 DEF SumStep, Maps
  <2>4. \A s \in SUBSET S : Cardinality(s) <= n => h[s] = g[s]  BY <2>1
  <2>5. ASSUME NEW s \in SUBSET S, Cardinality(s) <= n + 1
        PROVE  h[s] = SumStep(f, h, s)
    <3>1. CASE s = {}  BY <3>1 DEF SumStep
    <3>2. CASE s # {}
      <4>1. Cardinality(s \ {Chosen(s)}) <= n  BY <1>1, <2>2, <2>5, <3>2
      <4>2. h[s \ {Chosen(s)}] = g[s \ {Chosen(s)}]  BY <2>2, <2>4, <3>2, <4>1
      <4>3. QED  BY <3>2, <4>2 DEF SumStep
    <3>3. QED  BY <3>1, <3>2
  <2>6. Upto(h, n + 1)  BY <2>5
  <2>7. QED
    <3> HIDE DEF h, Upto
    <3> QED  BY <2>3, <2>6
<1>4. Nat \subseteq T
  <2> HIDE DEF T
  <2> QED  BY <1>2, <1>3, NaturalSets
<1>5. PICK g \in [SUBSET S -> Int] : Upto(g, Cardinality(S))
  BY <1>1, <1>4
<1>6. \A s \in SUBSET S : Cardinality(s) <= Cardinality(S)  BY FS_Subset
<1>7. \A s \in SUBSET S : g[s] = SumStep(f, g, s)  BY <1>5, <1>6
<1>8. g = [s \in SUBSET S |-> g[s]]  OBVIOUS
<1>9. QED  BY <1>7, <1>8 DEF IsSum

\* The sum over a finite set is what the recursion computes of it.
LEMMA SumDefined ==
  ASSUME NEW S, IsFiniteSet(S), NEW f, Maps(f, S, Int)
  PROVE  \E g \in [SUBSET S -> Int] : IsSum(f, g, S) /\ SumOf(f, S) = g[S]
<1>1. SumOf(f, S) = (CHOOSE g : g = [s \in SUBSET S |->
        IF s = {} THEN 0 ELSE f[Chosen(s)] + g[s \ {Chosen(s)}]])[S]
  BY Zenon DEF SumOf, MapThenSumSet, MapThenFoldSet, Chosen
<1>2. SumOf(f, S) = (CHOOSE g : IsSum(f, g, S))[S]
  BY <1>1, Zenon DEF IsSum, SumStep
<1>3. PICK g : g = CHOOSE h : IsSum(f, h, S)  OBVIOUS
<1>4. IsSum(f, g, S)  BY <1>3, SumExists
<1>5. PICK h \in [SUBSET S -> Int] : IsSum(f, h, S)  BY SumExists
<1>6. \A s \in SUBSET S : g[s] = h[s]
  <2> DEFINE P == {s \in SUBSET S : g[s] = h[s]}
  <2>1. ASSUME NEW s \in SUBSET S, \A x \in s : s \ {x} \in P PROVE s \in P
    <3>1. CASE s = {}  BY <1>4, <1>5, <3>1 DEF IsSum, SumStep
    <3>2. CASE s # {}
      <4>1. Chosen(s) \in s  BY <3>2 DEF Chosen
      <4>2. g[s \ {Chosen(s)}] = h[s \ {Chosen(s)}]  BY <2>1, <4>1
      <4>3. QED  BY <1>4, <1>5, <4>2 DEF IsSum, SumStep
    <3>3. QED  BY <3>1, <3>2
  <2>2. \A s \in SUBSET S : s \in P
    <3>1. \A s \in SUBSET S : (\A x \in s : s \ {x} \in P) => s \in P  BY <2>1
    <3> HIDE DEF P
    <3>2. QED  BY <3>1, SubsetInduction
  <2>3. QED  BY <2>2
<1>7. g \in [SUBSET S -> Int]
  <2>1. DOMAIN g = SUBSET S /\ g = [s \in SUBSET S |-> g[s]]  BY <1>4 DEF IsSum
  <2>2. \A s \in SUBSET S : g[s] \in Int  BY <1>6
  <2>3. QED  BY <2>1, <2>2
<1>8. QED  BY <1>2, <1>3, <1>4, <1>7

\* Of the sets over which a sum is taken only the values count.
LEMMA SumsAgree ==
  ASSUME NEW S, IsFiniteSet(S), NEW R, NEW T, S \subseteq R, S \subseteq T,
         NEW f, NEW g, NEW h, NEW k, IsSum(f, h, R), IsSum(g, k, T),
         \A x \in S : f[x] = g[x]
  PROVE  h[S] = k[S]
<1> DEFINE P == {s \in SUBSET S : h[s] = k[s]}
<1>1. ASSUME NEW s \in SUBSET S, \A x \in s : s \ {x} \in P PROVE s \in P
  <2>1. h[s] = SumStep(f, h, s)  BY DEF IsSum
  <2>2. k[s] = SumStep(g, k, s)  BY DEF IsSum
  <2>3. CASE s = {}  BY <2>1, <2>2, <2>3 DEF SumStep
  <2>4. CASE s # {}
    <3>1. Chosen(s) \in s  BY <2>4 DEF Chosen
    <3>2. /\ f[Chosen(s)] = g[Chosen(s)]
          /\ h[s \ {Chosen(s)}] = k[s \ {Chosen(s)}]
      BY <1>1, <3>1
    <3>3. QED  BY <2>1, <2>2, <2>4, <3>2 DEF SumStep
  <2>5. QED  BY <2>3, <2>4
<1>2. \A s \in SUBSET S : s \in P
  <2>1. \A s \in SUBSET S : (\A x \in s : s \ {x} \in P) => s \in P  BY <1>1
  <2> HIDE DEF P
  <2>2. QED  BY <2>1, SubsetInduction
<1>3. QED  BY <1>2

\* A sum does not depend on the order: whichever member is taken away, what is left is
\* the sum of the others.
LEMMA SumOfOthers ==
  ASSUME NEW S, IsFiniteSet(S), NEW f, NEW g \in [SUBSET S -> Int], IsSum(f, g, S),
         Maps(f, S, Int)
  PROVE  SumsOthers(f, g, S)
<1> DEFINE P == {s \in SUBSET S : \A x \in s : g[s] = g[s \ {x}] + f[x]}
<1>1. ASSUME NEW s \in SUBSET S, \A x \in s : s \ {x} \in P PROVE s \in P
  <2> SUFFICES ASSUME NEW x \in s PROVE g[s] = g[s \ {x}] + f[x]  OBVIOUS
  <2>1. PICK y : y = Chosen(s)  OBVIOUS
  <2>2. y \in s  BY <2>1 DEF Chosen
  <2>3. g[s] = f[y] + g[s \ {y}]  BY <2>1 DEF IsSum, SumStep
  <2>4. CASE x = y
    <3>1. g[s \ {x}] \in Int /\ f[x] \in Int  BY DEF Maps
    <3>2. QED  BY <2>3, <2>4, <3>1
  <2>5. CASE x # y
    <3>1. x \in s \ {y} /\ y \in s \ {x}  BY <2>2, <2>5
    <3>2. g[s \ {y}] = g[(s \ {y}) \ {x}] + f[x]  BY <1>1, <2>2, <3>1
    <3>3. g[s \ {x}] = g[(s \ {x}) \ {y}] + f[y]  BY <1>1, <3>1
    <3>4. (s \ {y}) \ {x} = (s \ {x}) \ {y}  OBVIOUS
    <3>5. PICK rest : rest = g[(s \ {x}) \ {y}]  OBVIOUS
    <3>6. rest \in Int /\ f[x] \in Int /\ f[y] \in Int
      <4>1. (s \ {x}) \ {y} \in SUBSET S /\ x \in S /\ y \in S  BY <2>2
      <4>2. QED  BY <3>5, <4>1 DEF Maps
    <3>7. g[s \ {y}] = rest + f[x] /\ g[s \ {x}] = rest + f[y]
      BY <3>2, <3>3, <3>4, <3>5
    <3>8. g[s] = f[y] + (rest + f[x])  BY <2>3, <3>7
    <3>9. QED  BY <3>6, <3>7, <3>8
  <2>6. QED  BY <2>4, <2>5
<1>2. \A s \in SUBSET S : s \in P
  <2>1. \A s \in SUBSET S : (\A x \in s : s \ {x} \in P) => s \in P  BY <1>1
  <2> HIDE DEF P
  <2>2. QED  BY <2>1, SubsetInduction
<1>3. QED  BY <1>2 DEF SumsOthers

\* The sum over the empty set is zero.
LEMMA SumOfNone == \A f : SumOf(f, {}) = 0
<1> SUFFICES ASSUME NEW f PROVE SumOf(f, {}) = 0  OBVIOUS
<1>1. PICK g : IsSum(f, g, {}) /\ SumOf(f, {}) = g[{}]  BY FS_EmptySet, SumDefined DEF Maps
<1>2. QED  BY <1>1 DEF IsSum, SumStep

\* A sum of natural numbers is a natural number.
LEMMA SumTyped ==
  ASSUME NEW S, IsFiniteSet(S), NEW f, Maps(f, S, Nat)
  PROVE  SumOf(f, S) \in Nat
<1>1. PICK g \in [SUBSET S -> Int] : IsSum(f, g, S) /\ SumOf(f, S) = g[S]
  <2>1. Maps(f, S, Int)  BY DEF Maps
  <2>2. QED  BY <2>1, SumDefined
<1> DEFINE P == {s \in SUBSET S : g[s] \in Nat}
<1>2. ASSUME NEW s \in SUBSET S, \A x \in s : s \ {x} \in P PROVE s \in P
  <2>1. CASE s = {}  BY <1>1, <2>1 DEF IsSum, SumStep
  <2>2. CASE s # {}
    <3>1. Chosen(s) \in s  BY <2>2 DEF Chosen
    <3>2. Chosen(s) \in S /\ s \ {Chosen(s)} \in P  BY <1>2, <3>1
    <3>3. f[Chosen(s)] \in Nat /\ g[s \ {Chosen(s)}] \in Nat  BY <3>2 DEF Maps
    <3>4. g[s] = f[Chosen(s)] + g[s \ {Chosen(s)}]  BY <1>1, <2>2 DEF IsSum, SumStep
    <3>5. QED  BY <3>3, <3>4
  <2>3. QED  BY <2>1, <2>2
<1>3. \A s \in SUBSET S : s \in P
  <2>1. \A s \in SUBSET S : (\A x \in s : s \ {x} \in P) => s \in P  BY <1>2
  <2> HIDE DEF P
  <2>2. QED  BY <2>1, SubsetInduction
<1>4. QED  BY <1>1, <1>3

\* Two functions that agree on a set have the same sum over it.
LEMMA SumSame ==
  ASSUME NEW S, IsFiniteSet(S), NEW f, NEW g,
         Maps(f, S, Int), \A x \in S : f[x] = g[x]
  PROVE  SumOf(f, S) = SumOf(g, S)
<1>1. Maps(g, S, Int)  BY DEF Maps
<1>2. PICK h : IsSum(f, h, S) /\ SumOf(f, S) = h[S]  BY SumDefined
<1>3. PICK k : IsSum(g, k, S) /\ SumOf(g, S) = k[S]  BY <1>1, SumDefined
<1>4. QED  BY <1>2, <1>3, SumsAgree

\* A new member adds its value to the sum.
THEOREM SumAdds ==
  ASSUME NEW S, IsFiniteSet(S), NEW f, NEW x, x \notin S,
         Maps(f, S \cup {x}, Int)
  PROVE  SumOf(f, S \cup {x}) = SumOf(f, S) + f[x]
<1>1. PICK T : T = S \cup {x}  OBVIOUS
<1>2. IsFiniteSet(T) /\ Maps(f, T, Int) /\ x \in T /\ T \ {x} = S /\ S \subseteq T
  BY <1>1, FS_AddElement
<1>3. PICK h \in [SUBSET T -> Int] : IsSum(f, h, T) /\ SumOf(f, T) = h[T]
  BY <1>2, SumDefined
<1>4. PICK k : IsSum(f, k, S) /\ SumOf(f, S) = k[S]
  <2>1. Maps(f, S, Int)  BY DEF Maps
  <2>2. QED  BY <2>1, SumDefined
<1>5. h[T] = h[T \ {x}] + f[x]
  <2>1. SumsOthers(f, h, T)  BY <1>2, <1>3, SumOfOthers
  <2>2. QED  BY <1>2, <2>1 DEF SumsOthers
<1>6. h[S] = k[S]  BY <1>2, <1>3, <1>4, SumsAgree
<1>7. QED  BY <1>1, <1>2, <1>3, <1>4, <1>5, <1>6

\* A sum of zeros is zero.
LEMMA SumOfZeros ==
  ASSUME NEW S, IsFiniteSet(S), NEW f, \A x \in S : f[x] = 0
  PROVE  SumOf(f, S) = 0
<1>1. PICK g \in [SUBSET S -> Int] : IsSum(f, g, S) /\ SumOf(f, S) = g[S]
  <2>1. Maps(f, S, Int)  BY DEF Maps
  <2>2. QED  BY <2>1, SumDefined
<1> DEFINE P == {s \in SUBSET S : g[s] = 0}
<1>2. ASSUME NEW s \in SUBSET S, \A x \in s : s \ {x} \in P PROVE s \in P
  <2>1. CASE s = {}  BY <1>1, <2>1 DEF IsSum, SumStep
  <2>2. CASE s # {}
    <3>1. Chosen(s) \in s  BY <2>2 DEF Chosen
    <3>2. f[Chosen(s)] = 0 /\ g[s \ {Chosen(s)}] = 0  BY <1>2, <3>1
    <3>3. g[s] = f[Chosen(s)] + g[s \ {Chosen(s)}]  BY <1>1, <2>2 DEF IsSum, SumStep
    <3>4. QED  BY <3>2, <3>3
  <2>3. QED  BY <2>1, <2>2
<1>3. \A s \in SUBSET S : s \in P
  <2>1. \A s \in SUBSET S : (\A x \in s : s \ {x} \in P) => s \in P  BY <1>2
  <2> HIDE DEF P
  <2>2. QED  BY <2>1, SubsetInduction
<1>4. QED  BY <1>1, <1>3

\* A sum with one term that counts is that term.
LEMMA SumOfOne ==
  ASSUME NEW S, IsFiniteSet(S), NEW f, NEW x \in S, f[x] \in Int,
         \A y \in S \ {x} : f[y] = 0
  PROVE  SumOf(f, S) = f[x]
<1>1. PICK T : T = S \ {x}  OBVIOUS
<1>2. IsFiniteSet(T) /\ x \notin T /\ S = T \cup {x}  BY <1>1, FS_RemoveElement
<1>3. Maps(f, T \cup {x}, Int)  BY <1>1 DEF Maps
<1>4. SumOf(f, T \cup {x}) = SumOf(f, T) + f[x]  BY <1>2, <1>3, SumAdds
<1>5. SumOf(f, T) = 0  BY <1>1, <1>2, SumOfZeros
<1>6. QED  BY <1>2, <1>4, <1>5

\* A sum grows with its terms.
LEMMA SumGrows ==
  ASSUME NEW S, IsFiniteSet(S), NEW f, NEW g, Maps(f, S, Int), Maps(g, S, Int),
         \A x \in S : f[x] <= g[x], NEW y \in S, f[y] < g[y]
  PROVE  SumOf(f, S) < SumOf(g, S)
<1>1. PICK h \in [SUBSET S -> Int] : IsSum(f, h, S) /\ SumOf(f, S) = h[S]  BY SumDefined
<1>2. PICK k \in [SUBSET S -> Int] : IsSum(g, k, S) /\ SumOf(g, S) = k[S]  BY SumDefined
<1> DEFINE P == {s \in SUBSET S : h[s] <= k[s]}
<1>3. ASSUME NEW s \in SUBSET S, \A x \in s : s \ {x} \in P PROVE s \in P
  <2>1. CASE s = {}  BY <1>1, <1>2, <2>1 DEF IsSum, SumStep
  <2>2. CASE s # {}
    <3>1. PICK x : x = Chosen(s)  OBVIOUS
    <3>2. x \in s /\ x \in S  BY <2>2, <3>1 DEF Chosen
    <3>3. PICK t : t = s \ {x}  OBVIOUS
    <3>4. h[t] <= k[t] /\ f[x] <= g[x]  BY <1>3, <3>2, <3>3
    <3>5. h[t] \in Int /\ k[t] \in Int /\ f[x] \in Int /\ g[x] \in Int
      BY <3>2, <3>3 DEF Maps
    <3>6. h[s] = f[x] + h[t] /\ k[s] = g[x] + k[t]
      BY <1>1, <1>2, <2>2, <3>1, <3>3 DEF IsSum, SumStep
    <3>7. h[s] <= k[s]  BY <3>4, <3>5, <3>6
    <3>8. QED  BY <3>7
  <2>3. QED  BY <2>1, <2>2
<1>4. \A s \in SUBSET S : s \in P
  <2>1. \A s \in SUBSET S : (\A x \in s : s \ {x} \in P) => s \in P  BY <1>3
  <2> HIDE DEF P
  <2>2. QED  BY <2>1, SubsetInduction
<1>5. PICK t : t = S \ {y}  OBVIOUS
<1>6. h[t] <= k[t] /\ t \in SUBSET S  BY <1>4, <1>5
<1>7. h[S] = h[t] + f[y]
  <2>1. SumsOthers(f, h, S)  BY <1>1, SumOfOthers
  <2>2. QED  BY <1>5, <2>1 DEF SumsOthers
<1>8. k[S] = k[t] + g[y]
  <2>1. SumsOthers(g, k, S)  BY <1>2, SumOfOthers
  <2>2. QED  BY <1>5, <2>1 DEF SumsOthers
<1>9. h[t] \in Int /\ k[t] \in Int /\ f[y] \in Int /\ g[y] \in Int  BY <1>6 DEF Maps
<1>10. QED  BY <1>1, <1>2, <1>6, <1>7, <1>8, <1>9

-----------------------------------------------------------------------------
(* Sets in order.                                                          *)

\* A relation that ranks the members of S without ties.
Orders(R, S) ==
  /\ \A x \in S : <<x, x>> \notin R
  /\ \A x, y \in S : x # y => <<x, y>> \in R \/ <<y, x>> \in R
  /\ \A x, y, z \in S : <<x, y>> \in R /\ <<y, z>> \in R => <<x, z>> \in R

\* q lists the members of S in the order of R.
Lists(q, S, R) ==
  /\ q \in [1 .. Cardinality(S) -> S]
  /\ \A i, j \in DOMAIN q : i < j => <<q[i], q[j]>> \in R

\* One member of a finite set comes after all the others.
LEMMA LastExists ==
  ASSUME NEW S, IsFiniteSet(S), S # {}, NEW R, Orders(R, S)
  PROVE  \E m \in S : \A x \in S \ {m} : <<x, m>> \in R
<1> DEFINE P == {s \in SUBSET S : s = {} \/ \E m \in s : \A x \in s \ {m} : <<x, m>> \in R}
<1>1. ASSUME NEW s \in SUBSET S, \A x \in s : s \ {x} \in P PROVE s \in P
  <2>1. SUFFICES ASSUME NEW y \in s PROVE \E m \in s : \A x \in s \ {m} : <<x, m>> \in R
    OBVIOUS
  <2>2. CASE s \ {y} = {}  BY <2>2
  <2>3. CASE s \ {y} # {}
    <3>1. s \ {y} \in P  BY <1>1
    <3>2. PICK m \in s \ {y} : \A x \in (s \ {y}) \ {m} : <<x, m>> \in R  BY <2>3, <3>1
    <3>3. CASE <<y, m>> \in R  BY <3>2, <3>3
    <3>4. CASE <<m, y>> \in R
      <4>1. \A x \in s \ {y} : <<x, y>> \in R  BY <3>2, <3>4 DEF Orders
      <4>2. QED  BY <4>1
    <3>5. QED  BY <3>2, <3>3, <3>4 DEF Orders
  <2>4. QED  BY <2>2, <2>3
<1>2. \A s \in SUBSET S : s \in P
  <2>1. \A s \in SUBSET S : (\A x \in s : s \ {x} \in P) => s \in P  BY <1>1
  <2> HIDE DEF P
  <2>2. QED  BY <2>1, SubsetInduction
<1>3. S \in P  BY <1>2
<1>4. QED  BY <1>3

\* A finite set can be listed in order.
LEMMA ListExists ==
  ASSUME NEW S, IsFiniteSet(S), NEW R, Orders(R, S)
  PROVE  \E q : Lists(q, S, R)
<1> DEFINE P == {s \in SUBSET S : \E q : Lists(q, s, R)}
<1>1. ASSUME NEW s \in SUBSET S, \A x \in s : s \ {x} \in P PROVE s \in P
  <2>1. IsFiniteSet(s) /\ Cardinality(s) \in Nat  BY FS_Subset, FS_CardinalityType
  <2>2. CASE s = {}
    <3>1. Cardinality(s) = 0  BY <2>2, FS_EmptySet
    <3>2. Lists([i \in 1 .. 0 |-> i], s, R)  BY <3>1 DEF Lists
    <3>3. QED  BY <3>2
  <2>3. CASE s # {}
    <3>1. PICK m \in s : \A x \in s \ {m} : <<x, m>> \in R
      <4>1. Orders(R, s)  BY DEF Orders
      <4>2. QED  BY <2>1, <2>3, <4>1, LastExists
    <3>2. PICK n : n = Cardinality(s)  OBVIOUS
    <3>3. n \in Nat \ {0} /\ Cardinality(s \ {m}) = n - 1
      BY <2>1, <2>3, <3>2, FS_EmptySet, FS_RemoveElement
    <3>4. PICK q : Lists(q, s \ {m}, R)  BY <1>1
    <3>5. q \in [1 .. n - 1 -> s \ {m}] /\ \A i, j \in 1 .. n - 1 : i < j => <<q[i], q[j]>> \in R
      BY <3>3, <3>4 DEF Lists
    <3> DEFINE r == [i \in 1 .. n |-> IF i = n THEN m ELSE q[i]]
    <3>6. r \in [1 .. n -> s]  BY <3>3, <3>5
    <3>7. \A i, j \in 1 .. n : i < j => <<r[i], r[j]>> \in R  BY <3>1, <3>3, <3>5
    <3>8. Lists(r, s, R)  BY <3>2, <3>6, <3>7 DEF Lists
    <3>9. QED  BY <3>8
  <2>4. QED  BY <2>2, <2>3
<1>2. \A s \in SUBSET S : s \in P
  <2>1. \A s \in SUBSET S : (\A x \in s : s \ {x} \in P) => s \in P  BY <1>1
  <2> HIDE DEF P
  <2>2. QED  BY <2>1, SubsetInduction
<1>3. S \in P  BY <1>2
<1>4. QED  BY <1>3

\* In a list, as many members come before one as its place says.
LEMMA ListRanks ==
  ASSUME NEW S, IsFiniteSet(S), NEW R, Orders(R, S), NEW q, Lists(q, S, R)
  PROVE  /\ IsInjective(q) /\ ToSet(q) = S
         /\ q \in Seq(S) /\ Len(q) = Cardinality(S)
         /\ \A i \in DOMAIN q : Cardinality({y \in S : <<y, q[i]>> \in R}) = i - 1
<1>1. PICK n \in Nat : n = Cardinality(S)  BY FS_CardinalityType
<1>2. q \in [1 .. n -> S] /\ DOMAIN q = 1 .. n  BY <1>1 DEF Lists
<1>3. \A i, j \in 1 .. n : i < j => <<q[i], q[j]>> \in R  BY <1>2 DEF Lists
<1>4. IsInjective(q)
  <2>1. SUFFICES ASSUME NEW i \in 1 .. n, NEW j \in 1 .. n, q[i] = q[j], i < j PROVE FALSE
    BY <1>2 DEF IsInjective
  <2>2. <<q[i], q[j]>> \in R /\ q[i] \in S  BY <1>2, <1>3, <2>1
  <2>3. QED  BY <2>1, <2>2 DEF Orders
<1>5. ToSet(q) = S
  <2>1. q \in Injection(1 .. n, S)  BY <1>2, <1>4 DEF Injection, IsInjective
  <2>2. IsFiniteSet(1 .. n) /\ Cardinality(1 .. n) = n  BY FS_Interval
  <2>3. q \in Surjection(1 .. n, S)  BY <1>1, <2>1, <2>2, FS_Injection
  <2>4. QED  BY <1>2, <2>3 DEF Surjection, ToSet
<1>6. q \in Seq(S) /\ Len(q) = n  BY <1>2
<1>7. ASSUME NEW i \in 1 .. n PROVE Cardinality({y \in S : <<y, q[i]>> \in R}) = i - 1
  <2>1. PICK B : B = {y \in S : <<y, q[i]>> \in R}  OBVIOUS
  <2>2. PICK f : f = [k \in 1 .. i - 1 |-> q[k]]  OBVIOUS
  <2>3. \A k \in 1 .. i - 1 : k \in 1 .. n /\ k < i  BY <1>1, <1>7
  <2>4. \A k \in 1 .. i - 1 : f[k] \in B  BY <1>2, <1>3, <1>7, <2>1, <2>2, <2>3
  <2>5. \A y \in B : \E k \in 1 .. i - 1 : f[k] = y
    <3>1. SUFFICES ASSUME NEW y \in B PROVE \E k \in 1 .. i - 1 : f[k] = y  OBVIOUS
    <3>2. PICK k \in 1 .. n : q[k] = y  BY <1>2, <1>5, <2>1, <3>1 DEF ToSet
    <3>3. <<y, q[i]>> \in R /\ y \in S  BY <2>1, <3>1
    <3>4. k # i  BY <3>2, <3>3 DEF Orders
    <3>5. ~(i < k)  BY <1>3, <3>2, <3>3, <1>7, <1>2 DEF Orders
    <3>6. k \in 1 .. i - 1  BY <1>1, <1>7, <3>4, <3>5
    <3>7. QED  BY <2>2, <3>2, <3>6
  <2>6. f \in Surjection(1 .. i - 1, B)
    <3>1. f \in [1 .. i - 1 -> B]  BY <2>2, <2>4
    <3>2. QED  BY <2>5, <3>1 DEF Surjection
  <2>7. \A k, l \in 1 .. i - 1 : f[k] = f[l] => k = l
    BY <1>2, <1>4, <2>2, <2>3 DEF IsInjective
  <2>8. f \in Injection(1 .. i - 1, B)
    BY <2>6, <2>7 DEF Surjection, Injection, IsInjective
  <2>9. IsFiniteSet(1 .. i - 1) /\ Cardinality(1 .. i - 1) = i - 1
    BY <1>7, FS_Interval
  <2>10. f \in Bijection(1 .. i - 1, B)  BY <2>6, <2>8 DEF Bijection
  <2>11. Cardinality(B) = i - 1  BY <2>9, <2>10, FS_Bijection DEF ExistsBijection
  <2>12. QED  BY <2>1, <2>11
<1>8. QED  BY <1>1, <1>2, <1>4, <1>5, <1>6, <1>7

\* InOrder is the list there is.
LEMMA ListIsInOrder ==
  ASSUME NEW S, IsFiniteSet(S), NEW R, Orders(R, S), NEW q, Lists(q, S, R)
  PROVE  q = InOrder(S, R)
<1>1. PICK n \in Nat : n = Cardinality(S)  BY FS_CardinalityType
<1>2. /\ ToSet(q) = S /\ q \in [1 .. n -> S]
      /\ \A i \in 1 .. n : Cardinality({y \in S : <<y, q[i]>> \in R}) = i - 1
  BY <1>1, ListRanks DEF Lists
<1>3. ASSUME NEW i \in 1 .. n
      PROVE  q[i] = CHOOSE x \in S : Cardinality({y \in S : <<y, x>> \in R}) = i - 1
  <2>1. q[i] \in S /\ Cardinality({y \in S : <<y, q[i]>> \in R}) = i - 1  BY <1>2
  <2>2. ASSUME NEW x \in S, Cardinality({y \in S : <<y, x>> \in R}) = i - 1 PROVE x = q[i]
    <3>1. PICK j \in 1 .. n : q[j] = x  BY <1>2 DEF ToSet
    <3>2. Cardinality({y \in S : <<y, q[j]>> \in R}) = j - 1  BY <1>2
    <3>3. i - 1 = j - 1  BY <2>2, <3>1, <3>2
    <3>4. QED  BY <3>1, <3>3
  <2>3. QED  BY <2>1, <2>2
<1>4. InOrder(S, R) =
        [i \in 1 .. n |-> CHOOSE x \in S : Cardinality({y \in S : <<y, x>> \in R}) = i - 1]
  BY <1>1 DEF InOrder
<1>5. q = [i \in 1 .. n |-> q[i]]  BY <1>2
<1>6. QED  BY <1>3, <1>4, <1>5

\* InOrder has each member once, in order.
THEOREM InOrderLists ==
  ASSUME NEW S, IsFiniteSet(S), NEW R, Orders(R, S)
  PROVE  /\ Lists(InOrder(S, R), S, R)
         /\ IsInjective(InOrder(S, R)) /\ ToSet(InOrder(S, R)) = S
         /\ InOrder(S, R) \in Seq(S) /\ Len(InOrder(S, R)) = Cardinality(S)
         /\ \A i \in DOMAIN InOrder(S, R) :
              Cardinality({y \in S : <<y, InOrder(S, R)[i]>> \in R}) = i - 1
<1>1. PICK q : Lists(q, S, R)  BY ListExists
<1>2. q = InOrder(S, R)  BY <1>1, ListIsInOrder
<1>3. QED  BY <1>1, <1>2, ListRanks

\* Numbers in ascending order.
LEMMA AscendingLists ==
  ASSUME NEW S \in SUBSET Nat, IsFiniteSet(S)
  PROVE  /\ IsInjective(Ascending(S)) /\ ToSet(Ascending(S)) = S
         /\ Ascending(S) \in Seq(S) /\ Len(Ascending(S)) = Cardinality(S)
         /\ \A i, j \in 1 .. Len(Ascending(S)) : i < j => Ascending(S)[i] < Ascending(S)[j]
<1>1. PICK R : R = {p \in S \X S : p[1] < p[2]}  OBVIOUS
<1>2. Orders(R, S)  BY <1>1 DEF Orders
<1>3. Ascending(S) = InOrder(S, R)  BY <1>1 DEF Ascending
<1>4. PICK q : q = InOrder(S, R)  OBVIOUS
<1>5. /\ Lists(q, S, R) /\ IsInjective(q) /\ ToSet(q) = S
      /\ q \in Seq(S) /\ Len(q) = Cardinality(S)
  BY <1>2, <1>4, InOrderLists
<1>6. \A i, j \in 1 .. Len(q) : i < j => q[i] < q[j]
  <2>1. DOMAIN q = 1 .. Len(q)  BY <1>5
  <2>2. \A i, j \in 1 .. Len(q) : i < j => <<q[i], q[j]>> \in R  BY <1>5, <2>1 DEF Lists
  <2>3. QED  BY <1>1, <2>2
<1>7. QED  BY <1>3, <1>4, <1>5, <1>6

\* The numbers from 1 to n in ascending order.
LEMMA AscendingInterval ==
  ASSUME NEW n \in Nat
  PROVE  Ascending(1 .. n) = [i \in 1 .. n |-> i]
<1>1. PICK S : S = 1 .. n  OBVIOUS
<1>2. PICK R : R = {p \in S \X S : p[1] < p[2]}  OBVIOUS
<1>3. Orders(R, S)  BY <1>1, <1>2 DEF Orders
<1>4. IsFiniteSet(S) /\ Cardinality(S) = n  BY <1>1, FS_Interval
<1>5. PICK q : q = [i \in 1 .. n |-> i]  OBVIOUS
<1>6. Lists(q, S, R)  BY <1>1, <1>2, <1>4, <1>5 DEF Lists
<1>7. q = InOrder(S, R)  BY <1>3, <1>4, <1>6, ListIsInOrder
<1>8. Ascending(S) = InOrder(S, R)  BY <1>2 DEF Ascending
<1>9. QED  BY <1>1, <1>5, <1>7, <1>8

\* List k has what is at the places P of list s, in its order.
Picks(k, s, P) ==
  /\ \A n \in P : \E i \in DOMAIN k : k[i] = s[n]
  /\ \A i \in DOMAIN k : \E n \in P : k[i] = s[n]
  /\ \E f \in [DOMAIN k -> P] : /\ \A i \in DOMAIN f : k[i] = s[f[i]]
                             /\ \A i, j \in DOMAIN f : i < j => f[i] < f[j]

\* What is kept of a list is in the list, in its order.
LEMMA KeptRows ==
  ASSUME NEW T, NEW s \in Seq(T), NEW P \in SUBSET DOMAIN s
  PROVE  /\ Kept(s, Ascending(P)) \in Seq(T)
         /\ Len(Kept(s, Ascending(P))) = Cardinality(P) /\ Cardinality(P) \in Nat
         /\ Picks(Kept(s, Ascending(P)), s, P)
<1>1. DOMAIN s = 1 .. Len(s) /\ Len(s) \in Nat  OBVIOUS
<1>2. IsFiniteSet(P) /\ P \in SUBSET Nat
  <2>1. IsFiniteSet(1 .. Len(s))  BY <1>1, FS_Interval
  <2>2. P \in SUBSET (1 .. Len(s))  BY <1>1
  <2>3. QED  BY <1>1, <2>1, <2>2, FS_Subset
<1>3. PICK f : f = Ascending(P)  OBVIOUS
<1>4. PICK n \in Nat : n = Cardinality(P)  BY <1>2, FS_CardinalityType
<1>5. /\ f \in Seq(P) /\ Len(f) = n /\ ToSet(f) = P
      /\ \A i, j \in 1 .. Len(f) : i < j => f[i] < f[j]
  BY <1>2, <1>3, <1>4, AscendingLists
<1>6. f \in [1 .. n -> P] /\ DOMAIN f = 1 .. n  BY <1>5
<1>7. PICK k : k = Kept(s, f)  OBVIOUS
<1>8. k = [i \in 1 .. n |-> s[f[i]]]  BY <1>6, <1>7 DEF Kept
<1>9. \A i \in 1 .. n : s[f[i]] \in T  BY <1>6
<1>10. k \in Seq(T) /\ Len(k) = n  BY <1>8, <1>9
<1>11. \A m \in P : \E i \in 1 .. n : k[i] = s[m]
  <2>1. \A m \in P : \E i \in 1 .. n : f[i] = m  BY <1>5, <1>6 DEF ToSet
  <2>2. QED  BY <1>8, <2>1
<1>12. DOMAIN k = 1 .. n  BY <1>8
<1>13. \E g \in [DOMAIN k -> P] :
         /\ \A i \in DOMAIN g : k[i] = s[g[i]]
         /\ \A i, j \in DOMAIN g : i < j => g[i] < g[j]
  <2>1. f \in [DOMAIN k -> P]  BY <1>6, <1>12
  <2>2. \A i \in DOMAIN f : k[i] = s[f[i]]  BY <1>6, <1>8
  <2>3. \A i, j \in DOMAIN f : i < j => f[i] < f[j]  BY <1>5, <1>6
  <2>4. QED  BY <2>1, <2>2, <2>3
<1>14. k = Kept(s, Ascending(P))  BY <1>3, <1>7
<1>15. k \in Seq(T) /\ Len(k) = Cardinality(P) /\ Cardinality(P) \in Nat
  BY <1>4, <1>10
<1>16. \A m \in P : \E i \in DOMAIN k : k[i] = s[m]  BY <1>11, <1>12
<1>17. \A i \in DOMAIN k : \E m \in P : k[i] = s[m]  BY <1>6, <1>8, <1>12
<1>18. Picks(k, s, P)  BY <1>13, <1>16, <1>17 DEF Picks
<1>19. QED  BY <1>14, <1>15, <1>18

\* A list of which all is kept.
LEMMA KeptAll ==
  ASSUME NEW T, NEW s \in Seq(T)
  PROVE  Kept(s, Ascending(DOMAIN s)) = s
<1>1. PICK n \in Nat : n = Len(s) /\ DOMAIN s = 1 .. n  OBVIOUS
<1>2. Ascending(DOMAIN s) = [i \in 1 .. n |-> i]  BY <1>1, AscendingInterval
<1>3. Kept(s, Ascending(DOMAIN s)) = [i \in 1 .. n |-> s[i]]  BY <1>2 DEF Kept
<1>4. s = [i \in 1 .. n |-> s[i]]  BY <1>1
<1>5. QED  BY <1>3, <1>4

=============================================================================
