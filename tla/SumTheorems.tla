------------------------------ MODULE SumTheorems ------------------------------
(***************************************************************************)
(* What the proofs of the other modules need to know about                 *)
(* SumFunctionOnSet, the sum of f[x] for x in a finite set: of stakes,     *)
(* deposits, bonds, escrows, payments.  The community module defines it by *)
(* a recursive function on the subsets of the set that takes out one       *)
(* chosen element at a time.  The first four lemmas show that this         *)
(* function exists and that any element may be taken out; the others       *)
(* follow from that by induction on the set.                               *)
(*                                                                         *)
(* The library's induction theorems speak of an operator, which the        *)
(* provers cannot instantiate.  SubsetInduction speaks of a set instead:   *)
(* the subsets for which the claim holds.  The last lemma is on sequences.  *)
(***************************************************************************)
EXTENDS Integers, Sequences, Functions, FiniteSetTheorems, WellFoundedInduction, TLAPS

\* A family of subsets that contains U whenever it contains all smaller subsets
\* of U contains the whole set.
LEMMA SubsetInduction ==
    ASSUME NEW S, IsFiniteSet(S), NEW Q,
           \A U \in SUBSET S : (\A V \in SUBSET U : V # U => V \in Q) => U \in Q
    PROVE  S \in Q
<1> DEFINE Bad == {U \in SUBSET S : U \notin Q}
<1>1. IsWellFoundedOn(StrictSubsetOrdering(S), SUBSET S)
  BY FS_StrictSubsetOrderingWellFounded, FS_FiniteSubsetsOfFinite
<1>2. SUFFICES ASSUME Bad # {} PROVE FALSE
  OBVIOUS
<1>3. PICK U \in Bad : \A V \in Bad : <<V, U>> \notin StrictSubsetOrdering(S)
  <2>1. Bad \subseteq SUBSET S
    OBVIOUS
  <2> HIDE DEF Bad
  <2> QED
    BY <1>1, <1>2, <2>1, WFMin
<1>4. \A V \in SUBSET U : V # U => V \in Q
  <2> SUFFICES ASSUME NEW V \in SUBSET U, V # U, V \notin Q PROVE FALSE
    OBVIOUS
  <2>1. <<V, U>> \in StrictSubsetOrdering(S)
    BY DEF StrictSubsetOrdering
  <2> QED
    BY <1>3, <2>1
<1> QED
  BY <1>4

--------------------------------------------------------------------------------
(* The recursive function behind a sum. *)

chosen(U) == CHOOSE x \in U : TRUE
summand(sum, f, U) == IF U = {} THEN 0 ELSE f[chosen(U)] + sum[U \ {chosen(U)}]
SumsUp(sum, f, S) == sum = [U \in SUBSET S |-> summand(sum, f, U)]

\* Induction on the natural numbers, for a set of numbers.
LEMMA NumberInduction ==
    ASSUME NEW Q, 0 \in Q, \A n \in Nat : n \in Q => n + 1 \in Q
    PROVE  Nat \subseteq Q
<1> DEFINE Bad == {n \in Nat : n \notin Q}
<1>1. SUFFICES ASSUME Bad # {} PROVE FALSE
  OBVIOUS
<1>2. PICK n \in Bad : \A m \in Bad : <<m, n>> \notin OpToRel(<, Nat)
  <2>1. Bad \subseteq Nat
    OBVIOUS
  <2> HIDE DEF Bad
  <2> QED
    BY <1>1, <2>1, NatLessThanWellFounded, WFMin
<1>3. ASSUME NEW m \in Bad PROVE ~(m < n)
  BY <1>2 DEF OpToRel
<1>4. n # 0 /\ n \in Nat
  OBVIOUS
<1>5. n - 1 \in Nat /\ n - 1 < n
  BY <1>4
<1>6. n - 1 \in Q
  BY <1>3, <1>5
<1>7. (n - 1) + 1 = n
  BY <1>4
<1> QED
  BY <1>5, <1>6, <1>7

\* There is such a function on the subsets of a finite set: a function on the
\* subsets of at most n elements gives one on those of at most n + 1.
LEMMA SumExists ==
    ASSUME NEW f, NEW S, IsFiniteSet(S)
    PROVE  \E sum : SumsUp(sum, f, S)
<1> DEFINE UpTo(n) == {U \in SUBSET S : Cardinality(U) <= n}
           Q == {n \in Nat : \E sum : sum = [U \in UpTo(n) |-> summand(sum, f, U)]}
<1>1. \A U \in SUBSET S : IsFiniteSet(U) /\ Cardinality(U) \in Nat
  BY FS_Subset, FS_CardinalityType
<1>2. 0 \in Q
  <2> DEFINE zero == [U \in UpTo(0) |-> 0]
  <2>1. \A U \in UpTo(0) : U = {}
    BY <1>1, FS_EmptySet
  <2>2. zero = [U \in UpTo(0) |-> summand(zero, f, U)]
    BY <2>1 DEF summand
  <2> QED
    BY <2>2
<1>3. ASSUME NEW n \in Nat, n \in Q PROVE n + 1 \in Q
  <2>1. PICK sum : sum = [U \in UpTo(n) |-> summand(sum, f, U)]
    BY <1>3
  <2> DEFINE next == [U \in UpTo(n + 1) |-> summand(sum, f, U)]
  <2>2. ASSUME NEW U \in UpTo(n + 1) PROVE summand(next, f, U) = summand(sum, f, U)
    <3>1. CASE U = {}
      BY <3>1 DEF summand
    <3>2. CASE U # {}
      <4> DEFINE V == U \ {chosen(U)}
      <4>1. chosen(U) \in U
        BY <3>2 DEF chosen
      <4>2. Cardinality(V) = Cardinality(U) - 1
        BY <1>1, <4>1, FS_RemoveElement
      <4>3. V \in UpTo(n) /\ V \in UpTo(n + 1)
        BY <1>1, <4>2
      <4>4. next[V] = sum[V]
        BY <2>1, <4>3
      <4> QED
        BY <4>4, <3>2 DEF summand
    <3> QED
      BY <3>1, <3>2
  <2>3. next = [U \in UpTo(n + 1) |-> summand(next, f, U)]
    BY <2>2
  <2>4. \E a : a = [U \in UpTo(n + 1) |-> summand(a, f, U)]
    <3> HIDE DEF next, UpTo
    <3> QED
      BY <2>3
  <2>5. n + 1 \in Nat
    OBVIOUS
  <2> HIDE DEF UpTo
  <2> QED
    BY <2>4, <2>5, Zenon
<1>4. Cardinality(S) \in Q
  <2> HIDE DEF Q
  <2> QED
    BY <1>1, <1>2, <1>3, NumberInduction
<1>5. UpTo(Cardinality(S)) = SUBSET S
  BY <1>1, FS_Subset
<1> QED
  BY <1>4, <1>5 DEF SumsUp

\* Two such functions, for functions f and g that agree on T, agree on T.
LEMMA SumUnique ==
    ASSUME NEW f, NEW g, NEW S, NEW T \in SUBSET S, IsFiniteSet(T), NEW a, NEW b,
           SumsUp(a, f, S), SumsUp(b, g, T), \A x \in T : f[x] = g[x]
    PROVE  a[T] = b[T]
<1> DEFINE Q == {U \in SUBSET T : a[U] = b[U]}
<1>1. ASSUME NEW U \in SUBSET T, \A V \in SUBSET U : V # U => V \in Q
      PROVE  U \in Q
  <2>1. a[U] = summand(a, f, U) /\ b[U] = summand(b, g, U)
    BY DEF SumsUp
  <2>2. CASE U = {}
    BY <2>1, <2>2 DEF summand
  <2>3. CASE U # {}
    <3>1. chosen(U) \in U
      BY <2>3 DEF chosen
    <3>2. U \ {chosen(U)} \in Q
      BY <1>1, <3>1
    <3> QED
      BY <2>1, <2>3, <3>1, <3>2 DEF summand
  <2> QED
    BY <2>2, <2>3
<1>2. T \in Q
  <2> HIDE DEF Q
  <2> QED
    BY <1>1, SubsetInduction
<1> QED
  BY <1>2

\* The sum is the value of that function at the whole set.
LEMMA SumValue ==
    ASSUME NEW f, NEW S, IsFiniteSet(S)
    PROVE  \E sum : SumsUp(sum, f, S) /\ SumFunctionOnSet(f, S) = sum[S]
<1> DEFINE sum == CHOOSE s : SumsUp(s, f, S)
<1>1. SumsUp(sum, f, S)
  BY SumExists
<1>2. SumFunctionOnSet(f, S) = sum[S]
  BY DEF SumFunctionOnSet, FoldFunctionOnSet, MapThenFoldSet, SumsUp, summand, chosen
<1> QED
  BY <1>1, <1>2

--------------------------------------------------------------------------------
(* Sums. *)

\* The empty sum is zero.
LEMMA SumEmpty == ASSUME NEW f PROVE SumFunctionOnSet(f, {}) = 0
<1>1. PICK sum : SumsUp(sum, f, {}) /\ SumFunctionOnSet(f, {}) = sum[{}]
  BY SumValue, FS_EmptySet
<1> QED
  BY <1>1 DEF SumsUp, summand

\* A sum depends on f only through its values on the set.
LEMMA SumAgree ==
    ASSUME NEW f, NEW g, NEW S, IsFiniteSet(S), \A x \in S : f[x] = g[x]
    PROVE  SumFunctionOnSet(f, S) = SumFunctionOnSet(g, S)
<1>1. PICK a : SumsUp(a, f, S) /\ SumFunctionOnSet(f, S) = a[S]
  BY SumValue
<1>2. PICK b : SumsUp(b, g, S) /\ SumFunctionOnSet(g, S) = b[S]
  BY SumValue
<1> QED
  BY <1>1, <1>2, SumUnique

\* The definition's own step: the chosen element is taken out.
LEMMA SumChosen ==
    ASSUME NEW f, NEW S, IsFiniteSet(S), S # {}
    PROVE  /\ chosen(S) \in S
           /\ SumFunctionOnSet(f, S) = f[chosen(S)] + SumFunctionOnSet(f, S \ {chosen(S)})
<1> DEFINE T == S \ {chosen(S)}
<1>1. chosen(S) \in S
  BY DEF chosen
<1>2. IsFiniteSet(T)
  BY FS_Subset
<1>3. PICK a : SumsUp(a, f, S) /\ SumFunctionOnSet(f, S) = a[S]
  BY SumValue
<1>4. PICK b : SumsUp(b, f, T) /\ SumFunctionOnSet(f, T) = b[T]
  BY <1>2, SumValue
<1>5. a[T] = b[T]
  BY <1>2, <1>3, <1>4, SumUnique
<1>6. a[S] = f[chosen(S)] + a[T]
  BY <1>3 DEF SumsUp, summand
<1> QED
  BY <1>1, <1>3, <1>4, <1>5, <1>6

\* A sum of integers is an integer.
LEMMA SumInt ==
    ASSUME NEW f, NEW S, IsFiniteSet(S), \A x \in S : f[x] \in Int
    PROVE  SumFunctionOnSet(f, S) \in Int
<1> DEFINE Q == {U \in SUBSET S : SumFunctionOnSet(f, U) \in Int}
<1>1. ASSUME NEW U \in SUBSET S, \A V \in SUBSET U : V # U => V \in Q PROVE U \in Q
  <2>1. CASE U = {}
    BY <2>1, SumEmpty
  <2>2. CASE U # {}
    <3>1. IsFiniteSet(U)
      BY FS_Subset
    <3>2. chosen(U) \in U /\ SumFunctionOnSet(f, U) = f[chosen(U)] + SumFunctionOnSet(f, U \ {chosen(U)})
      BY <2>2, <3>1, SumChosen
    <3>3. U \ {chosen(U)} \in Q
      BY <1>1, <3>2
    <3> QED
      BY <3>2, <3>3
  <2> QED
    BY <2>1, <2>2
<1>2. S \in Q
  <2> HIDE DEF Q
  <2> QED
    BY <1>1, SubsetInduction
<1> QED
  BY <1>2

\* Any element may be taken out of a sum, not only the chosen one.
LEMMA SumTakeOut ==
    ASSUME NEW f, NEW S, IsFiniteSet(S), \A x \in S : f[x] \in Int, NEW y \in S
    PROVE  SumFunctionOnSet(f, S) = f[y] + SumFunctionOnSet(f, S \ {y})
<1> DEFINE Sum(U) == SumFunctionOnSet(f, U)
           Q == {U \in SUBSET S : \A z \in U : Sum(U) = f[z] + Sum(U \ {z})}
<1>1. ASSUME NEW U \in SUBSET S, \A V \in SUBSET U : V # U => V \in Q, NEW z \in U
      PROVE  Sum(U) = f[z] + Sum(U \ {z})
  <2> DEFINE c == chosen(U)
  <2>1. /\ c \in U
        /\ Sum(U) = f[c] + Sum(U \ {c})
    BY FS_Subset, SumChosen
  <2>2. CASE z = c
    BY <2>1, <2>2
  <2>3. CASE z # c
    <3>1. U \ {c} \in Q /\ U \ {z} \in Q
      BY <1>1, <2>1
    <3>2. Sum(U \ {c}) = f[z] + Sum((U \ {c}) \ {z})
      BY <2>3, <3>1
    <3>3. Sum(U \ {z}) = f[c] + Sum((U \ {z}) \ {c})
      BY <2>1, <2>3, <3>1
    <3>4. (U \ {c}) \ {z} = (U \ {z}) \ {c}
      OBVIOUS
    <3>5. Sum((U \ {z}) \ {c}) \in Int /\ f[c] \in Int /\ f[z] \in Int
      BY <2>1, FS_Subset, SumInt
    <3>6. Sum(U) = f[c] + (f[z] + Sum((U \ {z}) \ {c}))
      BY <2>1, <3>2, <3>4
    <3> HIDE DEF Sum, c
    <3> QED
      BY <3>3, <3>5, <3>6
  <2> QED
    BY <2>2, <2>3
<1>2. S \in Q
  <2>1. \A U \in SUBSET S : (\A V \in SUBSET U : V # U => V \in Q) => U \in Q
    BY <1>1
  <2> HIDE DEF Q
  <2> QED
    BY <2>1, SubsetInduction
<1> QED
  BY <1>2

\* Changing f at one element changes the sum by the difference.
LEMMA SumUpdate ==
    ASSUME NEW f, NEW g, NEW S, IsFiniteSet(S), NEW y \in S,
           \A x \in S : f[x] \in Int /\ g[x] \in Int, \A x \in S \ {y} : g[x] = f[x]
    PROVE  SumFunctionOnSet(g, S) = SumFunctionOnSet(f, S) + g[y] - f[y]
<1>1. SumFunctionOnSet(f, S) = f[y] + SumFunctionOnSet(f, S \ {y})
  BY SumTakeOut
<1>2. SumFunctionOnSet(g, S) = g[y] + SumFunctionOnSet(g, S \ {y})
  BY SumTakeOut
<1>3. IsFiniteSet(S \ {y})
  BY FS_Subset
<1>4. SumFunctionOnSet(f, S \ {y}) = SumFunctionOnSet(g, S \ {y})
  BY <1>3, SumAgree
<1>5. SumFunctionOnSet(f, S \ {y}) \in Int
  BY <1>3, SumInt
<1> QED
  BY <1>1, <1>2, <1>4, <1>5

\* A larger function has a larger sum.
LEMMA SumMonotone ==
    ASSUME NEW f, NEW g, NEW S, IsFiniteSet(S),
           \A x \in S : f[x] \in Int /\ g[x] \in Int /\ f[x] <= g[x]
    PROVE  SumFunctionOnSet(f, S) <= SumFunctionOnSet(g, S)
<1> DEFINE Q == {U \in SUBSET S : SumFunctionOnSet(f, U) <= SumFunctionOnSet(g, U)}
<1>1. ASSUME NEW U \in SUBSET S, \A V \in SUBSET U : V # U => V \in Q PROVE U \in Q
  <2>1. CASE U = {}
    BY <2>1, SumEmpty
  <2>2. CASE U # {}
    <3> DEFINE V == U \ {chosen(U)}
    <3>1. IsFiniteSet(U) /\ IsFiniteSet(V)
      BY FS_Subset
    <3>2. /\ chosen(U) \in U
          /\ SumFunctionOnSet(f, U) = f[chosen(U)] + SumFunctionOnSet(f, V)
          /\ SumFunctionOnSet(g, U) = g[chosen(U)] + SumFunctionOnSet(g, V)
      BY <2>2, <3>1, SumChosen
    <3>3. SumFunctionOnSet(f, V) <= SumFunctionOnSet(g, V)
      BY <1>1, <3>2
    <3>4. SumFunctionOnSet(f, V) \in Int /\ SumFunctionOnSet(g, V) \in Int
      BY <3>1, SumInt
    <3> QED
      BY <3>2, <3>3, <3>4
  <2> QED
    BY <2>1, <2>2
<1>2. S \in Q
  <2> HIDE DEF Q
  <2> QED
    BY <1>1, SubsetInduction
<1> QED
  BY <1>2

\* The sum of a constant.
LEMMA SumConstant ==
    ASSUME NEW f, NEW S, IsFiniteSet(S), NEW c \in Int, \A x \in S : f[x] = c
    PROVE  SumFunctionOnSet(f, S) = Cardinality(S) * c
<1> DEFINE Q == {U \in SUBSET S : SumFunctionOnSet(f, U) = Cardinality(U) * c}
<1>1. ASSUME NEW U \in SUBSET S, \A V \in SUBSET U : V # U => V \in Q PROVE U \in Q
  <2>1. CASE U = {}
    BY <2>1, SumEmpty, FS_EmptySet
  <2>2. CASE U # {}
    <3> DEFINE V == U \ {chosen(U)}
    <3>1. /\ chosen(U) \in U
          /\ SumFunctionOnSet(f, U) = f[chosen(U)] + SumFunctionOnSet(f, V)
      BY <2>2, FS_Subset, SumChosen
    <3>2. SumFunctionOnSet(f, V) = Cardinality(V) * c
      BY <1>1, <3>1
    <3>3. IsFiniteSet(U) /\ Cardinality(U) \in Nat
      BY FS_Subset, FS_CardinalityType
    <3>4. Cardinality(V) = Cardinality(U) - 1
      BY <3>1, <3>3, FS_RemoveElement
    <3>5. \A n \in Int : c + (n - 1) * c = n * c
      OBVIOUS
    <3> HIDE DEF V
    <3>6. f[chosen(U)] = c
      BY <3>1
    <3> QED
      BY <3>1, <3>2, <3>3, <3>4, <3>5, <3>6
  <2> QED
    BY <2>1, <2>2
<1>2. S \in Q
  <2> HIDE DEF Q
  <2> QED
    BY <1>1, SubsetInduction
<1> QED
  BY <1>2

\* A sum of zeros is zero.
LEMMA SumZero ==
    ASSUME NEW f, NEW S, IsFiniteSet(S), \A x \in S : f[x] = 0
    PROVE  SumFunctionOnSet(f, S) = 0
<1>1. SumFunctionOnSet(f, S) = Cardinality(S) * 0
  BY SumConstant
<1> QED
  BY <1>1, FS_CardinalityType

\* A sum of natural numbers is one, and no less than any of its parts.
LEMMA SumNat ==
    ASSUME NEW f, NEW S, IsFiniteSet(S), \A x \in S : f[x] \in Nat
    PROVE  /\ SumFunctionOnSet(f, S) \in Nat
           /\ \A x \in S : f[x] <= SumFunctionOnSet(f, S)
<1> DEFINE zero == [x \in S |-> 0]
<1>1. ASSUME NEW U \in SUBSET S PROVE SumFunctionOnSet(f, U) \in Nat
  <2>1. IsFiniteSet(U)
    BY FS_Subset
  <2>2. SumFunctionOnSet(zero, U) = 0
    BY <2>1, SumZero
  <2>3. SumFunctionOnSet(zero, U) <= SumFunctionOnSet(f, U)
    BY <2>1, SumMonotone
  <2>4. SumFunctionOnSet(f, U) \in Int
    BY <2>1, SumInt
  <2> QED
    BY <2>2, <2>3, <2>4
<1>2. ASSUME NEW x \in S PROVE f[x] <= SumFunctionOnSet(f, S)
  <2>1. SumFunctionOnSet(f, S) = f[x] + SumFunctionOnSet(f, S \ {x})
    BY SumTakeOut
  <2> QED
    BY <1>1, <2>1
<1> QED
  BY <1>1, <1>2

\* The rounded-down average of natural numbers lies between two of them.
LEMMA AverageBetween ==
    ASSUME NEW f, NEW S, IsFiniteSet(S), S # {}, \A x \in S : f[x] \in Nat
    PROVE  LET average == SumFunctionOnSet(f, S) \div Cardinality(S)
           IN  /\ \E x \in S : f[x] <= average
               /\ \E x \in S : f[x] >= average
<1> DEFINE sum == SumFunctionOnSet(f, S)
           n == Cardinality(S)
           average == sum \div n
           level(c) == [x \in S |-> c]
<1>1. sum \in Nat /\ n \in Nat \ {0}
  BY SumNat, FS_CardinalityType, FS_EmptySet
<1>2. average \in Nat /\ n * average <= sum /\ sum < n * average + n
  <2> HIDE DEF sum, n
  <2> QED
    BY <1>1
<1>3. ASSUME NEW c \in Int PROVE SumFunctionOnSet(level(c), S) = n * c
  <2> HIDE DEF n
  <2>1. \A x \in S : level(c)[x] = c
    OBVIOUS
  <2> HIDE DEF level
  <2> QED
    BY <2>1, SumConstant DEF n
<1> HIDE DEF average, n
<1>4. \E x \in S : f[x] <= average
  <2> SUFFICES ASSUME \A x \in S : f[x] >= average + 1 PROVE FALSE
    BY <1>2
  <2> DEFINE g == level(average + 1)
  <2>1. \A x \in S : g[x] \in Int /\ f[x] \in Int /\ g[x] <= f[x]
    BY <1>2
  <2>2. SumFunctionOnSet(g, S) = n * (average + 1)
    <3>1. average + 1 \in Int
      BY <1>2
    <3> HIDE DEF level
    <3> QED
      BY <3>1, <1>3
  <2> HIDE DEF g
  <2>3. n * (average + 1) <= sum
    BY <2>1, <2>2, SumMonotone
  <2> HIDE DEF sum
  <2> QED
    BY <1>1, <1>2, <2>3
<1>5. \E x \in S : f[x] >= average
  <2> SUFFICES ASSUME \A x \in S : f[x] <= average - 1 PROVE FALSE
    BY <1>2
  <2> DEFINE g == level(average - 1)
  <2>1. \A x \in S : g[x] \in Int /\ f[x] \in Int /\ f[x] <= g[x]
    BY <1>2
  <2>2. SumFunctionOnSet(g, S) = n * (average - 1)
    <3>1. average - 1 \in Int
      BY <1>2
    <3> HIDE DEF level
    <3> QED
      BY <3>1, <1>3
  <2> HIDE DEF g
  <2>3. sum <= n * (average - 1)
    BY <2>1, <2>2, SumMonotone
  <2> HIDE DEF sum
  <2> QED
    BY <1>1, <1>2, <2>3
<1> QED
  BY <1>4, <1>5 DEF average, n

\* One more part.
LEMMA SumAdd ==
    ASSUME NEW f, NEW g, NEW S, IsFiniteSet(S), NEW y, y \notin S,
           \A x \in S : f[x] \in Int /\ g[x] = f[x], g[y] \in Int
    PROVE  SumFunctionOnSet(g, S \cup {y}) = SumFunctionOnSet(f, S) + g[y]
<1>1. IsFiniteSet(S \cup {y}) /\ (S \cup {y}) \ {y} = S
  BY FS_AddElement
<1>2. SumFunctionOnSet(g, S \cup {y}) = g[y] + SumFunctionOnSet(g, S)
  BY <1>1, SumTakeOut
<1>3. SumFunctionOnSet(g, S) = SumFunctionOnSet(f, S) /\ SumFunctionOnSet(f, S) \in Int
  BY SumAgree, SumInt
<1> QED
  BY <1>2, <1>3

\* Parts that are each covered by a part of its own of another sum: they are covered
\* together.
LEMMA SumCovered ==
    ASSUME NEW f, NEW S, IsFiniteSet(S), NEW g, NEW T, IsFiniteSet(T), NEW h,
           \A x \in S : f[x] \in Int /\ h[x] \in T /\ f[x] <= g[h[x]],
           \A y \in T : g[y] \in Nat,
           \A x, y \in S : h[x] = h[y] => x = y
    PROVE  SumFunctionOnSet(f, S) <= SumFunctionOnSet(g, T)
<1> DEFINE Rest(U) == T \ {h[x] : x \in U}
           Q == {U \in SUBSET S : SumFunctionOnSet(f, U) + SumFunctionOnSet(g, Rest(U))
                                    <= SumFunctionOnSet(g, T)}
<1>0. ASSUME NEW U \in SUBSET S
      PROVE  /\ IsFiniteSet(U) /\ IsFiniteSet(Rest(U))
             /\ SumFunctionOnSet(f, U) \in Int /\ SumFunctionOnSet(g, Rest(U)) \in Nat
  <2>1. IsFiniteSet(U) /\ IsFiniteSet(Rest(U)) /\ Rest(U) \subseteq T
    BY FS_Subset
  <2> HIDE DEF Rest
  <2> QED
    BY <2>1, SumInt, SumNat
<1>t. SumFunctionOnSet(g, T) \in Nat
  BY SumNat
<1>1. ASSUME NEW U \in SUBSET S, \A V \in SUBSET U : V # U => V \in Q PROVE U \in Q
  <2>1. CASE U = {}
    <3>1. Rest(U) = T
      BY <2>1
    <3> HIDE DEF Rest
    <3> QED
      BY <1>t, <2>1, <3>1, SumEmpty
  <2>2. CASE U # {}
    <3> DEFINE c == chosen(U)
               V == U \ {c}
    <3>1. c \in U /\ SumFunctionOnSet(f, U) = f[c] + SumFunctionOnSet(f, V)
      BY <1>0, <2>2, SumChosen
    <3>2. h[c] \in Rest(V) /\ Rest(V) \ {h[c]} = Rest(U)
      BY <3>1
    <3>3. V \in Q /\ V \in SUBSET S
      BY <1>1, <3>1
    <3>4. Rest(V) \subseteq T
      OBVIOUS
    <3>5. f[c] \in Int /\ f[c] <= g[h[c]] /\ g[h[c]] \in Nat
      BY <3>1
    <3>6. SumFunctionOnSet(f, V) + SumFunctionOnSet(g, Rest(V)) <= SumFunctionOnSet(g, T)
      BY <3>3
    <3> HIDE DEF Rest, c, V
    <3>7. SumFunctionOnSet(g, Rest(V)) = g[h[c]] + SumFunctionOnSet(g, Rest(U))
      BY <1>0, <3>2, <3>3, <3>4, SumTakeOut
    <3>8. /\ SumFunctionOnSet(f, V) \in Int /\ SumFunctionOnSet(g, Rest(V)) \in Nat
          /\ SumFunctionOnSet(g, Rest(U)) \in Nat
      BY <1>0, <3>3
    <3> QED
      BY <1>t, <3>1, <3>5, <3>6, <3>7, <3>8
  <2> QED
    BY <2>1, <2>2
<1>2. S \in Q
  <2> HIDE DEF Q
  <2> QED
    BY <1>1, SubsetInduction
<1>3. SumFunctionOnSet(f, S) + SumFunctionOnSet(g, Rest(S)) <= SumFunctionOnSet(g, T)
  BY <1>2
<1> HIDE DEF Rest
<1> QED
  BY <1>0, <1>3, <1>t

\* A part of a sum and the rest of it.
LEMMA SumSplit ==
    ASSUME NEW f, NEW S, IsFiniteSet(S), \A x \in S : f[x] \in Int, NEW T \in SUBSET S
    PROVE  SumFunctionOnSet(f, S) = SumFunctionOnSet(f, T) + SumFunctionOnSet(f, S \ T)
<1> DEFINE Sum(U) == SumFunctionOnSet(f, U)
           Q == {U \in SUBSET T : Sum(S) = Sum(U) + Sum(S \ U)}
<1>0. ASSUME NEW U \in SUBSET S PROVE IsFiniteSet(U) /\ Sum(U) \in Int
  BY FS_Subset, SumInt
<1>1. ASSUME NEW U \in SUBSET T, \A V \in SUBSET U : V # U => V \in Q PROVE U \in Q
  <2>1. CASE U = {}
    <3>1. S \ U = S /\ Sum(U) = 0
      BY <2>1, SumEmpty
    <3>2. Sum(S) = Sum(U) + Sum(S \ U)
      <4>1. Sum(S) \in Int
        BY <1>0
      <4> HIDE DEF Sum
      <4>2. Sum(S \ U) = Sum(S)
        BY <3>1
      <4>3. Sum(S) = 0 + Sum(S)
        BY <4>1
      <4> QED
        BY <3>1, <4>2, <4>3, Zenon
    <3> QED
      BY <3>2
  <2>2. CASE U # {}
    <3> DEFINE c == chosen(U)
               V == U \ {c}
    <3>1. c \in U /\ Sum(U) = f[c] + Sum(V)
      BY <1>0, <2>2, SumChosen
    <3>2. (S \ V) \ {c} = S \ U /\ c \in S \ V /\ S \ V \in SUBSET S
      BY <3>1
    <3>3. Sum(S) = Sum(V) + Sum(S \ V)
      BY <1>1, <3>1
    <3>4. Sum(S \ V) = f[c] + Sum((S \ V) \ {c})
      <4>1. IsFiniteSet(S \ V) /\ \A x \in S \ V : f[x] \in Int
        BY FS_Subset
      <4> HIDE DEF c, V
      <4> QED
        BY <3>2, <4>1, SumTakeOut
    <3>5. f[c] \in Int /\ Sum(V) \in Int /\ Sum(S \ U) \in Int
      BY <1>0, <3>1
    <3>6. Sum(S \ V) = f[c] + Sum(S \ U)
      BY <3>2, <3>4
    <3> HIDE DEF Sum, c, V
    <3>7. Sum(S) = Sum(U) + Sum(S \ U)
      BY <3>1, <3>3, <3>5, <3>6
    <3> QED
      BY <3>7
  <2> QED
    BY <2>1, <2>2
<1>2. T \in Q
  <2>1. IsFiniteSet(T)
    BY FS_Subset
  <2> HIDE DEF Q
  <2> QED
    BY <1>1, <2>1, SubsetInduction
<1> QED
  BY <1>2

\* Parts in groups, each group covered by a part of its own of another sum.
LEMMA SumGrouped ==
    ASSUME NEW f, NEW S, IsFiniteSet(S), NEW g, NEW T, IsFiniteSet(T), NEW h,
           \A x \in S : f[x] \in Int /\ h[x] \in T,
           \A y \in T : g[y] \in Nat,
           \A y \in T : SumFunctionOnSet(f, {x \in S : h[x] = y}) <= g[y]
    PROVE  SumFunctionOnSet(f, S) <= SumFunctionOnSet(g, T)
<1> DEFINE Of(U) == {x \in S : h[x] \in U}
           Q == {U \in SUBSET T : SumFunctionOnSet(f, Of(U)) <= SumFunctionOnSet(g, U)}
<1>1. ASSUME NEW U \in SUBSET T, \A V \in SUBSET U : V # U => V \in Q PROVE U \in Q
  <2>1. CASE U = {}
    <3>1. Of(U) = {}
      BY <2>1
    <3> HIDE DEF Of
    <3> QED
      BY <2>1, <3>1, SumEmpty
  <2>2. CASE U # {}
    <3> DEFINE c == chosen(U)
               V == U \ {c}
               C == {x \in S : h[x] = c}
    <3>0. IsFiniteSet(U) /\ IsFiniteSet(V) /\ IsFiniteSet(Of(U))
      BY FS_Subset
    <3>1. c \in U /\ c \in T /\ SumFunctionOnSet(g, U) = g[c] + SumFunctionOnSet(g, V)
      BY <2>2, <3>0, SumChosen
    <3>2. C \in SUBSET Of(U) /\ Of(U) \ C = Of(V) /\ Of(U) \subseteq S
      BY <3>1
    <3>3. SumFunctionOnSet(f, Of(V)) <= SumFunctionOnSet(g, V)
      BY <1>1, <3>1
    <3>4. SumFunctionOnSet(f, C) <= g[c] /\ g[c] \in Nat
      BY <3>1
    <3>a. \A x \in Of(U) : f[x] \in Int
      BY <3>2
    <3>b. SumFunctionOnSet(g, V) \in Nat
      <4>1. \A y \in V : g[y] \in Nat
        OBVIOUS
      <4> HIDE DEF V
      <4> QED
        BY <3>0, <4>1, SumNat
    <3> HIDE DEF Of, c, V, C
    <3>5. SumFunctionOnSet(f, Of(U)) = SumFunctionOnSet(f, C) + SumFunctionOnSet(f, Of(V))
      <4>1. SumFunctionOnSet(f, Of(U))
              = SumFunctionOnSet(f, C) + SumFunctionOnSet(f, Of(U) \ C)
        BY <3>0, <3>2, <3>a, SumSplit
      <4> QED
        BY <3>2, <4>1
    <3>6. SumFunctionOnSet(f, C) \in Int /\ SumFunctionOnSet(f, Of(V)) \in Int
      <4>1. C \subseteq Of(U) /\ Of(V) \subseteq Of(U)
        BY <3>2
      <4>2. /\ IsFiniteSet(C) /\ IsFiniteSet(Of(V))
            /\ (\A x \in C : f[x] \in Int) /\ \A x \in Of(V) : f[x] \in Int
        BY <3>0, <3>a, <4>1, FS_Subset
      <4> QED
        BY <4>2, SumInt
    <3> QED
      BY <3>1, <3>3, <3>4, <3>5, <3>6, <3>b
  <2> QED
    BY <2>1, <2>2
<1>2. T \in Q
  <2> HIDE DEF Q
  <2> QED
    BY <1>1, SubsetInduction
<1>3. Of(T) = S
  OBVIOUS
<1> QED
  BY <1>2, <1>3

\* The sum of a sum of functions.
LEMMA SumPlus ==
    ASSUME NEW f, NEW g, NEW h, NEW S, IsFiniteSet(S),
           \A x \in S : f[x] \in Int /\ g[x] \in Int /\ h[x] = f[x] + g[x]
    PROVE  SumFunctionOnSet(h, S) = SumFunctionOnSet(f, S) + SumFunctionOnSet(g, S)
<1> DEFINE Sum(k, U) == SumFunctionOnSet(k, U)
           Q == {U \in SUBSET S : Sum(h, U) = Sum(f, U) + Sum(g, U)}
<1>1. ASSUME NEW U \in SUBSET S, \A V \in SUBSET U : V # U => V \in Q PROVE U \in Q
  <2>1. CASE U = {}
    BY <2>1, SumEmpty
  <2>2. CASE U # {}
    <3> DEFINE V == U \ {chosen(U)}
    <3>1. IsFiniteSet(U) /\ IsFiniteSet(V)
      BY FS_Subset
    <3>2. /\ chosen(U) \in U
          /\ Sum(f, U) = f[chosen(U)] + Sum(f, V)
          /\ Sum(g, U) = g[chosen(U)] + Sum(g, V)
          /\ Sum(h, U) = h[chosen(U)] + Sum(h, V)
      BY <2>2, <3>1, SumChosen
    <3>3. Sum(h, V) = Sum(f, V) + Sum(g, V)
      BY <1>1, <3>2
    <3>4. Sum(f, V) \in Int /\ Sum(g, V) \in Int
      BY <3>1, SumInt
    <3> QED
      BY <3>2, <3>3, <3>4
  <2> QED
    BY <2>1, <2>2
<1>2. S \in Q
  <2> HIDE DEF Q
  <2> QED
    BY <1>1, SubsetInduction
<1> QED
  BY <1>2

\* A common factor.
LEMMA SumScale ==
    ASSUME NEW f, NEW g, NEW S, IsFiniteSet(S), NEW c \in Int,
           \A x \in S : f[x] \in Int /\ g[x] = c * f[x]
    PROVE  SumFunctionOnSet(g, S) = c * SumFunctionOnSet(f, S)
<1> DEFINE Sum(k, U) == SumFunctionOnSet(k, U)
           Q == {U \in SUBSET S : Sum(g, U) = c * Sum(f, U)}
<1>1. ASSUME NEW U \in SUBSET S, \A V \in SUBSET U : V # U => V \in Q PROVE U \in Q
  <2>1. CASE U = {}
    BY <2>1, SumEmpty
  <2>2. CASE U # {}
    <3> DEFINE V == U \ {chosen(U)}
    <3>1. IsFiniteSet(U) /\ IsFiniteSet(V)
      BY FS_Subset
    <3>2. /\ chosen(U) \in U
          /\ Sum(f, U) = f[chosen(U)] + Sum(f, V)
          /\ Sum(g, U) = g[chosen(U)] + Sum(g, V)
      BY <2>2, <3>1, SumChosen
    <3>3. Sum(g, V) = c * Sum(f, V)
      BY <1>1, <3>2
    <3>4. Sum(f, V) \in Int /\ f[chosen(U)] \in Int /\ g[chosen(U)] = c * f[chosen(U)]
      BY <3>1, <3>2, SumInt
    <3>5. \A m, n \in Int : c * (m + n) = c * m + c * n
      OBVIOUS
    <3> HIDE DEF Sum, V
    <3>6. Sum(g, U) = c * Sum(f, U)
      BY <3>2, <3>3, <3>4, <3>5
    <3> QED
      BY <3>6 DEF Sum
  <2> QED
    BY <2>1, <2>2
<1>2. S \in Q
  <2> HIDE DEF Q
  <2> QED
    BY <1>1, SubsetInduction
<1> QED
  BY <1>2

\* Counting.
LEMMA SumCount ==
    ASSUME NEW f, NEW S, IsFiniteSet(S), NEW T \in SUBSET S,
           \A x \in S : f[x] = IF x \in T THEN 1 ELSE 0
    PROVE  SumFunctionOnSet(f, S) = Cardinality(T)
<1> DEFINE Q == {U \in SUBSET S : SumFunctionOnSet(f, U) = Cardinality(U \cap T)}
<1>1. ASSUME NEW U \in SUBSET S, \A V \in SUBSET U : V # U => V \in Q PROVE U \in Q
  <2>1. CASE U = {}
    BY <2>1, SumEmpty, FS_EmptySet
  <2>2. CASE U # {}
    <3> DEFINE c == chosen(U)
               V == U \ {c}
    <3>1. c \in U /\ SumFunctionOnSet(f, U) = f[c] + SumFunctionOnSet(f, V)
      BY <2>2, FS_Subset, SumChosen
    <3>2. SumFunctionOnSet(f, V) = Cardinality(V \cap T)
      BY <1>1, <3>1
    <3>3. IsFiniteSet(U \cap T) /\ Cardinality(U \cap T) \in Nat
      BY FS_Subset, FS_CardinalityType
    <3>4. CASE c \in T
      <4>1. V \cap T = (U \cap T) \ {c} /\ c \in U \cap T
        BY <3>1, <3>4
      <4>2. Cardinality((U \cap T) \ {c}) = Cardinality(U \cap T) - 1
        BY <3>3, <4>1, FS_RemoveElement
      <4>3. SumFunctionOnSet(f, V) = Cardinality(U \cap T) - 1
        BY <3>2, <4>1, <4>2, Zenon
      <4>4. f[c] = 1
        BY <3>1, <3>4
      <4> HIDE DEF c
      <4>5. SumFunctionOnSet(f, U) = Cardinality(U \cap T)
        BY <3>1, <3>3, <4>3, <4>4
      <4> QED
        BY <4>5
    <3>5. CASE c \notin T
      <4>1. V \cap T = U \cap T
        BY <3>5
      <4> QED
        BY <3>1, <3>2, <3>3, <3>5, <4>1
    <3> QED
      BY <3>4, <3>5
  <2> QED
    BY <2>1, <2>2
<1>2. S \in Q
  <2> HIDE DEF Q
  <2> QED
    BY <1>1, SubsetInduction
<1>3. S \cap T = T
  OBVIOUS
<1> QED
  BY <1>2, <1>3

\* h gives every element of S another name in T.
Renames(h, S, T) ==
    /\ \A x \in S : h[x] \in T
    /\ \A x, y \in S : h[x] = h[y] => x = y
    /\ \A y \in T : \E x \in S : y = h[x]

\* The same parts under other names.
LEMMA SumRenamed ==
    ASSUME NEW f, NEW S, IsFiniteSet(S), NEW g, NEW T, IsFiniteSet(T),
           NEW h, Renames(h, S, T),
           \A x \in S : f[x] = g[h[x]], \A y \in T : g[y] \in Int
    PROVE  SumFunctionOnSet(f, S) = SumFunctionOnSet(g, T)
<1> USE DEF Renames
<1> DEFINE image(U) == {h[x] : x \in U}
           Q == {U \in SUBSET S : SumFunctionOnSet(f, U) = SumFunctionOnSet(g, image(U))}
<1>1. ASSUME NEW U \in SUBSET S, \A V \in SUBSET U : V # U => V \in Q PROVE U \in Q
  <2>1. CASE U = {}
    BY <2>1, SumEmpty
  <2>2. CASE U # {}
    <3> DEFINE c == chosen(U)
               V == U \ {c}
    <3>1. c \in U /\ SumFunctionOnSet(f, U) = f[c] + SumFunctionOnSet(f, V)
      BY <2>2, FS_Subset, SumChosen
    <3>2. h[c] \in image(U) /\ image(U) \ {h[c]} = image(V) /\ image(U) \subseteq T
      BY <3>1
    <3>3. SumFunctionOnSet(f, V) = SumFunctionOnSet(g, image(V))
      BY <1>1, <3>1
    <3>4. f[c] = g[h[c]]
      BY <3>1
    <3> HIDE DEF image, c, V
    <3>5. SumFunctionOnSet(g, image(U)) = g[h[c]] + SumFunctionOnSet(g, image(V))
      BY <3>2, FS_Subset, SumTakeOut
    <3>6. SumFunctionOnSet(f, U) = SumFunctionOnSet(g, image(U))
      BY <3>1, <3>3, <3>4, <3>5
    <3> QED
      BY <3>6
  <2> QED
    BY <2>1, <2>2
<1>2. S \in Q
  <2> HIDE DEF Q
  <2> QED
    BY <1>1, SubsetInduction
<1>3. image(S) = T
  OBVIOUS
<1> QED
  BY <1>2, <1>3

--------------------------------------------------------------------------------
(* A sequence without one of its elements, which SequencesExt calls RemoveAt. *)

cutOut(s, i) == SubSeq(s, 1, i - 1) \o SubSeq(s, i + 1, Len(s))

\* What remains is in order.
LEMMA CutOut ==
    ASSUME NEW S, NEW s \in Seq(S), NEW i \in DOMAIN s
    PROVE  /\ cutOut(s, i) \in Seq(S) /\ Len(cutOut(s, i)) = Len(s) - 1
           /\ \A k \in 1 .. Len(s) - 1 :
                 cutOut(s, i)[k] = s[IF k < i THEN k ELSE k + 1]
<1> DEFINE a == SubSeq(s, 1, i - 1)
           z == SubSeq(s, i + 1, Len(s))
<1>1. i \in 1 .. Len(s) /\ Len(s) \in Nat
  OBVIOUS
<1>2. \A k \in 1 .. i - 1 : s[k] \in S
  BY <1>1
<1>3. \A k \in i + 1 .. Len(s) : s[k] \in S
  BY <1>1
<1>4. /\ a \in Seq(S) /\ Len(a) = i - 1
      /\ \A k \in 1 .. i - 1 : a[k] = s[k]
  BY <1>1, <1>2
<1>5. /\ z \in Seq(S) /\ Len(z) = Len(s) - i
      /\ \A k \in 1 .. Len(s) - i : z[k] = s[i + k]
  BY <1>1, <1>3
<1>6. cutOut(s, i) = a \o z
  BY DEF cutOut
<1> HIDE DEF a, z
<1>7. a \o z \in Seq(S) /\ Len(a \o z) = Len(s) - 1
  BY <1>1, <1>4, <1>5
<1>8. \A k \in 1 .. Len(s) - 1 : (a \o z)[k] = s[IF k < i THEN k ELSE k + 1]
  BY <1>1, <1>4, <1>5
<1> QED
  BY <1>6, <1>7, <1>8
================================================================================
