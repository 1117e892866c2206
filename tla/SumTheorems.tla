---------------------------- MODULE SumTheorems ----------------------------
(***************************************************************************)
(* Facts about numbers and sums over finite sets that several proofs use.  *)
(* The sums of the models are MapThenSumSet of FiniteSetsExt, which adds   *)
(* the elements in the order in which CHOOSE picks them; the lemmas show   *)
(* that the order does not matter.  Inductions are by a least              *)
(* counterexample.                                                         *)
(***************************************************************************)
EXTENDS Integers, FiniteSetsExt, FiniteSetTheorems, NaturalsInduction, WellFoundedInduction, TLAPS

\* A set of natural numbers that is not empty has a least element.
LEMMA LeastNatural ==
    ASSUME NEW T \in SUBSET Nat, T # {}
    PROVE  \E n \in T : \A m \in T : n <= m
<1> DEFINE R == {ss \in Nat \X Nat : ss[1] < ss[2]}
<1>1. IsWellFoundedOn(R, Nat)
  BY NatLessThanWellFounded DEF OpToRel
<1>2. \E n \in T : \A m \in T : ~(<<m, n>> \in R)
  <2> HIDE DEF R
  <2> QED
    BY <1>1, WFMin, Zenon
<1>3. PICK n \in T : \A m \in T : ~(<<m, n>> \in R)
  BY <1>2
<1>4. ASSUME NEW m \in T PROVE n <= m
  <2>1. m \in Nat /\ n \in Nat
    OBVIOUS
  <2>2. m < n => <<m, n>> \in R
    BY <2>1
  <2> QED
    BY <1>3, <2>1, <2>2
<1> QED
  BY <1>4

\* A set of positions that is not empty and bounded has a greatest element.
LEMMA BoundedSetHasMaximum ==
    ASSUME NEW n \in Nat, NEW S \in SUBSET (0..n), S # {}
    PROVE  \E m \in S : \A k \in S : k <= m
<1> DEFINE T == {j \in Nat : n - j \in S}
<1>1. T \in SUBSET Nat /\ T # {}
  <2>1. PICK k \in S : TRUE
    BY Zenon
  <2>2. n - k \in T
    BY <2>1
  <2> QED
    BY <2>2, Zenon
<1>2. PICK j \in T : \A i \in T : j <= i
  <2> HIDE DEF T
  <2> QED
    BY <1>1, LeastNatural
<1>3. \A k \in S : n - k \in T
  OBVIOUS
<1>4. ASSUME NEW k \in S PROVE k <= n - j
  <2>1. j \in Nat /\ k \in Nat
    OBVIOUS
  <2>2. j <= n - k
    <3> HIDE DEF T
    <3> QED
      BY <1>2, <1>3
  <2> QED
    BY <2>1, <2>2
<1> QED
  BY <1>2, <1>4

\* Among sets of elements of a finite set there is one with the fewest elements.
LEMMA SmallestSet ==
    ASSUME NEW D, IsFiniteSet(D), NEW T \in SUBSET (SUBSET D), T # {}
    PROVE  \E s \in T : \A t \in T : Cardinality(s) <= Cardinality(t)
<1> DEFINE N == {Cardinality(t) : t \in T}
<1>1. \A t \in T : Cardinality(t) \in Nat
  BY FS_Subset, FS_CardinalityType
<1>2. PICK n \in N : \A m \in N : n <= m
  <2>1. N \in SUBSET Nat /\ N # {}
    BY <1>1
  <2> HIDE DEF N
  <2> QED
    BY <2>1, LeastNatural
<1> QED
  BY <1>2

\* A set without one of its elements is smaller.
LEMMA SmallerWithout ==
    ASSUME NEW D, IsFiniteSet(D), NEW s \in SUBSET D, NEW x \in s
    PROVE  /\ s \ {x} \in SUBSET D
           /\ ~(Cardinality(s) <= Cardinality(s \ {x}))
<1>1. IsFiniteSet(s) /\ Cardinality(s) \in Nat
  BY FS_Subset, FS_CardinalityType
<1>2. Cardinality(s \ {x}) = Cardinality(s) - 1
  BY <1>1, FS_RemoveElement, Zenon
<1> QED
  BY <1>1, <1>2

-----------------------------------------------------------------------------
(* Sums. *)

\* The sum of w over S.
Sum(w, S) == MapThenSumSet(LAMBDA x : w[x], S)

\* The element that is added first.
First(s) == CHOOSE x \in s : TRUE

LEMMA FirstIsMember ==
    ASSUME NEW s, s # {}
    PROVE  First(s) \in s
BY DEF First

\* The sums of all subsets of D, by the recursion that defines them.
IsSum(sum, w, D) ==
    \A s \in SUBSET D : sum[s] = IF s = {} THEN 0 ELSE w[First(s)] + sum[s \ {First(s)}]

LEMMA SumExists ==
    ASSUME NEW D, IsFiniteSet(D), NEW w \in [D -> Int]
    PROVE  \E sum \in [SUBSET D -> Int] : IsSum(sum, w, D)
<1> DEFINE Body(sum, s) == IF s = {} THEN 0 ELSE w[First(s)] + sum[s \ {First(s)}]
           Good(n) == \E sum \in [SUBSET D -> Int] :
                         \A s \in SUBSET D : Cardinality(s) <= n => sum[s] = Body(sum, s)
           Bad == {n \in Nat : ~Good(n)}
<1>1. ASSUME NEW s \in SUBSET D
      PROVE  IsFiniteSet(s) /\ Cardinality(s) \in Nat /\ (Cardinality(s) = 0 <=> s = {})
  <2>1. IsFiniteSet(s) /\ Cardinality(s) \in Nat
    BY FS_Subset, FS_CardinalityType
  <2> QED
    BY <2>1, FS_EmptySet
<1>2. ASSUME NEW s \in SUBSET D, s # {}
      PROVE  /\ First(s) \in D /\ s \ {First(s)} \in SUBSET D
             /\ Cardinality(s \ {First(s)}) = Cardinality(s) - 1
  <2>1. First(s) \in s
    BY <1>2, FirstIsMember
  <2>2. Cardinality(s \ {First(s)}) = Cardinality(s) - 1
    BY <1>1, <2>1, FS_RemoveElement
  <2> QED
    BY <2>1, <2>2
<1>3. Good(0)
  <2> DEFINE sum == [s \in SUBSET D |-> 0]
  <2>1. sum \in [SUBSET D -> Int]
    OBVIOUS
  <2>2. ASSUME NEW s \in SUBSET D, Cardinality(s) <= 0 PROVE sum[s] = Body(sum, s)
    <3>1. s = {}
      BY <1>1, <2>2
    <3> QED
      BY <3>1
  <2> HIDE DEF sum, Body
  <2> QED
    BY <2>1, <2>2
<1>4. ASSUME NEW n \in Nat, Good(n) PROVE Good(n + 1)
  <2>1. PICK sum \in [SUBSET D -> Int] :
           \A s \in SUBSET D : Cardinality(s) <= n => sum[s] = Body(sum, s)
    BY <1>4, Zenon
  <2> DEFINE next == [s \in SUBSET D |-> Body(sum, s)]
  <2>2. next \in [SUBSET D -> Int]
    <3>1. ASSUME NEW s \in SUBSET D PROVE Body(sum, s) \in Int
      <4>1. CASE s = {}
        BY <4>1
      <4>2. CASE s # {}
        <5>1. w[First(s)] \in Int /\ sum[s \ {First(s)}] \in Int
          BY <1>2, <4>2, Zenon
        <5> QED
          BY <4>2, <5>1
      <4> QED
        BY <4>1, <4>2
    <3> HIDE DEF Body
    <3> QED
      BY <3>1
  <2>3. ASSUME NEW s \in SUBSET D, Cardinality(s) <= n + 1 PROVE next[s] = Body(next, s)
    <3>1. CASE s = {}
      BY <3>1
    <3>2. CASE s # {}
      <4> DEFINE rest == s \ {First(s)}
      <4>1. rest \in SUBSET D /\ Cardinality(rest) <= n
        <5>1. rest \in SUBSET D /\ Cardinality(rest) = Cardinality(s) - 1 /\ Cardinality(s) \in Nat
          BY <1>1, <1>2, <3>2
        <5> HIDE DEF rest
        <5> QED
          BY <5>1, <2>3
      <4>2. next[rest] = Body(sum, rest) /\ sum[rest] = Body(sum, rest)
        <5> HIDE DEF rest, Body
        <5> QED
          BY <2>1, <4>1
      <4>3. next[s] = w[First(s)] + sum[rest] /\ Body(next, s) = w[First(s)] + next[rest]
        BY <3>2
      <4> HIDE DEF next, rest, Body
      <4> QED
        BY <4>2, <4>3
    <3> QED
      BY <3>1, <3>2
  <2> HIDE DEF next, Body
  <2> QED
    BY <2>2, <2>3
<1>5. Bad = {}
  <2>1. SUFFICES ASSUME Bad # {} PROVE FALSE
    BY Zenon
  <2>2. PICK n \in Bad : \A m \in Bad : n <= m
    <3>1. Bad \in SUBSET Nat
      OBVIOUS
    <3> HIDE DEF Bad
    <3> QED
      BY <2>1, <3>1, LeastNatural
  <2>3. n \in Nat /\ ~Good(n)
    BY Zenon
  <2> HIDE DEF Good
  <2>4. n # 0
    BY <1>3, <2>3
  <2>5. n - 1 \in Nat /\ Good(n - 1)
    BY <2>2, <2>3, <2>4
  <2> QED
    BY <1>4, <2>3, <2>5
<1>6. Good(Cardinality(D))
  <2>1. Cardinality(D) \in Nat
    BY FS_CardinalityType
  <2> HIDE DEF Good
  <2> QED
    BY <1>5, <2>1
<1>7. PICK sum \in [SUBSET D -> Int] :
         \A s \in SUBSET D : Cardinality(s) <= Cardinality(D) => sum[s] = Body(sum, s)
  BY <1>6
<1>8. \A s \in SUBSET D : sum[s] = Body(sum, s)
  <2> HIDE DEF Body
  <2> QED
    BY <1>7, FS_Subset
<1> QED
  BY <1>8 DEF IsSum

\* Sum is the function that SumExists speaks of.
LEMMA SumIs ==
    ASSUME NEW D, IsFiniteSet(D), NEW w \in [D -> Int],
           NEW sum \in [SUBSET D -> Int], IsSum(sum, w, D), NEW S \in SUBSET D
    PROVE  Sum(w, S) = sum[S]
<1> DEFINE Iter(it) == [s \in SUBSET S |-> IF s = {} THEN 0 ELSE w[First(s)] + it[s \ {First(s)}]]
           it == CHOOSE it : it = Iter(it)
<1>1. Sum(w, S) = it[S]
  BY DEF Sum, MapThenSumSet, MapThenFoldSet, First
<1>2. it = Iter(it)
  <2> DEFINE g == [s \in SUBSET S |-> sum[s]]
  <2>1. g = Iter(g)
    <3>1. ASSUME NEW s \in SUBSET S
          PROVE  g[s] = IF s = {} THEN 0 ELSE w[First(s)] + g[s \ {First(s)}]
      <4>1. s \in SUBSET D /\ s \ {First(s)} \in SUBSET S
        OBVIOUS
      <4>2. sum[s] = IF s = {} THEN 0 ELSE w[First(s)] + sum[s \ {First(s)}]
        BY <4>1, Zenon DEF IsSum
      <4>3. g[s] = sum[s] /\ g[s \ {First(s)}] = sum[s \ {First(s)}]
        BY <4>1
      <4> QED
        BY <4>2, <4>3
    <3> QED
      BY <3>1, Zenon
  <2> HIDE DEF Iter, g
  <2> QED
    BY <2>1
<1> HIDE DEF it
<1>3. \A s \in SUBSET S : it[s] = IF s = {} THEN 0 ELSE w[First(s)] + it[s \ {First(s)}]
  BY <1>2, Zenon
<1> DEFINE T == {s \in SUBSET S : it[s] # sum[s]}
<1>4. ASSUME T # {} PROVE FALSE
  <2>1. IsFiniteSet(S) /\ T \in SUBSET (SUBSET S)
    BY FS_Subset
  <2>2. PICK s \in T : \A t \in T : Cardinality(s) <= Cardinality(t)
    <3> HIDE DEF T
    <3> QED
      BY <1>4, <2>1, SmallestSet
  <2>3. s \in SUBSET S /\ s \in SUBSET D /\ it[s] # sum[s]
    OBVIOUS
  <2>4. s # {}
    BY <1>3, <2>3, Zenon DEF IsSum
  <2>5. First(s) \in s
    BY <2>4, FirstIsMember
  <2>6. s \ {First(s)} \in SUBSET S /\ s \ {First(s)} \notin T
    BY <2>1, <2>2, <2>3, <2>5, SmallerWithout
  <2>7. it[s \ {First(s)}] = sum[s \ {First(s)}]
    BY <2>6
  <2> QED
    BY <1>3, <2>3, <2>4, <2>7, Zenon DEF IsSum
<1> QED
  BY <1>1, <1>4

\* The sum of no elements, and its type.
LEMMA SumType ==
    ASSUME NEW D, IsFiniteSet(D), NEW w \in [D -> Int], NEW S \in SUBSET D
    PROVE  Sum(w, S) \in Int /\ Sum(w, {}) = 0
<1>1. PICK sum \in [SUBSET D -> Int] : IsSum(sum, w, D)
  BY SumExists, Zenon
<1>2. Sum(w, S) = sum[S] /\ Sum(w, {}) = sum[{}]
  BY <1>1, SumIs
<1> QED
  BY <1>1, <1>2, Zenon DEF IsSum

\* One element more, whatever the order.
LEMMA SumAdd ==
    ASSUME NEW D, IsFiniteSet(D), NEW w \in [D -> Int], NEW S \in SUBSET D, NEW e \in D \ S
    PROVE  Sum(w, S \cup {e}) = Sum(w, S) + w[e]
<1>1. PICK sum \in [SUBSET D -> Int] : IsSum(sum, w, D)
  BY SumExists, Zenon
<1> DEFINE T == {s \in SUBSET D : \E x \in D \ s : sum[s \cup {x}] # sum[s] + w[x]}
<1>2. ASSUME T # {} PROVE FALSE
  <2>1. PICK s \in T : \A t \in T : Cardinality(s) <= Cardinality(t)
    <3>1. T \in SUBSET (SUBSET D)
      OBVIOUS
    <3> HIDE DEF T
    <3> QED
      BY <1>2, <3>1, SmallestSet
  <2>2. PICK x \in D \ s : sum[s \cup {x}] # sum[s] + w[x]
    BY Zenon
  <2>3. PICK v, y, u : v = s \cup {x} /\ y = First(v) /\ u = s \ {y}
    BY Zenon
  <2>4. s \in SUBSET D /\ v \in SUBSET D /\ v # {} /\ y \in v
    <3>1. s \in SUBSET D /\ v \in SUBSET D /\ v # {}
      BY <2>2, <2>3
    <3> QED
      BY <2>3, <3>1, FirstIsMember, Zenon
  <2>5. sum[v] = w[y] + sum[v \ {y}]
    BY <1>1, <2>3, <2>4, Zenon DEF IsSum
  <2>6. sum[v] # sum[s] + w[x] /\ sum[s] \in Int /\ w[x] \in Int
    BY <2>2, <2>3, <2>4
  <2>7. CASE y = x
    <3>1. v \ {y} = s
      BY <2>2, <2>3, <2>7
    <3>2. sum[v] = w[x] + sum[s]
      BY <2>5, <2>7, <3>1, Zenon
    <3> HIDE DEF T
    <3> QED
      BY <2>6, <3>2
  <2>8. CASE y # x
    <3>1. y \in s
      BY <2>3, <2>4, <2>8
    <3>2. u \in SUBSET D /\ u \notin T
      <4>1. u \in SUBSET D /\ ~(Cardinality(s) <= Cardinality(u))
        BY <2>3, <2>4, <3>1, SmallerWithout, Zenon
      <4> HIDE DEF T
      <4> QED
        BY <2>1, <4>1
    <3>3. x \in D \ u /\ y \in D \ u /\ u \cup {y} = s /\ v \ {y} = u \cup {x}
      BY <2>2, <2>3, <2>4, <2>8, <3>1, Zenon
    <3>4. sum[u \cup {x}] = sum[u] + w[x] /\ sum[u \cup {y}] = sum[u] + w[y]
      BY <3>2, <3>3, Zenon
    <3>5. sum[u] \in Int /\ w[x] \in Int /\ w[y] \in Int
      BY <3>2, <3>3
    <3>6. sum[v \ {y}] = sum[u] + w[x] /\ sum[s] = sum[u] + w[y]
      BY <3>3, <3>4, Zenon
    <3> QED
      BY <2>5, <2>6, <3>5, <3>6
  <2> QED
    BY <2>7, <2>8
<1>3. sum[S \cup {e}] = sum[S] + w[e]
  BY <1>2, Zenon
<1>4. Sum(w, S \cup {e}) = sum[S \cup {e}] /\ Sum(w, S) = sum[S]
  BY <1>1, SumIs
<1> QED
  BY <1>3, <1>4

\* The sum over two sets without common elements.
LEMMA SumUnion ==
    ASSUME NEW D, IsFiniteSet(D), NEW w \in [D -> Int],
           NEW A \in SUBSET D, NEW B \in SUBSET D, A \cap B = {}
    PROVE  Sum(w, A \cup B) = Sum(w, A) + Sum(w, B)
<1> DEFINE T == {s \in SUBSET D : A \cap s = {} /\ Sum(w, A \cup s) # Sum(w, A) + Sum(w, s)}
<1>1. ASSUME T # {} PROVE FALSE
  <2>1. PICK s \in T : \A t \in T : Cardinality(s) <= Cardinality(t)
    <3>1. T \in SUBSET (SUBSET D)
      OBVIOUS
    <3> HIDE DEF T
    <3> QED
      BY <1>1, <3>1, SmallestSet
  <2>2. s \in SUBSET D /\ A \cap s = {} /\ Sum(w, A \cup s) # Sum(w, A) + Sum(w, s)
    OBVIOUS
  <2>3. Sum(w, A) \in Int /\ Sum(w, {}) = 0
    BY SumType
  <2>4. s # {}
    BY <2>2, <2>3
  <2>5. PICK x \in s : TRUE
    BY <2>4
  <2> DEFINE u == s \ {x}
  <2>6. u \in SUBSET D /\ u \notin T
    BY <2>1, <2>2, <2>5, SmallerWithout, Zenon
  <2>7. /\ A \cap u = {} /\ A \cup u \in SUBSET D
        /\ x \in D \ u /\ x \in D \ (A \cup u)
        /\ s = u \cup {x} /\ A \cup s = (A \cup u) \cup {x}
    BY <2>2, <2>5
  <2>8. Sum(w, A \cup u) = Sum(w, A) + Sum(w, u)
    BY <2>6, <2>7
  <2> HIDE DEF u, T
  <2>9. Sum(w, s) = Sum(w, u) + w[x]
    BY <2>6, <2>7, SumAdd
  <2>10. Sum(w, A \cup s) = Sum(w, A \cup u) + w[x]
    <3>1. Sum(w, (A \cup u) \cup {x}) = Sum(w, A \cup u) + w[x]
      BY <2>7, SumAdd
    <3> QED
      BY <2>7, <3>1, Zenon
  <2>11. Sum(w, u) \in Int /\ w[x] \in Int
    BY <2>6, <2>7, SumType
  <2> QED
    BY <2>2, <2>3, <2>8, <2>9, <2>10, <2>11
<1> QED
  BY <1>1, Zenon

\* What is left when a part is taken away.
LEMMA SumRemove ==
    ASSUME NEW D, IsFiniteSet(D), NEW w \in [D -> Int],
           NEW A \in SUBSET D, NEW B \in SUBSET A
    PROVE  Sum(w, A \ B) = Sum(w, A) - Sum(w, B)
<1>1. (A \ B) \cup B = A /\ (A \ B) \cap B = {} /\ A \ B \in SUBSET D /\ B \in SUBSET D
  OBVIOUS
<1>2. Sum(w, A) = Sum(w, A \ B) + Sum(w, B)
  BY <1>1, SumUnion
<1>3. Sum(w, A \ B) \in Int /\ Sum(w, B) \in Int
  BY <1>1, SumType
<1> QED
  BY <1>2, <1>3


\* A sum depends on the values it adds alone.
LEMMA SumSame ==
    ASSUME NEW D, IsFiniteSet(D), NEW v \in [D -> Int], NEW w \in [D -> Int],
           NEW S \in SUBSET D, \A x \in S : v[x] = w[x]
    PROVE  Sum(v, S) = Sum(w, S)
<1> DEFINE T == {s \in SUBSET D : (\A x \in s : v[x] = w[x]) /\ Sum(v, s) # Sum(w, s)}
<1>1. ASSUME T # {} PROVE FALSE
  <2>1. PICK s \in T : \A t \in T : Cardinality(s) <= Cardinality(t)
    BY <1>1, SmallestSet, Zenon
  <2>2. s \in SUBSET D /\ (\A x \in s : v[x] = w[x]) /\ Sum(v, s) # Sum(w, s)
    BY <2>1
  <2>3. Sum(v, {}) = 0 /\ Sum(w, {}) = 0
    BY SumType
  <2>4. PICK x \in s : TRUE
    BY <2>2, <2>3
  <2>5. s \ {x} \in SUBSET D /\ ~(Cardinality(s) <= Cardinality(s \ {x}))
    BY <2>2, <2>4, SmallerWithout
  <2>6. Sum(v, s \ {x}) = Sum(w, s \ {x})
    BY <2>1, <2>2, <2>5
  <2>7. x \in D \ (s \ {x}) /\ (s \ {x}) \cup {x} = s
    BY <2>2, <2>4
  <2>8. /\ Sum(v, (s \ {x}) \cup {x}) = Sum(v, s \ {x}) + v[x]
        /\ Sum(w, (s \ {x}) \cup {x}) = Sum(w, s \ {x}) + w[x]
    BY <2>5, <2>7, SumAdd
  <2>9. v[x] = w[x]
    BY <2>2, <2>4
  <2> QED
    BY <2>2, <2>6, <2>7, <2>8, <2>9, Zenon
<1> QED
  BY <1>1

\* One value changes, and the sum with it.
LEMMA SumChange ==
    ASSUME NEW D, IsFiniteSet(D), NEW w \in [D -> Int], NEW v \in [D -> Int], NEW e \in D,
           \A x \in D \ {e} : v[x] = w[x]
    PROVE  Sum(v, D) = Sum(w, D) - w[e] + v[e]
<1>3. D \ {e} \in SUBSET D /\ e \in D \ (D \ {e}) /\ (D \ {e}) \cup {e} = D
  OBVIOUS
<1>4. Sum(v, D \ {e}) = Sum(w, D \ {e}) /\ Sum(w, D \ {e}) \in Int
  BY <1>3, SumSame, SumType
<1>5. Sum(v, D) = Sum(v, D \ {e}) + v[e] /\ Sum(w, D) = Sum(w, D \ {e}) + w[e]
  <2>1. /\ Sum(v, (D \ {e}) \cup {e}) = Sum(v, D \ {e}) + v[e]
        /\ Sum(w, (D \ {e}) \cup {e}) = Sum(w, D \ {e}) + w[e]
    BY <1>3, SumAdd
  <2> QED
    BY <1>3, <2>1, Zenon
<1>6. w[e] \in Int /\ v[e] \in Int
  OBVIOUS
<1> QED
  BY <1>4, <1>5, <1>6

\* The sum of nothing but zeros.
LEMMA SumZero ==
    ASSUME NEW D, IsFiniteSet(D)
    PROVE  Sum([x \in D |-> 0], D) = 0
<1> DEFINE w == [x \in D |-> 0]
           T == {s \in SUBSET D : Sum(w, s) # 0}
<1>1. w \in [D -> Int] /\ \A x \in D : w[x] = 0
  OBVIOUS
<1> HIDE DEF w
<1>2. ASSUME T # {} PROVE FALSE
  <2>1. PICK s \in T : \A t \in T : Cardinality(s) <= Cardinality(t)
    BY <1>2, SmallestSet, Zenon
  <2>2. s \in SUBSET D /\ Sum(w, s) # 0
    BY <2>1
  <2>3. PICK x \in s : TRUE
    BY <1>1, <2>2, SumType
  <2>4. s \ {x} \in SUBSET D /\ ~(Cardinality(s) <= Cardinality(s \ {x}))
    BY <2>2, <2>3, SmallerWithout
  <2>5. Sum(w, s \ {x}) = 0
    BY <2>1, <2>4
  <2>6. x \in D \ (s \ {x}) /\ (s \ {x}) \cup {x} = s
    BY <2>2, <2>3
  <2>7. Sum(w, (s \ {x}) \cup {x}) = Sum(w, s \ {x}) + w[x]
    BY <1>1, <2>4, <2>6, SumAdd
  <2>8. Sum(w, s) = 0 + 0
    BY <1>1, <2>2, <2>3, <2>5, <2>6, <2>7, Zenon
  <2> QED
    BY <2>2, <2>8
<1> QED
  BY <1>2 DEF w

\* The elements that count for nothing may be left out.
LEMMA SumOfSupport ==
    ASSUME NEW D, IsFiniteSet(D), NEW w \in [D -> Int], NEW S \in SUBSET D,
           \A x \in D \ S : w[x] = 0
    PROVE  Sum(w, S) = Sum(w, D)
<1> DEFINE u == [x \in D |-> 0]
           sum == [s \in SUBSET D |-> 0]
<1>1. D \ S \in SUBSET D
  OBVIOUS
<1>2. Sum(w, D \ S) = 0
  <2>1. u \in [D -> Int] /\ sum \in [SUBSET D -> Int] /\ (\A x \in D \ S : w[x] = u[x])
    OBVIOUS
  <2>2. IsSum(sum, u, D)
    <3>1. ASSUME NEW s \in SUBSET D, s # {}
          PROVE  u[First(s)] = 0 /\ sum[s \ {First(s)}] = 0
      BY <3>1, FirstIsMember
    <3> QED
      BY <3>1 DEF IsSum
  <2>3. sum[D \ S] = 0
    BY <1>1
  <2> HIDE DEF u, sum
  <2>4. Sum(u, D \ S) = sum[D \ S]
    BY <1>1, <2>1, <2>2, SumIs
  <2> QED
    BY <1>1, <2>1, <2>3, <2>4, SumSame
<1>3. Sum(w, D \ (D \ S)) = Sum(w, D) - Sum(w, D \ S)
  BY <1>1, SumRemove
<1>4. D \ (D \ S) = S /\ Sum(w, D) \in Int
  BY SumType
<1> QED
  BY <1>2, <1>3, <1>4

\* The elements of D have images in R, different ones for different elements, and as many
\* of v as an element has of w.
Carries(image, D, w, R, v) ==
    /\ image \in [D -> R]
    /\ \A x, y \in D : image[x] = image[y] => x = y
    /\ \A x \in D : v[image[x]] = w[x]

ImagesOf(image, S) == {image[x] : x \in S}

\* The sum over the images of the elements.
LEMMA SumOfImages ==
    ASSUME NEW D, IsFiniteSet(D), NEW w \in [D -> Int],
           NEW R, IsFiniteSet(R), NEW v \in [R -> Int],
           NEW image, Carries(image, D, w, R, v),
           NEW S \in SUBSET D
    PROVE  Sum(v, ImagesOf(image, S)) = Sum(w, S)
<1>0. /\ image \in [D -> R]
      /\ \A x, y \in D : image[x] = image[y] => x = y
      /\ \A x \in D : v[image[x]] = w[x]
  BY Zenon DEF Carries
<1> DEFINE Images(s) == {image[x] : x \in s}
           T == {s \in SUBSET D : Sum(v, Images(s)) # Sum(w, s)}
<1>1. ASSUME T # {} PROVE FALSE
  <2>1. PICK s \in T : \A t \in T : Cardinality(s) <= Cardinality(t)
    <3>1. T \in SUBSET (SUBSET D)
      OBVIOUS
    <3> HIDE DEF T
    <3> QED
      BY <1>1, <3>1, SmallestSet
  <2>2. s \in SUBSET D /\ Sum(v, Images(s)) # Sum(w, s)
    OBVIOUS
  <2>3. s # {}
    <3>1. Images({}) = {} /\ {} \in SUBSET R /\ {} \in SUBSET D
      OBVIOUS
    <3>2. Sum(v, {}) = 0 /\ Sum(w, {}) = 0
      BY <3>1, SumType
    <3> HIDE DEF Images
    <3> QED
      BY <2>2, <3>1, <3>2, Zenon
  <2>4. PICK x \in s : TRUE
    BY <2>3, Zenon
  <2>5. s \ {x} \in SUBSET D /\ s \ {x} \notin T
    <3> HIDE DEF T
    <3> QED
      BY <2>1, <2>2, SmallerWithout
  <2>6. Sum(v, Images(s \ {x})) = Sum(w, s \ {x})
    <3> HIDE DEF Images
    <3> QED
      BY <2>5
  <2>7. /\ x \in D \ (s \ {x}) /\ s = (s \ {x}) \cup {x}
        /\ Images(s \ {x}) \in SUBSET R /\ image[x] \in R \ Images(s \ {x})
        /\ Images(s) = Images(s \ {x}) \cup {image[x]}
    <3>1. x \in D \ (s \ {x}) /\ s = (s \ {x}) \cup {x}
      BY <2>2
    <3>2. Images(s \ {x}) \in SUBSET R /\ image[x] \in R
      BY <1>0, <2>2
    <3>3. image[x] \notin Images(s \ {x})
      BY <1>0, <2>2
    <3>4. Images(s) = Images(s \ {x}) \cup {image[x]}
      BY <2>2
    <3> HIDE DEF Images
    <3> QED
      BY <3>1, <3>2, <3>3, <3>4, Zenon
  <2> HIDE DEF Images, T
  <2>8. Sum(w, (s \ {x}) \cup {x}) = Sum(w, s \ {x}) + w[x]
    <3>1. ASSUME NEW A \in SUBSET D, NEW e \in D \ A PROVE Sum(w, A \cup {e}) = Sum(w, A) + w[e]
      BY SumAdd
    <3> QED
      BY <2>5, <2>7, <3>1, Zenon
  <2>9. Sum(v, Images(s \ {x}) \cup {image[x]}) = Sum(v, Images(s \ {x})) + v[image[x]]
    <3>1. ASSUME NEW A \in SUBSET R, NEW e \in R \ A PROVE Sum(v, A \cup {e}) = Sum(v, A) + v[e]
      BY SumAdd
    <3> QED
      BY <2>7, <3>1, Zenon
  <2>10. v[image[x]] = w[x]
    BY <1>0, <2>7, Zenon
  <2> QED
    BY <2>2, <2>6, <2>7, <2>8, <2>9, <2>10, Zenon
<1>2. S \notin T
  BY <1>1, Zenon
<1>3. Sum(v, Images(S)) = Sum(w, S)
  <2> HIDE DEF Images
  <2> QED
    BY <1>2, Zenon
<1> QED
  BY <1>3, Zenon DEF ImagesOf

\* What the recursion computes is the sum, whatever function it computes.
LEMMA RecursionIsSum ==
    ASSUME NEW D, IsFiniteSet(D), NEW w \in [D -> Int], NEW S \in SUBSET D, NEW it,
           \A s \in SUBSET S : it[s] = IF s = {} THEN 0 ELSE w[First(s)] + it[s \ {First(s)}]
    PROVE  it[S] = Sum(w, S)
<1>1. PICK sum \in [SUBSET D -> Int] : IsSum(sum, w, D)
  BY SumExists, Zenon
<1> DEFINE T == {s \in SUBSET S : it[s] # sum[s]}
<1>2. ASSUME T # {} PROVE FALSE
  <2>1. PICK s \in T : \A t \in T : Cardinality(s) <= Cardinality(t)
    <3>1. IsFiniteSet(S) /\ T \in SUBSET (SUBSET S)
      BY FS_Subset
    <3> HIDE DEF T
    <3> QED
      BY <1>2, <3>1, SmallestSet
  <2>2. s \in SUBSET S /\ s \in SUBSET D /\ it[s] # sum[s]
    OBVIOUS
  <2>3. s # {}
    BY <1>1, <2>2, Zenon DEF IsSum
  <2>4. First(s) \in s
    BY <2>3, FirstIsMember
  <2>5. s \ {First(s)} \in SUBSET S /\ s \ {First(s)} \notin T
    <3> HIDE DEF T
    <3> QED
      BY <2>1, <2>2, <2>4, SmallerWithout, FS_Subset
  <2>6. it[s \ {First(s)}] = sum[s \ {First(s)}]
    BY <2>5, Zenon
  <2> QED
    BY <1>1, <2>2, <2>3, <2>6, Zenon DEF IsSum
<1>3. it[S] = sum[S]
  BY <1>2, Zenon
<1>4. Sum(w, S) = sum[S]
  BY <1>1, SumIs
<1> QED
  BY <1>3, <1>4, Zenon
=============================================================================
