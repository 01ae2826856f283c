---------------------------- MODULE NaturalFacts ----------------------------
(***************************************************************************)
(* What the other proofs need to know of natural numbers: least and largest*)
(* elements, induction stated with a set, division with remainder, sums    *)
(* over finite sets, of rows and columns and of groups, and counting.      *)
(***************************************************************************)
EXTENDS Integers, FiniteSets, FiniteSetTheorems, WellFoundedInduction, TLAPS

-----------------------------------------------------------------------------
(* Least and largest elements *)

\* A set of natural numbers has a least element.
LEMMA LeastElement ==
  ASSUME NEW S \in SUBSET Nat, S # {}
  PROVE  \E x \in S : \A y \in S : x <= y
<1> DEFINE R == OpToRel(<, Nat)
<1>1. IsWellFoundedOn(R, Nat)
  BY NatLessThanWellFounded
<1>2. \A x, y \in Nat : x < y => <<x, y>> \in R
  BY DEF OpToRel
<1> HIDE DEF R
<1>3. PICK x \in S : \A y \in S : ~ (<<y, x>> \in R)
  BY <1>1, WFMin
<1>4. \A y \in S : ~ (y < x)
  BY <1>2, <1>3
<1> QED
  BY <1>4

\* Induction, for a set: it states a property of numbers by comprehension.
LEMMA SetInduction ==
  ASSUME NEW S, 0 \in S, \A n \in Nat : n \in S => n + 1 \in S
  PROVE  Nat \subseteq S
<1> SUFFICES ASSUME Nat \ S # {} PROVE FALSE
  OBVIOUS
<1>1. PICK x \in Nat \ S : \A y \in Nat \ S : x <= y
  BY LeastElement
<1>2. x - 1 \in Nat /\ x - 1 \in S
  BY <1>1
<1> QED
  BY <1>1, <1>2

\* The numbers f takes on 0 .. n have a largest one.
LEMMA LargestValue ==
  ASSUME NEW f \in [Nat -> Nat]
  PROVE  \A n \in Nat : \E i \in 0 .. n : \A j \in 0 .. n : f[j] <= f[i]
<1> DEFINE S == {n \in Nat : \E i \in 0 .. n : \A j \in 0 .. n : f[j] <= f[i]}
<1>1. 0 \in S
  OBVIOUS
<1>2. ASSUME NEW n \in Nat, n \in S PROVE n + 1 \in S
  <2>1. PICK i \in 0 .. n : \A j \in 0 .. n : f[j] <= f[i]
    BY <1>2
  <2>2. CASE f[n + 1] <= f[i]
    BY <2>1, <2>2
  <2>3. CASE ~ (f[n + 1] <= f[i])
    <3>1. \A j \in 0 .. n + 1 : f[j] <= f[n + 1]
      BY <2>1, <2>3
    <3> QED
      BY <3>1
  <2> QED
    BY <2>2, <2>3
<1> HIDE DEF S
<1>3. Nat \subseteq S
  BY <1>1, <1>2, SetInduction
<1> QED
  BY <1>3 DEF S

\* A finite set of natural numbers has a largest element.
LEMMA LargestElement ==
  ASSUME NEW S \in SUBSET Nat, IsFiniteSet(S), S # {}
  PROVE  \E x \in S : \A y \in S : x >= y
<1>1. PICK n \in Nat : ExistsSurjection(1 .. n, S)
  BY FS_NatSurjection
<1>2. PICK f \in [1 .. n -> S] : \A s \in S : \E i \in 1 .. n : f[i] = s
  BY <1>1 DEF ExistsSurjection, Surjection
<1>3. PICK a \in S : TRUE
  OBVIOUS
<1> DEFINE g == [i \in Nat |-> IF i \in 1 .. n THEN f[i] ELSE a]
<1>4. g \in [Nat -> Nat] /\ \A i \in Nat : g[i] \in S
  BY <1>2
<1>5. PICK i \in 0 .. n : \A j \in 0 .. n : g[j] <= g[i]
  BY <1>4, LargestValue
<1>6. \A s \in S : s <= g[i]
  <2> SUFFICES ASSUME NEW s \in S PROVE s <= g[i]
    OBVIOUS
  <2>1. PICK j \in 1 .. n : f[j] = s
    BY <1>2
  <2>2. g[j] = s /\ j \in 0 .. n
    BY <2>1
  <2> QED
    BY <1>5, <2>2
<1>7. g[i] \in S /\ i \in Nat
  BY <1>4, <1>5
<1> HIDE DEF g
<1> QED
  BY <1>6, <1>7

-----------------------------------------------------------------------------
(* Division *)

\* Quotient and remainder make up the number.
LEMMA Division ==
  ASSUME NEW x \in Nat, NEW n \in Nat \ {0}
  PROVE  /\ x \div n \in Nat
         /\ x % n \in 0 .. n - 1
         /\ x = (x \div n) * n + (x % n)
<1>1. x % n \in 0 .. n - 1
  OBVIOUS
<1>2. x \div n \in Int /\ x = (x \div n) * n + (x % n)
  OBVIOUS
<1> DEFINE q == x \div n
<1>3. q >= 0
  <2> SUFFICES ASSUME q <= -1 PROVE FALSE
    BY <1>2
  <2>1. q * n <= -n
    BY <1>2
  <2> QED
    BY <1>1, <1>2, <2>1
<1> QED
  BY <1>1, <1>2, <1>3

\* They are the only ones that do.
LEMMA DivisionUnique ==
  ASSUME NEW n \in Nat \ {0}, NEW a \in Nat, NEW b \in 0 .. n - 1
  PROVE  (a * n + b) \div n = a /\ (a * n + b) % n = b
<1> DEFINE x == a * n + b
           q == x \div n
           r == x % n
<1>1. x \in Nat
  OBVIOUS
<1>2. q \in Nat /\ r \in 0 .. n - 1 /\ x = q * n + r
  BY <1>1, Division
<1>3. a * n + b = q * n + r
  BY <1>2
<1> HIDE DEF x, q, r
<1>4. ~ (a < q)
  <2> SUFFICES ASSUME a + 1 <= q PROVE FALSE
    BY <1>2
  <2>1. (a + 1) * n <= q * n /\ (a + 1) * n = a * n + n
    BY <1>2
  <2> QED
    BY <1>2, <1>3, <2>1
<1>5. ~ (q < a)
  <2> SUFFICES ASSUME q + 1 <= a PROVE FALSE
    BY <1>2
  <2>1. (q + 1) * n <= a * n /\ (q + 1) * n = q * n + n
    BY <1>2
  <2> QED
    BY <1>2, <1>3, <2>1
<1>6. a = q
  BY <1>2, <1>4, <1>5
<1>7. b = r
  BY <1>2, <1>3, <1>6
<1> QED
  BY <1>6, <1>7 DEF q, r, x

-----------------------------------------------------------------------------
(* Sums *)

\* g sums f over the subsets of S, element by element, as a fold does.
SumsUp(g, f, S) ==
  g = [s \in SUBSET S |->
         IF s = {} THEN 0
         ELSE f[CHOOSE x \in s : TRUE] + g[s \ {CHOOSE x \in s : TRUE}]]

AddsUpTo(v, f, S) == \E g : SumsUp(g, f, S) /\ v = g[S]

IntValued(f, S) == \A x \in S : f[x] \in Int

Multiples(m, k, f, S) == \A x \in S : m[x] = k * f[x]

\* g[s] is the sum over s, from whichever element it is taken apart.
Additive(g, f, S) ==
  /\ g \in [SUBSET S -> Int]
  /\ g[{}] = 0
  /\ \A s \in SUBSET S : \A x \in s : g[s] = f[x] + g[s \ {x}]

\* Subsets of a finite set by their number of elements.
UpTo(S, n) == {s \in SUBSET S : Cardinality(s) <= n}

\* An element that is chosen leaves a set with one element less.
LEMMA ChosenElement ==
  ASSUME NEW S, IsFiniteSet(S), NEW s \in SUBSET S, s # {}
  PROVE  LET x == CHOOSE y \in s : TRUE
         IN  /\ x \in s /\ s \ {x} \in SUBSET S
             /\ Cardinality(s) \in Nat
             /\ Cardinality(s \ {x}) = Cardinality(s) - 1
             /\ Cardinality(s) > 0
<1> DEFINE x == CHOOSE y \in s : TRUE
<1>1. x \in s
  OBVIOUS
<1> HIDE DEF x
<1>2. IsFiniteSet(s)
  BY FS_Subset
<1>3. Cardinality(s \ {x}) = Cardinality(s) - 1
  BY <1>1, <1>2, FS_RemoveElement
<1>4. Cardinality(s) \in Nat /\ Cardinality(s) # 0
  BY <1>2, FS_CardinalityType, FS_EmptySet
<1> QED
  BY <1>1, <1>3, <1>4 DEF x

\* Induction over the subsets of a finite set: P holds of all if it holds of a
\* set whenever it holds of the smaller ones.
LEMMA SubsetInduction ==
  ASSUME NEW S, IsFiniteSet(S), NEW P \in SUBSET (SUBSET S),
         \A s \in SUBSET S :
           (\A t \in SUBSET S : Cardinality(t) < Cardinality(s) => t \in P) => s \in P
  PROVE  SUBSET S \subseteq P
<1> DEFINE E == {n \in Nat : \A s \in SUBSET S : Cardinality(s) < n => s \in P}
<1>1. \A s \in SUBSET S : Cardinality(s) \in Nat
  BY FS_Subset, FS_CardinalityType
<1>2. 0 \in E
  BY <1>1
<1>3. ASSUME NEW n \in Nat, n \in E PROVE n + 1 \in E
  <2> SUFFICES ASSUME NEW s \in SUBSET S, Cardinality(s) < n + 1 PROVE s \in P
    OBVIOUS
  <2>1. \A t \in SUBSET S : Cardinality(t) < Cardinality(s) => t \in P
    BY <1>1, <1>3
  <2> QED
    BY <2>1
<1> HIDE DEF E
<1>4. Nat \subseteq E
  BY <1>2, <1>3, SetInduction
<1>5. ASSUME NEW s \in SUBSET S PROVE s \in P
  <2>1. Cardinality(s) + 1 \in E /\ Cardinality(s) < Cardinality(s) + 1
    BY <1>1, <1>4
  <2> QED
    BY <2>1 DEF E
<1> QED
  BY <1>5

\* There is such a function: it is found for sets of one element more each time.
LEMMA SumExists ==
  ASSUME NEW S, IsFiniteSet(S), NEW f
  PROVE  \E g : SumsUp(g, f, S)
<1> DEFINE c(s) == CHOOSE x \in s : TRUE
           After(g, s) == IF s = {} THEN 0 ELSE f[c(s)] + g[s \ {c(s)}]
           E == {n \in Nat : \E g : g = [s \in UpTo(S, n) |-> After(g, s)]}
<1>1. \A s \in SUBSET S : s # {} =>
        /\ s \ {c(s)} \in SUBSET S
        /\ Cardinality(s) \in Nat /\ Cardinality(s) > 0
        /\ Cardinality(s \ {c(s)}) = Cardinality(s) - 1
  BY ChosenElement
<1>2. Cardinality({}) = 0 /\ \A s \in SUBSET S : Cardinality(s) \in Nat
  BY FS_EmptySet, FS_Subset, FS_CardinalityType
<1> HIDE DEF c
<1>3. 0 \in E
  <2> DEFINE g == [s \in UpTo(S, 0) |-> 0]
  <2>1. ASSUME NEW s \in UpTo(S, 0) PROVE s = {}
    <3>1. s \in SUBSET S /\ Cardinality(s) <= 0
      BY DEF UpTo
    <3>2. s # {} => Cardinality(s) \in Nat /\ Cardinality(s) > 0
      BY <1>1, <3>1
    <3> QED
      BY <3>1, <3>2
  <2>2. g = [s \in UpTo(S, 0) |-> After(g, s)]
    BY <2>1
  <2> HIDE DEF g
  <2> QED
    BY <2>2
<1>4. ASSUME NEW n \in Nat, n \in E PROVE n + 1 \in E
  <2>1. PICK g : g = [s \in UpTo(S, n) |-> After(g, s)]
    BY <1>4
  <2> DEFINE h == [s \in UpTo(S, n + 1) |-> After(g, s)]
  <2>2. ASSUME NEW s \in UpTo(S, n + 1) PROVE h[s] = After(h, s)
    <3>1. CASE s = {}
      BY <3>1
    <3>2. CASE s # {}
      <4> DEFINE t == s \ {c(s)}
      <4>1. t \in UpTo(S, n) /\ t \in UpTo(S, n + 1)
        BY <1>1, <3>2 DEF UpTo
      <4>2. h[t] = After(g, t) /\ g[t] = After(g, t)
        <5> HIDE DEF t, After
        <5> QED
          BY <2>1, <4>1
      <4>3. h[s] = After(g, s)
        <5> HIDE DEF After
        <5> QED
          OBVIOUS
      <4> HIDE DEF h
      <4> QED
        BY <3>2, <4>2, <4>3
    <3> QED
      BY <3>1, <3>2
  <2>3. h = [s \in UpTo(S, n + 1) |-> After(h, s)]
    <3>1. h = [s \in UpTo(S, n + 1) |-> h[s]]
      <4> HIDE DEF After
      <4> QED
        OBVIOUS
    <3> HIDE DEF h, After
    <3> QED
      BY <2>2, <3>1
  <2>4. \E k : k = [s \in UpTo(S, n + 1) |-> After(k, s)]
    <3> HIDE DEF h, After
    <3> QED
      BY <2>3
  <2> DEFINE m == n + 1
  <2>5. m \in Nat /\ \E k : k = [s \in UpTo(S, m) |-> After(k, s)]
    <3> HIDE DEF After
    <3> QED
      BY <2>4
  <2> HIDE DEF m, After
  <2> QED
    BY <2>5 DEF m
<1> HIDE DEF E
<1>5. Nat \subseteq E
  BY <1>3, <1>4, SetInduction
<1> DEFINE top == Cardinality(S)
<1>6. top \in Nat /\ UpTo(S, top) = SUBSET S
  <2>1. \A s \in SUBSET S : Cardinality(s) <= top
    BY FS_Subset
  <2> QED
    BY <1>2, <2>1 DEF UpTo
<1>7. PICK g : g = [s \in UpTo(S, top) |-> After(g, s)]
  <2> HIDE DEF top, After
  <2> QED
    BY <1>5, <1>6 DEF E
<1>8. g = [s \in SUBSET S |-> After(g, s)]
  BY <1>6, <1>7
<1>9. SumsUp(g, f, S)
  BY <1>8 DEF SumsUp, c
<1> QED
  BY <1>9

\* A sum that is taken apart at any element, not only at the one chosen.
LEMMA SumTakenApart ==
  ASSUME NEW S, IsFiniteSet(S), NEW f, IntValued(f, S),
         NEW g, SumsUp(g, f, S)
  PROVE  Additive(g, f, S)
<1> DEFINE c(s) == CHOOSE x \in s : TRUE
<1>1. \A s \in SUBSET S : s # {} =>
        /\ c(s) \in s /\ s \ {c(s)} \in SUBSET S
        /\ Cardinality(s) \in Nat /\ Cardinality(s) > 0
        /\ Cardinality(s \ {c(s)}) = Cardinality(s) - 1
  BY ChosenElement
<1>2. /\ DOMAIN g = SUBSET S
      /\ \A s \in SUBSET S : g[s] = IF s = {} THEN 0 ELSE f[c(s)] + g[s \ {c(s)}]
  BY DEF SumsUp
<1>3. g = [s \in SUBSET S |-> g[s]]
  BY DEF SumsUp
<1> HIDE DEF c
<1>4. g[{}] = 0
  BY <1>2
<1> DEFINE P == {s \in SUBSET S : g[s] \in Int}
<1>5. ASSUME NEW s \in SUBSET S,
             \A t \in SUBSET S : Cardinality(t) < Cardinality(s) => t \in P
      PROVE  s \in P
  <2>1. CASE s = {}
    BY <1>4, <2>1
  <2>2. CASE s # {}
    <3> DEFINE t == s \ {c(s)}
    <3>1. t \in SUBSET S /\ Cardinality(t) < Cardinality(s) /\ c(s) \in S
      BY <1>1, <2>2
    <3>2. g[t] \in Int /\ f[c(s)] \in Int
      <4>1. t \in P
        BY <1>5, <3>1
      <4> HIDE DEF t
      <4> QED
        BY <3>1, <4>1 DEF IntValued
    <3>3. g[s] = f[c(s)] + g[t]
      BY <1>2, <2>2
    <3> HIDE DEF t
    <3> QED
      BY <3>2, <3>3
  <2> QED
    BY <2>1, <2>2
<1>6. SUBSET S \subseteq P
  <2> HIDE DEF P
  <2>1. P \in SUBSET (SUBSET S)
    BY DEF P
  <2> QED
    BY <1>5, <2>1, SubsetInduction
<1>7. \A s \in SUBSET S : g[s] \in Int
  BY <1>6
<1> HIDE DEF P
<1> DEFINE Q == {s \in SUBSET S : \A x \in s : g[s] = f[x] + g[s \ {x}]}
<1>8. ASSUME NEW s \in SUBSET S,
             \A t \in SUBSET S : Cardinality(t) < Cardinality(s) => t \in Q
      PROVE  s \in Q
  <2> SUFFICES ASSUME NEW x \in s PROVE g[s] = f[x] + g[s \ {x}]
    OBVIOUS
  <2> DEFINE a == c(s)
  <2>1. /\ s # {} /\ a \in s /\ IsFiniteSet(s)
        /\ g[s] = f[a] + g[s \ {a}]
    BY <1>1, <1>2, FS_Subset
  <2>2. CASE x = a
    BY <2>1, <2>2
  <2>3. CASE x # a
    <3> DEFINE t == s \ {a}
               u == s \ {x}
               w == s \ {a, x}
    <3>1. /\ t \in SUBSET S /\ u \in SUBSET S /\ w \in SUBSET S
          /\ x \in t /\ a \in u /\ t \ {x} = w /\ u \ {a} = w
      BY <2>1, <2>3
    <3>2. Cardinality(t) < Cardinality(s) /\ Cardinality(u) < Cardinality(s)
      <4> HIDE DEF a
      <4>1. /\ Cardinality(t) = Cardinality(s) - 1 /\ Cardinality(u) = Cardinality(s) - 1
            /\ Cardinality(s) \in Nat
        BY <2>1, FS_RemoveElement, FS_CardinalityType
      <4> QED
        BY <4>1
    <3> HIDE DEF t, u, w, a
    <3>3. g[t] = f[x] + g[w]
      BY <1>8, <3>1, <3>2
    <3>4. g[u] = f[a] + g[w]
      BY <1>8, <3>1, <3>2
    <3>5. f[x] \in Int /\ f[a] \in Int /\ g[w] \in Int
      BY <1>7, <2>1, <3>1 DEF IntValued
    <3>6. g[s] = f[a] + g[t]
      BY <2>1 DEF t
    <3>7. g[s] = f[x] + g[u]
      BY <3>3, <3>4, <3>5, <3>6
    <3> QED
      BY <3>7 DEF u
  <2> QED
    BY <2>2, <2>3
<1>9. SUBSET S \subseteq Q
  <2> HIDE DEF Q
  <2>1. Q \in SUBSET (SUBSET S)
    BY DEF Q
  <2> QED
    BY <1>8, <2>1, SubsetInduction
<1>10. \A s \in SUBSET S : \A x \in s : g[s] = f[x] + g[s \ {x}]
  BY <1>9
<1>11. g \in [SUBSET S -> Int]
  BY <1>3, <1>7
<1> QED
  BY <1>4, <1>10, <1>11 DEF Additive

\* Induction over the subsets of a finite set, one element at a time.
LEMMA RemovalInduction ==
  ASSUME NEW S, IsFiniteSet(S), NEW P \in SUBSET (SUBSET S), {} \in P,
         \A s \in SUBSET S : \A x \in s : s \ {x} \in P => s \in P
  PROVE  S \in P
<1>1. ASSUME NEW s \in SUBSET S,
             \A t \in SUBSET S : Cardinality(t) < Cardinality(s) => t \in P
      PROVE  s \in P
  <2>1. CASE s = {}
    BY <2>1
  <2>2. CASE s # {}
    <3> DEFINE x == CHOOSE y \in s : TRUE
    <3>1. /\ x \in s /\ s \ {x} \in SUBSET S /\ Cardinality(s) \in Nat
          /\ Cardinality(s \ {x}) = Cardinality(s) - 1
      BY <2>2, ChosenElement
    <3> HIDE DEF x
    <3>2. s \ {x} \in P
      <4> DEFINE t == s \ {x}
      <4>1. t \in SUBSET S /\ Cardinality(t) < Cardinality(s)
        BY <3>1
      <4> HIDE DEF t
      <4>2. t \in P
        BY <1>1, <4>1
      <4> QED
        BY <4>2 DEF t
    <3> QED
      BY <3>1, <3>2
  <2> QED
    BY <2>1, <2>2
<1>2. SUBSET S \subseteq P
  BY <1>1, SubsetInduction
<1> QED
  BY <1>2

LEMMA SumHasParts ==
  ASSUME NEW S, IsFiniteSet(S), NEW f, IntValued(f, S), NEW v, AddsUpTo(v, f, S)
  PROVE  \E g : Additive(g, f, S) /\ v = g[S]
<1>1. PICK g : SumsUp(g, f, S) /\ v = g[S]
  BY DEF AddsUpTo
<1>2. Additive(g, f, S)
  BY <1>1, SumTakenApart, Zenon
<1> QED
  BY <1>1, <1>2

\* Nothing adds up to nothing.
LEMMA SumOfNone ==
  ASSUME NEW v, NEW f, AddsUpTo(v, f, {})
  PROVE  v = 0
<1>1. PICK g : SumsUp(g, f, {}) /\ v = g[{}]
  BY DEF AddsUpTo
<1>2. {} \in SUBSET {}
  OBVIOUS
<1> QED
  BY <1>1, <1>2 DEF SumsUp

\* One more element adds its value.
LEMMA SumOfOneMore ==
  ASSUME NEW S, IsFiniteSet(S), NEW a, a \notin S,
         NEW f, IntValued(f, S \cup {a}),
         NEW v, AddsUpTo(v, f, S), NEW w, AddsUpTo(w, f, S \cup {a})
  PROVE  v \in Int /\ w = v + f[a]
<1> DEFINE T == S \cup {a}
<1>1. PICK g : Additive(g, f, S) /\ v = g[S]
  <2>1. IntValued(f, S)
    BY DEF IntValued
  <2> QED
    BY <2>1, SumHasParts
<1>2. PICK h : Additive(h, f, T) /\ w = h[T]
  <2>1. IsFiniteSet(T)
    BY FS_AddElement
  <2> HIDE DEF T
  <2>2. IntValued(f, T) /\ AddsUpTo(w, f, T)
    BY DEF T
  <2> QED
    BY <2>1, <2>2, SumHasParts
<1> DEFINE P == {s \in SUBSET S : g[s] = h[s]}
<1>3. {} \in P
  BY <1>1, <1>2 DEF Additive
<1>4. ASSUME NEW s \in SUBSET S, NEW x \in s, s \ {x} \in P PROVE s \in P
  <2>1. g[s] = f[x] + g[s \ {x}] /\ h[s] = f[x] + h[s \ {x}]
    BY <1>1, <1>2 DEF Additive
  <2> QED
    BY <1>4, <2>1
<1>5. S \in P
  <2> HIDE DEF P
  <2>1. P \in SUBSET (SUBSET S)
    BY DEF P
  <2> QED
    BY <1>3, <1>4, <2>1, RemovalInduction
<1>6. h[T] = f[a] + h[T \ {a}] /\ T \ {a} = S /\ f[a] \in Int
  BY <1>2 DEF Additive, IntValued
<1>7. g[S] = h[S] /\ g[S] \in Int
  BY <1>1, <1>5 DEF Additive
<1> HIDE DEF T, P
<1>8. h[T] = f[a] + h[S]
  BY <1>6
<1> QED
  BY <1>1, <1>2, <1>6, <1>7, <1>8

\* Values that are k times others have a sum that is k times theirs.
LEMMA SumOfMultiples ==
  ASSUME NEW S, IsFiniteSet(S), NEW k \in Int,
         NEW f, IntValued(f, S), NEW m, Multiples(m, k, f, S),
         NEW v, AddsUpTo(v, f, S), NEW w, AddsUpTo(w, m, S)
  PROVE  v \in Int /\ w = k * v
<1>1. PICK g : Additive(g, f, S) /\ v = g[S]
  BY SumHasParts
<1>2. PICK h : Additive(h, m, S) /\ w = h[S]
  <2>1. IntValued(m, S)
    BY DEF IntValued, Multiples
  <2> QED
    BY <2>1, SumHasParts
<1> DEFINE P == {s \in SUBSET S : h[s] = k * g[s]}
<1>3. {} \in P
  BY <1>1, <1>2 DEF Additive
<1>4. ASSUME NEW s \in SUBSET S, NEW x \in s, s \ {x} \in P PROVE s \in P
  <2> DEFINE t == s \ {x}
  <2>1. /\ g[s] = f[x] + g[t] /\ h[s] = m[x] + h[t]
        /\ f[x] \in Int /\ m[x] = k * f[x] /\ g[t] \in Int /\ h[t] = k * g[t]
    BY <1>1, <1>2, <1>4 DEF Additive, IntValued, Multiples
  <2> HIDE DEF t
  <2>2. k * (f[x] + g[t]) = k * f[x] + k * g[t]
    BY <2>1
  <2>3. h[s] = k * g[s]
    BY <2>1, <2>2
  <2> QED
    BY <2>3
<1>5. S \in P
  <2> HIDE DEF P
  <2>1. P \in SUBSET (SUBSET S)
    BY DEF P
  <2> QED
    BY <1>3, <1>4, <2>1, RemovalInduction
<1> QED
  BY <1>1, <1>2, <1>5 DEF Additive

\* The same value for each element.
LEMMA SumOfEqual ==
  ASSUME NEW S, IsFiniteSet(S), NEW k \in Int,
         NEW f, NEW v, AddsUpTo(v, f, S), \A x \in S : f[x] = k
  PROVE  v = k * Cardinality(S)
<1>1. PICK g : Additive(g, f, S) /\ v = g[S]
  <2>1. IntValued(f, S)
    BY DEF IntValued
  <2> QED
    BY <2>1, SumHasParts
<1> DEFINE P == {s \in SUBSET S : g[s] = k * Cardinality(s)}
<1>2. {} \in P
  BY <1>1, FS_EmptySet DEF Additive
<1>3. ASSUME NEW s \in SUBSET S, NEW x \in s, s \ {x} \in P PROVE s \in P
  <2> DEFINE t == s \ {x}
  <2>1. g[s] = k + g[t] /\ g[t] = k * Cardinality(t)
    BY <1>1, <1>3 DEF Additive
  <2>2. Cardinality(t) = Cardinality(s) - 1 /\ Cardinality(s) \in Nat
    BY FS_Subset, FS_RemoveElement, FS_CardinalityType
  <2> HIDE DEF t
  <2>3. \A n \in Nat : k * (n - 1) = k * n - k /\ k * n \in Int
    OBVIOUS
  <2>4. g[s] = k * Cardinality(s)
    BY <2>1, <2>2, <2>3
  <2> QED
    BY <2>4
<1>4. S \in P
  <2> HIDE DEF P
  <2>1. P \in SUBSET (SUBSET S)
    BY DEF P
  <2> QED
    BY <1>2, <1>3, <2>1, RemovalInduction
<1> QED
  BY <1>1, <1>4

\* A sum of positive numbers over a set that is not empty is positive.
LEMMA SumOfPositive ==
  ASSUME NEW S, IsFiniteSet(S), S # {},
         NEW f, NEW v, AddsUpTo(v, f, S), \A x \in S : f[x] \in Nat \ {0}
  PROVE  v \in Nat \ {0}
<1>1. PICK g : Additive(g, f, S) /\ v = g[S]
  <2>1. IntValued(f, S)
    BY DEF IntValued
  <2> QED
    BY <2>1, SumHasParts
<1> DEFINE P == {s \in SUBSET S : g[s] \in Nat /\ (s # {} => g[s] # 0)}
<1>2. {} \in P
  BY <1>1 DEF Additive
<1>3. ASSUME NEW s \in SUBSET S, NEW x \in s, s \ {x} \in P PROVE s \in P
  <2> DEFINE t == s \ {x}
  <2>1. g[s] = f[x] + g[t] /\ g[t] \in Nat /\ f[x] \in Nat \ {0}
    BY <1>1, <1>3 DEF Additive
  <2> HIDE DEF t
  <2> QED
    BY <2>1
<1>4. S \in P
  <2> HIDE DEF P
  <2>1. P \in SUBSET (SUBSET S)
    BY DEF P
  <2> QED
    BY <1>2, <1>3, <2>1, RemovalInduction
<1> QED
  BY <1>1, <1>4

-----------------------------------------------------------------------------
(* The sum itself *)

\* The sum of f over S.
TotalOf(f, S) == (CHOOSE g : SumsUp(g, f, S))[S]

\* A sum depends on the values alone.
LEMMA SumOfSame ==
  ASSUME NEW S, IsFiniteSet(S), NEW f, IntValued(f, S), NEW h, \A x \in S : h[x] = f[x],
         NEW v, AddsUpTo(v, f, S), NEW w, AddsUpTo(w, h, S)
  PROVE  v \in Int /\ w = v
<1>1. Multiples(h, 1, f, S)
  BY DEF Multiples, IntValued
<1>2. 1 \in Int
  OBVIOUS
<1>3. v \in Int /\ w = 1 * v
  BY <1>1, <1>2, SumOfMultiples
<1> QED
  BY <1>3

LEMMA TotalAddsUp ==
  ASSUME NEW S, IsFiniteSet(S), NEW f
  PROVE  AddsUpTo(TotalOf(f, S), f, S)
<1>1. \E g : SumsUp(g, f, S)
  BY SumExists
<1>2. SumsUp(CHOOSE g : SumsUp(g, f, S), f, S)
  BY <1>1
<1> QED
  BY <1>2 DEF AddsUpTo, TotalOf

LEMMA TotalIsSum ==
  ASSUME NEW S, IsFiniteSet(S), NEW f, IntValued(f, S), NEW v, AddsUpTo(v, f, S)
  PROVE  v = TotalOf(f, S)
<1>1. AddsUpTo(TotalOf(f, S), f, S)
  BY TotalAddsUp
<1>2. \A x \in S : f[x] = f[x]
  OBVIOUS
<1> QED
  BY <1>1, <1>2, SumOfSame

LEMMA TotalType ==
  ASSUME NEW S, IsFiniteSet(S), NEW f, IntValued(f, S)
  PROVE  TotalOf(f, S) \in Int
<1>1. AddsUpTo(TotalOf(f, S), f, S)
  BY TotalAddsUp
<1>2. \A x \in S : f[x] = f[x]
  OBVIOUS
<1> QED
  BY <1>1, <1>2, SumOfSame

LEMMA TotalSame ==
  ASSUME NEW S, IsFiniteSet(S), NEW f, IntValued(f, S), NEW h, \A x \in S : h[x] = f[x]
  PROVE  TotalOf(h, S) = TotalOf(f, S)
<1>1. AddsUpTo(TotalOf(f, S), f, S) /\ AddsUpTo(TotalOf(h, S), h, S)
  BY TotalAddsUp
<1> QED
  BY <1>1, SumOfSame

LEMMA TotalOfNone ==
  ASSUME NEW f
  PROVE  TotalOf(f, {}) = 0
BY TotalAddsUp, SumOfNone, FS_EmptySet

LEMMA TotalTakenApart ==
  ASSUME NEW S, IsFiniteSet(S), NEW f, IntValued(f, S), NEW x \in S
  PROVE  TotalOf(f, S \ {x}) \in Int /\ TotalOf(f, S) = f[x] + TotalOf(f, S \ {x})
<1> DEFINE T == S \ {x}
           v == TotalOf(f, T)
           w == TotalOf(f, S)
<1>1. IsFiniteSet(T) /\ x \notin T /\ T \cup {x} = S
  BY FS_RemoveElement
<1>2. AddsUpTo(v, f, T) /\ AddsUpTo(w, f, S)
  BY <1>1, TotalAddsUp
<1> HIDE DEF T, v, w
<1>3. AddsUpTo(w, f, T \cup {x}) /\ IntValued(f, T \cup {x})
  BY <1>1, <1>2
<1>4. v \in Int /\ w = v + f[x]
  BY <1>1, <1>2, <1>3, SumOfOneMore
<1>5. f[x] \in Int
  BY DEF IntValued
<1> QED
  BY <1>4, <1>5 DEF v, w, T

LEMMA TotalOfMultiples ==
  ASSUME NEW S, IsFiniteSet(S), NEW k \in Int, NEW f, IntValued(f, S),
         NEW m, Multiples(m, k, f, S)
  PROVE  TotalOf(m, S) = k * TotalOf(f, S)
<1>1. AddsUpTo(TotalOf(f, S), f, S) /\ AddsUpTo(TotalOf(m, S), m, S)
  BY TotalAddsUp
<1> DEFINE v == TotalOf(f, S)
           w == TotalOf(m, S)
<1> HIDE DEF v, w
<1>2. AddsUpTo(v, f, S) /\ AddsUpTo(w, m, S)
  BY <1>1 DEF v, w
<1>3. v \in Int /\ w = k * v
  BY <1>2, SumOfMultiples
<1> QED
  BY <1>3 DEF v, w

\* The sum over a part is a sum over the whole, with 0 outside of the part.
LEMMA TotalOfPart ==
  ASSUME NEW S, IsFiniteSet(S), NEW A \in SUBSET S, NEW f, IntValued(f, A),
         NEW h, \A x \in S : h[x] = IF x \in A THEN f[x] ELSE 0
  PROVE  IntValued(h, S) /\ TotalOf(h, S) = TotalOf(f, A)
<1> DEFINE P == {s \in SUBSET S : TotalOf(h, s) = TotalOf(f, s \cap A)}
<1>1. IntValued(h, S)
  BY DEF IntValued
<1>2. {} \in P
  <2>1. {} \cap A = {}
    OBVIOUS
  <2> QED
    BY <2>1, TotalOfNone
<1>3. ASSUME NEW s \in SUBSET S, NEW x \in s, s \ {x} \in P PROVE s \in P
  <2> DEFINE t == s \ {x}
             B == s \cap A
  <2>1. IsFiniteSet(s) /\ IsFiniteSet(B) /\ IntValued(h, s) /\ IntValued(f, B)
    BY <1>1, FS_Subset DEF IntValued
  <2>2. TotalOf(h, t) \in Int /\ TotalOf(h, s) = h[x] + TotalOf(h, t)
    <3> HIDE DEF B
    <3> QED
      BY <2>1, TotalTakenApart
  <2>3. TotalOf(h, t) = TotalOf(f, t \cap A)
    BY <1>3
  <2>4. CASE x \in A
    <3>1. x \in B /\ B \ {x} = t \cap A /\ h[x] = f[x]
      BY <2>4
    <3>2. TotalOf(f, B) = f[x] + TotalOf(f, B \ {x})
      <4> HIDE DEF B
      <4> QED
        BY <2>1, <3>1, TotalTakenApart
    <3>3. TotalOf(h, s) = TotalOf(f, B)
      <4> HIDE DEF B, t
      <4> QED
        BY <2>2, <2>3, <3>1, <3>2
    <3> QED
      BY <3>3
  <2>5. CASE x \notin A
    <3>1. B = t \cap A /\ h[x] = 0
      BY <2>5
    <3>2. TotalOf(h, s) = TotalOf(f, B)
      <4> HIDE DEF B, t
      <4> QED
        BY <2>2, <2>3, <3>1
    <3> QED
      BY <3>2
  <2> QED
    BY <2>4, <2>5
<1>4. S \in P
  <2> HIDE DEF P
  <2>1. P \in SUBSET (SUBSET S)
    BY DEF P
  <2> QED
    BY <1>2, <1>3, <2>1, RemovalInduction
<1>5. S \cap A = A
  OBVIOUS
<1> QED
  BY <1>1, <1>4, <1>5

LEMMA TotalOfSums ==
  ASSUME NEW S, IsFiniteSet(S), NEW f, IntValued(f, S), NEW h, IntValued(h, S),
         NEW m, \A x \in S : m[x] = f[x] + h[x]
  PROVE  TotalOf(m, S) = TotalOf(f, S) + TotalOf(h, S)
<1> DEFINE P == {s \in SUBSET S : TotalOf(m, s) = TotalOf(f, s) + TotalOf(h, s)}
<1>1. IntValued(m, S)
  BY DEF IntValued
<1>2. {} \in P
  BY TotalOfNone
<1>3. ASSUME NEW s \in SUBSET S, NEW x \in s, s \ {x} \in P PROVE s \in P
  <2> DEFINE t == s \ {x}
  <2>1. IsFiniteSet(s) /\ IntValued(f, s) /\ IntValued(h, s) /\ IntValued(m, s)
    BY <1>1, FS_Subset DEF IntValued
  <2>2. /\ TotalOf(f, t) \in Int /\ TotalOf(f, s) = f[x] + TotalOf(f, t)
        /\ TotalOf(h, t) \in Int /\ TotalOf(h, s) = h[x] + TotalOf(h, t)
        /\ TotalOf(m, t) \in Int /\ TotalOf(m, s) = m[x] + TotalOf(m, t)
    BY <2>1, TotalTakenApart
  <2>3. TotalOf(m, t) = TotalOf(f, t) + TotalOf(h, t)
    BY <1>3
  <2>4. f[x] \in Int /\ h[x] \in Int /\ m[x] = f[x] + h[x]
    BY <2>1 DEF IntValued
  <2> HIDE DEF t
  <2>5. TotalOf(m, s) = TotalOf(f, s) + TotalOf(h, s)
    BY <2>2, <2>3, <2>4
  <2> QED
    BY <2>5
<1>4. S \in P
  <2> HIDE DEF P
  <2>1. P \in SUBSET (SUBSET S)
    BY DEF P
  <2> QED
    BY <1>2, <1>3, <2>1, RemovalInduction
<1> QED
  BY <1>4

\* The same value for each element.
LEMMA TotalOfEqual ==
  ASSUME NEW S, IsFiniteSet(S), NEW k \in Int, NEW f, \A x \in S : f[x] = k
  PROVE  TotalOf(f, S) = k * Cardinality(S)
<1> DEFINE v == TotalOf(f, S)
<1>1. AddsUpTo(v, f, S)
  BY TotalAddsUp
<1> HIDE DEF v
<1>2. v = k * Cardinality(S)
  BY <1>1, SumOfEqual
<1> QED
  BY <1>2 DEF v

\* f[d][e] is the entry of row d and column e.
Entries(f, D, E) == \A d \in D : \A e \in E : f[d][e] \in Int
ByRows(f, D, E) == TotalOf([d \in D |-> TotalOf(f[d], E)], D)
ByColumns(f, D, E) == TotalOf([e \in E |-> TotalOf([d \in D |-> f[d][e]], D)], E)

LEMMA TotalsExchanged ==
  ASSUME NEW D, IsFiniteSet(D), NEW E, IsFiniteSet(E),
         NEW f, Entries(f, D, E)
  PROVE  ByRows(f, D, E) = ByColumns(f, D, E)
<1> DEFINE rows == [d \in D |-> TotalOf(f[d], E)]
           column(e) == [d \in D |-> f[d][e]]
           columns(s) == [e \in E |-> TotalOf(column(e), s)]
           P == {s \in SUBSET D : TotalOf(rows, s) = TotalOf(columns(s), E)}
<1>1. \A d \in D : IntValued(f[d], E) /\ rows[d] = TotalOf(f[d], E) /\ rows[d] \in Int
  <2>1. \A d \in D : IntValued(f[d], E)
    BY DEF IntValued, Entries
  <2> QED
    BY <2>1, TotalType
<1>2. \A e \in E : IntValued(column(e), D)
  BY DEF IntValued, Entries
<1>3. {} \in P
  <2>1. \A e \in E : columns({})[e] = 0
    BY TotalOfNone
  <2>2. TotalOf(columns({}), E) = 0 * Cardinality(E)
    <3> HIDE DEF columns
    <3> QED
      BY <2>1, TotalOfEqual
  <2>3. Cardinality(E) \in Nat
    BY FS_CardinalityType
  <2>4. TotalOf(rows, {}) = 0
    BY TotalOfNone
  <2>5. TotalOf(rows, {}) = TotalOf(columns({}), E)
    <3> HIDE DEF columns, rows
    <3> QED
      BY <2>2, <2>3, <2>4
  <2> QED
    BY <2>5
<1>4. ASSUME NEW s \in SUBSET D, NEW x \in s, s \ {x} \in P PROVE s \in P
  <2> DEFINE t == s \ {x}
  <2>1. IsFiniteSet(s) /\ t \in SUBSET D /\ x \in D
    BY FS_Subset
  <2>2. TotalOf(rows, s) = rows[x] + TotalOf(rows, t)
    <3> HIDE DEF rows
    <3>1. IntValued(rows, s)
      BY <1>1 DEF IntValued
    <3> QED
      BY <2>1, <3>1, TotalTakenApart
  <2>3. ASSUME NEW e \in E
        PROVE  /\ columns(t)[e] \in Int
               /\ columns(s)[e] = f[x][e] + columns(t)[e]
    <3> DEFINE h == column(e)
    <3>1. IntValued(h, s) /\ h[x] = f[x][e]
      BY <1>2, <2>1 DEF IntValued
    <3> HIDE DEF h
    <3>2. TotalOf(h, t) \in Int /\ TotalOf(h, s) = h[x] + TotalOf(h, t)
      BY <2>1, <3>1, TotalTakenApart
    <3>3. columns(t)[e] = TotalOf(h, t) /\ columns(s)[e] = TotalOf(h, s)
      BY DEF h
    <3> HIDE DEF columns
    <3> QED
      BY <3>1, <3>2, <3>3
  <2>4. TotalOf(columns(s), E) = TotalOf(f[x], E) + TotalOf(columns(t), E)
    <3> DEFINE a == columns(s)
               b == columns(t)
               r == f[x]
    <3>1. \A e \in E : a[e] = r[e] + b[e]
      BY <2>3
    <3>2. IntValued(b, E) /\ IntValued(r, E)
      BY <1>1, <2>1, <2>3 DEF IntValued
    <3> HIDE DEF a, b, r
    <3>3. TotalOf(a, E) = TotalOf(r, E) + TotalOf(b, E)
      BY <3>1, <3>2, TotalOfSums
    <3> QED
      BY <3>3 DEF a, b, r
  <2>5. TotalOf(rows, t) = TotalOf(columns(t), E)
    BY <1>4
  <2>6. TotalOf(rows, s) = TotalOf(columns(s), E)
    <3>1. rows[x] = TotalOf(f[x], E)
      BY <2>1
    <3> HIDE DEF rows, columns
    <3> QED
      BY <2>2, <2>4, <2>5, <3>1
  <2> QED
    BY <2>6
<1>5. D \in P
  <2> HIDE DEF P
  <2>1. P \in SUBSET (SUBSET D)
    BY DEF P
  <2> QED
    BY <1>3, <1>4, <2>1, RemovalInduction
<1> QED
  BY <1>5 DEF ByRows, ByColumns

\* D falls into groups of n elements, one for each element of R, and f has the
\* same value, that of h, throughout a group.
InGroupsOf(n, group, D, R) ==
  /\ group \in [D -> R]
  /\ \A r \in R : Cardinality({d \in D : group[d] = r}) = n

SameInGroup(f, h, group, D) == \A d \in D : f[d] = h[group[d]]

\* A sum over the groups.
LEMMA TotalOverGroups ==
  ASSUME NEW D, IsFiniteSet(D), NEW R, IsFiniteSet(R), NEW n \in Nat,
         NEW group, InGroupsOf(n, group, D, R),
         NEW h, IntValued(h, R), NEW f, SameInGroup(f, h, group, D)
  PROVE  TotalOf(f, D) = n * TotalOf(h, R)
<1> USE DEF InGroupsOf, SameInGroup
<1> DEFINE m == [d \in D |-> [r \in R |-> IF group[d] = r THEN h[r] ELSE 0]]
           rows == [d \in D |-> TotalOf(m[d], R)]
           column(r) == [d \in D |-> m[d][r]]
           columns == [r \in R |-> TotalOf(column(r), D)]
<1>1. TotalOf(rows, D) = TotalOf(columns, R)
  <2>1. Entries(m, D, R)
    BY DEF IntValued, Entries
  <2> HIDE DEF m
  <2>2. ByRows(m, D, R) = ByColumns(m, D, R)
    BY <2>1, TotalsExchanged
  <2> QED
    BY <2>2 DEF ByRows, ByColumns
<1>2. ASSUME NEW d \in D PROVE rows[d] = f[d]
  <2> DEFINE k == group[d]
             A == {k}
             w == m[d]
  <2>1. A \in SUBSET R /\ IntValued(h, A) /\ IsFiniteSet(A)
    BY FS_Singleton DEF IntValued
  <2>2. \A r \in R : w[r] = IF r \in A THEN h[r] ELSE 0
    OBVIOUS
  <2>3. TotalOf(w, R) = TotalOf(h, A)
    <3> HIDE DEF A, w
    <3> QED
      BY <2>1, <2>2, TotalOfPart
  <2>4. TotalOf(h, A) = h[k] + TotalOf(h, A \ {k}) /\ A \ {k} = {} /\ h[k] \in Int
    <3>1. k \in A /\ h[k] \in Int
      BY DEF IntValued
    <3>2. A \ {k} = {}
      OBVIOUS
    <3> HIDE DEF A, k
    <3> QED
      BY <2>1, <3>1, <3>2, TotalTakenApart
  <2>5. TotalOf(h, A) = h[k]
    <3> HIDE DEF A, k
    <3> QED
      BY <2>4, TotalOfNone
  <2> QED
    BY <2>3, <2>5
<1>3. ASSUME NEW r \in R PROVE columns[r] = n * h[r]
  <2> DEFINE A == {d \in D : group[d] = r}
             w == column(r)
             one == [d \in A |-> h[r]]
  <2>1. A \in SUBSET D /\ IsFiniteSet(A) /\ h[r] \in Int /\ IntValued(one, A)
    BY FS_Subset DEF IntValued
  <2>2. \A d \in D : w[d] = IF d \in A THEN one[d] ELSE 0
    OBVIOUS
  <2>3. TotalOf(w, D) = TotalOf(one, A)
    <3> HIDE DEF A, w, one
    <3> QED
      BY <2>1, <2>2, TotalOfPart
  <2>4. TotalOf(one, A) = h[r] * Cardinality(A)
    <3>1. \A d \in A : one[d] = h[r]
      OBVIOUS
    <3> HIDE DEF A, one
    <3> QED
      BY <2>1, <3>1, TotalOfEqual
  <2>5. h[r] * n = n * h[r]
    BY <2>1
  <2> QED
    BY <2>3, <2>4, <2>5
<1>4. TotalOf(columns, R) = n * TotalOf(h, R)
  <2>1. Multiples(columns, n, h, R)
    <3> HIDE DEF columns
    <3> QED
      BY <1>3 DEF Multiples
  <2> HIDE DEF columns
  <2> QED
    BY <2>1, TotalOfMultiples
<1>5. TotalOf(rows, D) = TotalOf(f, D)
  <2>1. IntValued(f, D)
    BY DEF IntValued
  <2> HIDE DEF rows
  <2> QED
    BY <1>2, <2>1, TotalSame
<1> HIDE DEF rows, columns
<1> QED
  BY <1>1, <1>4, <1>5

LEMMA TotalOfNaturals ==
  ASSUME NEW S, IsFiniteSet(S), NEW f, \A x \in S : f[x] \in Nat
  PROVE  TotalOf(f, S) \in Nat
<1> DEFINE P == {s \in SUBSET S : TotalOf(f, s) \in Nat}
<1>1. {} \in P
  BY TotalOfNone
<1>2. ASSUME NEW s \in SUBSET S, NEW x \in s, s \ {x} \in P PROVE s \in P
  <2> DEFINE v == TotalOf(f, s)
             w == TotalOf(f, s \ {x})
  <2>1. IsFiniteSet(s) /\ IntValued(f, s)
    BY FS_Subset DEF IntValued
  <2>2. v = f[x] + w /\ f[x] \in Nat /\ w \in Nat
    BY <1>2, <2>1, TotalTakenApart
  <2> HIDE DEF v, w
  <2>3. v \in Nat
    BY <2>2
  <2> QED
    BY <2>3 DEF v
<1>3. S \in P
  <2> HIDE DEF P
  <2>1. P \in SUBSET (SUBSET S)
    BY DEF P
  <2> QED
    BY <1>1, <1>2, <2>1, RemovalInduction
<1> QED
  BY <1>3

\* What adds up like a sum is that sum.
LEMMA SummedTotal ==
  ASSUME NEW S, IsFiniteSet(S), NEW f, IntValued(f, S), NEW iter, SumsUp(iter, f, S)
  PROVE  iter[S] = TotalOf(f, S)
<1>1. AddsUpTo(iter[S], f, S)
  BY DEF AddsUpTo
<1> DEFINE v == iter[S]
<1> HIDE DEF v
<1>2. AddsUpTo(v, f, S)
  BY <1>1 DEF v
<1>3. v = TotalOf(f, S)
  BY <1>2, TotalIsSum
<1> QED
  BY <1>3 DEF v

-----------------------------------------------------------------------------
(* Counting *)

\* A set numbered from 0 to n - 1 has n elements.
LEMMA NumberedSet ==
  ASSUME NEW S, IsFiniteSet(S), NEW n \in Nat, NEW f \in [S -> 0 .. n - 1],
         \A x, y \in S : f[x] = f[y] => x = y,
         \A i \in 0 .. n - 1 : \E x \in S : f[x] = i
  PROVE  Cardinality(S) = n
<1> DEFINE I == 0 .. n - 1
<1>1. f \in Bijection(S, I)
  BY DEF Bijection, Injection, Surjection, IsInjective
<1>2. 0 \in Int /\ n - 1 \in Int
  OBVIOUS
<1>3. Cardinality(I) = IF 0 > n - 1 THEN 0 ELSE (n - 1) - 0 + 1
  BY <1>2, FS_Interval
<1>4. Cardinality(I) = n
  BY <1>3
<1> HIDE DEF I
<1>5. Cardinality(I) = Cardinality(S)
  BY <1>1, FS_Bijection DEF ExistsBijection
<1> QED
  BY <1>4, <1>5
=============================================================================
