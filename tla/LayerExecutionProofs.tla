------------------------- MODULE LayerExecutionProofs -------------------------
(***************************************************************************)
(* What a device is charged for the attention of its batch, for any        *)
(* network, system and batch.                                              *)
(***************************************************************************)
EXTENDS LayerExecution, NaturalFacts

-----------------------------------------------------------------------------
(* Sums *)

\* A fold that adds up a function's values is their sum, whatever the order.
LEMMA SumIsTotal ==
  ASSUME NEW S, IsFiniteSet(S), NEW f, S = DOMAIN f, IntValued(f, S)
  PROVE  SumFunction(f) = TotalOf(f, S)
<1> DEFINE F(g) == g = [t \in SUBSET S |->
             IF t = {} THEN 0
             ELSE f[CHOOSE x \in t : TRUE] + g[t \ {CHOOSE x \in t : TRUE}]]
           iter == CHOOSE g : F(g)
<1>1. SumFunction(f) = iter[S]
  BY DEF SumFunction, SumFunctionOnSet, FoldFunctionOnSet, MapThenFoldSet
<1>2. \A g : SumsUp(g, f, S) <=> F(g)
  BY DEF SumsUp
<1>3. \E g : SumsUp(g, f, S)
  BY SumExists
<1> HIDE DEF F
<1>4. SumsUp(iter, f, S)
  <2>1. F(iter)
    BY <1>2, <1>3
  <2> QED
    BY <1>2, <2>1
<1> HIDE DEF iter
<1>5. iter[S] = TotalOf(f, S)
  BY <1>4, SummedTotal
<1> QED
  BY <1>1, <1>5

\* f has a natural number for each member of a finite set.
NatOn(f, S) == IsFiniteSet(S) /\ S = DOMAIN f /\ \A x \in S : f[x] \in Nat
SameOn(h, f, S) == \A x \in S : h[x] = f[x]
ScaledOn(h, k, f, S) == \A x \in S : h[x] = k * f[x]
AddedOn(h, f, g, S) == \A x \in S : h[x] = f[x] + g[x]
BelowOn(f, h, S) == \A x \in S : f[x] <= h[x]
PaddedOn(h, f, A, S) == \A x \in S : h[x] = IF x \in A THEN f[x] ELSE 0

LEMMA NatSum ==
  ASSUME NEW S, NEW f, NatOn(f, S)
  PROVE  SumFunction(f) \in Nat /\ SumFunction(f) = TotalOf(f, S) /\ IntValued(f, S)
<1>1. IntValued(f, S) /\ IsFiniteSet(S) /\ S = DOMAIN f /\ \A x \in S : f[x] \in Nat
  BY DEF IntValued, NatOn
<1>2. SumFunction(f) = TotalOf(f, S)
  BY <1>1, SumIsTotal
<1>3. TotalOf(f, S) \in Nat
  BY <1>1, TotalOfNaturals
<1> QED
  BY <1>1, <1>2, <1>3

LEMMA SumSame ==
  ASSUME NEW S, NEW f, NatOn(f, S), NEW h, DOMAIN h = S, SameOn(h, f, S)
  PROVE  SumFunction(h) = SumFunction(f)
<1>1. NatOn(h, S) /\ IsFiniteSet(S) /\ \A x \in S : h[x] = f[x]
  BY DEF NatOn, SameOn
<1>2. TotalOf(h, S) = TotalOf(f, S)
  BY <1>1, NatSum, TotalSame
<1> QED
  BY <1>1, <1>2, NatSum

LEMMA SumScaled ==
  ASSUME NEW S, NEW k \in Nat, NEW f, NatOn(f, S), NEW h, DOMAIN h = S, ScaledOn(h, k, f, S)
  PROVE  SumFunction(h) = k * SumFunction(f)
<1>1. NatOn(h, S) /\ IsFiniteSet(S) /\ Multiples(h, k, f, S)
  BY DEF NatOn, ScaledOn, Multiples
<1>2. TotalOf(h, S) = k * TotalOf(f, S)
  BY <1>1, NatSum, TotalOfMultiples
<1> QED
  BY <1>1, <1>2, NatSum

LEMMA SumPlus ==
  ASSUME NEW S, NEW f, NatOn(f, S), NEW g, NatOn(g, S),
         NEW h, DOMAIN h = S, AddedOn(h, f, g, S)
  PROVE  SumFunction(h) = SumFunction(f) + SumFunction(g)
<1>1. NatOn(h, S) /\ IsFiniteSet(S) /\ \A x \in S : h[x] = f[x] + g[x]
  BY DEF NatOn, AddedOn
<1>2. TotalOf(h, S) = TotalOf(f, S) + TotalOf(g, S)
  BY <1>1, NatSum, TotalOfSums
<1> QED
  BY <1>1, <1>2, NatSum

LEMMA SumAtMost ==
  ASSUME NEW S, NEW f, NatOn(f, S), NEW h, NatOn(h, S), BelowOn(f, h, S)
  PROVE  SumFunction(f) <= SumFunction(h)
<1> DEFINE g == [x \in S |-> h[x] - f[x]]
<1>1. NatOn(g, S) /\ AddedOn(h, f, g, S) /\ DOMAIN h = S
  BY DEF NatOn, AddedOn, BelowOn
<1> HIDE DEF g
<1>2. SumFunction(h) = SumFunction(f) + SumFunction(g)
  BY <1>1, SumPlus
<1>3. SumFunction(f) \in Nat /\ SumFunction(g) \in Nat
  BY <1>1, NatSum
<1> QED
  BY <1>2, <1>3

\* Outside of A there is nothing to add.
LEMMA SumOfPart ==
  ASSUME NEW S, IsFiniteSet(S), NEW A \in SUBSET S, NEW f, NatOn(f, A),
         NEW h, DOMAIN h = S, PaddedOn(h, f, A, S)
  PROVE  NatOn(h, S) /\ SumFunction(h) = SumFunction(f)
<1>1. NatOn(h, S) /\ \A x \in S : h[x] = IF x \in A THEN f[x] ELSE 0
  BY DEF NatOn, PaddedOn
<1>2. TotalOf(h, S) = TotalOf(f, A)
  BY <1>1, NatSum, TotalOfPart
<1> QED
  BY <1>1, <1>2, NatSum

\* A set falls into two parts.
LEMMA SumOfTwoParts ==
  ASSUME NEW S, NEW f, NatOn(f, S), NEW A \in SUBSET S, NEW B, B = S \ A,
         NEW g, DOMAIN g = A, SameOn(g, f, A),
         NEW h, DOMAIN h = B, SameOn(h, f, B)
  PROVE  SumFunction(f) = SumFunction(g) + SumFunction(h)
<1> DEFINE a == [x \in S |-> IF x \in A THEN g[x] ELSE 0]
           b == [x \in S |-> IF x \in B THEN h[x] ELSE 0]
<1>1. IsFiniteSet(S) /\ B \in SUBSET S /\ IsFiniteSet(A) /\ IsFiniteSet(B)
  BY FS_Subset DEF NatOn
<1>2. NatOn(g, A) /\ NatOn(h, B)
  BY <1>1 DEF NatOn, SameOn
<1>3. DOMAIN a = S /\ PaddedOn(a, g, A, S) /\ DOMAIN b = S /\ PaddedOn(b, h, B, S)
  BY DEF PaddedOn
<1>4. AddedOn(f, a, b, S) /\ DOMAIN f = S
  BY DEF NatOn, AddedOn, SameOn
<1> HIDE DEF a, b
<1>5. NatOn(a, S) /\ SumFunction(a) = SumFunction(g)
  BY <1>1, <1>2, <1>3, SumOfPart
<1>6. NatOn(b, S) /\ SumFunction(b) = SumFunction(h)
  BY <1>1, <1>2, <1>3, SumOfPart
<1>7. SumFunction(f) = SumFunction(a) + SumFunction(b)
  BY <1>4, <1>5, <1>6, SumPlus
<1> QED
  BY <1>5, <1>6, <1>7

LEMMA SumOfNothing ==
  ASSUME NEW f, DOMAIN f = {}
  PROVE  SumFunction(f) = 0
<1>1. IsFiniteSet({}) /\ IntValued(f, {})
  BY FS_EmptySet DEF IntValued
<1> QED
  BY <1>1, SumIsTotal, TotalOfNone

LEMMA SumOfOne ==
  ASSUME NEW S, NEW f, NatOn(f, S), NEW x \in S, NEW B, B = S \ {x},
         NEW h, DOMAIN h = B, SameOn(h, f, B)
  PROVE  SumFunction(f) = f[x] + SumFunction(h)
<1>1. IsFiniteSet(S) /\ IsFiniteSet(B) /\ (\A y \in B : h[y] = f[y])
  BY FS_Subset DEF NatOn, SameOn
<1>2. IntValued(f, S) /\ IntValued(f, B) /\ NatOn(h, B)
  BY <1>1 DEF IntValued, NatOn
<1>3. TotalOf(f, S) = f[x] + TotalOf(f, B)
  BY <1>1, <1>2, TotalTakenApart
<1>4. TotalOf(h, B) = TotalOf(f, B)
  BY <1>1, <1>2, TotalSame
<1> QED
  BY <1>2, <1>3, <1>4, NatSum

LEMMA SumOfConstant ==
  ASSUME NEW S, IsFiniteSet(S), NEW k \in Nat, NEW f, S = DOMAIN f, \A x \in S : f[x] = k
  PROVE  NatOn(f, S) /\ SumFunction(f) = k * Cardinality(S)
<1>1. NatOn(f, S)
  BY DEF NatOn
<1>2. TotalOf(f, S) = k * Cardinality(S)
  BY TotalOfEqual
<1> QED
  BY <1>1, <1>2, NatSum

\* A sum is nothing only if all its members are.
LEMMA SumIsZero ==
  ASSUME NEW S, NEW f, NatOn(f, S), SumFunction(f) = 0, NEW x \in S
  PROVE  f[x] = 0
<1> DEFINE B == S \ {x}
           h == [y \in B |-> f[y]]
<1>1. DOMAIN h = B /\ SameOn(h, f, B)
  BY DEF SameOn
<1>2. NatOn(h, B)
  BY FS_Subset DEF NatOn
<1> HIDE DEF B, h
<1>3. SumFunction(f) = f[x] + SumFunction(h)
  BY <1>1, SumOfOne DEF B
<1>4. SumFunction(h) \in Nat /\ f[x] \in Nat
  BY <1>2, NatSum DEF NatOn
<1> QED
  BY <1>3, <1>4

-----------------------------------------------------------------------------
(* Batches *)

BatchOk(b) ==
  /\ IsFiniteSet(DOMAIN b)
  /\ \A s \in DOMAIN b : b[s] \in [m : Nat, n : Nat]

LEMMA SumParts ==
  ASSUME NEW b, BatchOk(b)
  PROVE  /\ Tokens(b) = SumFunction([s \in DOMAIN b |-> b[s].m])
         /\ Context(b) = SumFunction([s \in DOMAIN b |-> b[s].n])
         /\ Pairs(b) = SumFunction([s \in DOMAIN b |-> b[s].m * b[s].n])
         /\ NatOn([s \in DOMAIN b |-> b[s].m], DOMAIN b)
         /\ NatOn([s \in DOMAIN b |-> b[s].n], DOMAIN b)
         /\ NatOn([s \in DOMAIN b |-> b[s].m * b[s].n], DOMAIN b)
         /\ Tokens(b) \in Nat /\ Context(b) \in Nat /\ Pairs(b) \in Nat
         /\ Size(b) \in Nat
<1>1. /\ Tokens(b) = SumFunction([s \in DOMAIN b |-> b[s].m])
      /\ Context(b) = SumFunction([s \in DOMAIN b |-> b[s].n])
      /\ Pairs(b) = SumFunction([s \in DOMAIN b |-> b[s].m * b[s].n])
  BY DEF Tokens, Context, Pairs, Total
<1>2. /\ NatOn([s \in DOMAIN b |-> b[s].m], DOMAIN b)
      /\ NatOn([s \in DOMAIN b |-> b[s].n], DOMAIN b)
      /\ NatOn([s \in DOMAIN b |-> b[s].m * b[s].n], DOMAIN b)
  BY DEF NatOn, BatchOk
<1>3. /\ SumFunction([s \in DOMAIN b |-> b[s].m]) \in Nat
      /\ SumFunction([s \in DOMAIN b |-> b[s].n]) \in Nat
      /\ SumFunction([s \in DOMAIN b |-> b[s].m * b[s].n]) \in Nat
  BY <1>2, NatSum
<1>4. Size(b) \in Nat
  BY FS_CardinalityType DEF BatchOk, Size
<1> QED
  BY <1>1, <1>2, <1>3, <1>4

\* Operations in proportion to the pairs of tokens and keys.
LEMMA PairsScaled ==
  ASSUME NEW b, BatchOk(b), NEW k \in Nat,
         NEW f, DOMAIN f = DOMAIN b, \A s \in DOMAIN b : f[s] = k * (b[s].m * b[s].n)
  PROVE  SumFunction(f) = k * Pairs(b)
<1> DEFINE g == [s \in DOMAIN b |-> b[s].m * b[s].n]
<1>1. NatOn(g, DOMAIN b) /\ Pairs(b) = SumFunction(g)
  BY SumParts
<1>2. ScaledOn(f, k, g, DOMAIN b)
  BY DEF ScaledOn
<1> HIDE DEF g
<1> QED
  BY <1>1, <1>2, SumScaled

\* Without tokens there are no pairs.
LEMMA NoPairs ==
  ASSUME NEW b, BatchOk(b), Tokens(b) = 0
  PROVE  Pairs(b) = 0
<1> DEFINE g == [s \in DOMAIN b |-> b[s].m * b[s].n]
           f == [s \in DOMAIN b |-> b[s].m]
<1>1. NatOn(f, DOMAIN b) /\ SumFunction(f) = 0 /\ Pairs(b) = SumFunction(g)
      /\ NatOn(g, DOMAIN b)
  BY SumParts
<1>2. \A s \in DOMAIN b : f[s] = 0
  <2> HIDE DEF f
  <2> QED
    BY <1>1, SumIsZero
<1>3. \A s \in DOMAIN b : b[s].m = 0
  BY <1>2
<1>4. \A s \in DOMAIN b : g[s] = 0
  BY <1>3 DEF BatchOk
<1>5. IsFiniteSet(DOMAIN b) /\ DOMAIN b = DOMAIN g
  BY DEF BatchOk
<1> HIDE DEF g
<1>6. SumFunction(g) = 0 * Cardinality(DOMAIN b)
  BY <1>4, <1>5, SumOfConstant
<1>7. Cardinality(DOMAIN b) \in Nat
  BY <1>5, FS_CardinalityType
<1> QED
  BY <1>1, <1>6, <1>7

LEMMA GroupedSums ==
  ASSUME NEW b
  PROVE  /\ Grouped!Tokens(b) = Tokens(b)
         /\ Grouped!Context(b) = Context(b)
         /\ Grouped!Pairs(b) = Pairs(b)
<1>1. \A f : Grouped!SumFunction(f) = SumFunction(f)
  BY DEF Grouped!SumFunction, Grouped!SumFunctionOnSet, Grouped!FoldFunctionOnSet,
         Grouped!MapThenFoldSet, SumFunction, SumFunctionOnSet, FoldFunctionOnSet, MapThenFoldSet
<1> QED
  BY <1>1 DEF Grouped!Tokens, Grouped!Context, Grouped!Pairs, Grouped!Total,
              Tokens, Context, Pairs, Total

-----------------------------------------------------------------------------
(* Operations charged for prompts *)

LEMMA Dims ==
  /\ NumHeads \in Nat \ {0} /\ NumKvHeads \in Nat \ {0} /\ HeadDim \in Nat \ {0}
  /\ KvLoraRank \in Nat \ {0} /\ Precision \in Nat \ {0} /\ GroupedKvHeads \in Nat \ {0}
  /\ QkRopeHeadDim \in Nat \ {0} /\ NumKvHeads = NumHeads
  /\ QkHeadDim \in Nat \ {0} /\ LatentDim \in Nat \ {0}
  /\ QkHeadDim = HeadDim + QkRopeHeadDim /\ LatentDim = KvLoraRank + QkRopeHeadDim
BY LayerCostAssumption, LayerExecutionAssumption DEF QkHeadDim, LatentDim

Fields == {"flops", "bytes", "time", "reads", "writes"}

\* What is charged for several phases.
LEMMA PlusFields ==
  ASSUME NEW x, NEW y, DOMAIN x = Fields
  PROVE  /\ DOMAIN Plus(x, y) = Fields /\ DOMAIN Grouped!Plus(x, y) = Fields
         /\ \A f \in Fields : Plus(x, y)[f] = x[f] + y[f] /\ Grouped!Plus(x, y)[f] = x[f] + y[f]
BY DEF Plus, Grouped!Plus

LEMMA GroupedSum ==
  ASSUME NEW f
  PROVE  Grouped!SumFunction(f) = SumFunction(f)
BY DEF Grouped!SumFunction, Grouped!SumFunctionOnSet, Grouped!FoldFunctionOnSet,
       Grouped!MapThenFoldSet, SumFunction, SumFunctionOnSet, FoldFunctionOnSet, MapThenFoldSet

\* Products in whatever order, and their sums.
LEMMA Product ==
  ASSUME NEW a \in Nat, NEW m \in Nat, NEW d \in Nat, NEW n \in Nat, NEW h \in Nat
  PROVE  /\ a * m * d * n * h = (a * (d * h)) * (m * n)
         /\ a * m * n * h = (a * h) * (m * n)
         /\ a * (d * h) \in Nat /\ a * h \in Nat /\ d * h \in Nat /\ m * n \in Nat
OBVIOUS

LEMMA Distribute ==
  ASSUME NEW i \in Nat, NEW j \in Nat, NEW k \in Nat, NEW p \in Nat
  PROVE  /\ i * p + (j * p + k * p) = (i + j + k) * p
         /\ i * p + j * p = (i + j) * p
OBVIOUS

\* The operations for a pair of a token and a key: scores, softmax, context.
PromptRate(kind) ==
  CASE kind = "MHA" -> 2 * (HeadDim * NumHeads) + 7 * NumHeads + 2 * (HeadDim * NumHeads)
    [] kind = "MLA" -> 2 * (QkHeadDim * NumHeads) + 7 * NumHeads + 2 * (HeadDim * NumHeads)
    [] kind = "Absorbed" -> 2 * (KvLoraRank * NumHeads) + 2 * (QkRopeHeadDim * NumHeads)
                              + 7 * NumHeads + 2 * (KvLoraRank * NumHeads)

\* Three phases, each in proportion to the pairs.
LEMMA ThreePhases ==
  ASSUME NEW b, BatchOk(b), NEW i \in Nat, NEW j \in Nat, NEW k \in Nat,
         NEW x, DOMAIN x = Fields, x.flops = i * Pairs(b),
         NEW y, DOMAIN y = Fields, y.flops = j * Pairs(b),
         NEW z, DOMAIN z = Fields, z.flops = k * Pairs(b)
  PROVE  /\ Plus(x, Plus(y, z)).flops = (i + j + k) * Pairs(b)
         /\ Grouped!Plus(x, Grouped!Plus(y, z)).flops = (i + j + k) * Pairs(b)
<1>1. /\ Plus(x, Plus(y, z)).flops = x.flops + (y.flops + z.flops)
      /\ Grouped!Plus(x, Grouped!Plus(y, z)).flops = x.flops + (y.flops + z.flops)
  BY PlusFields DEF Fields
<1>2. Pairs(b) \in Nat
  BY SumParts
<1> QED
  BY <1>1, <1>2, Distribute

LEMMA PairsOfTwo ==
  ASSUME NEW b, BatchOk(b), NEW f, DOMAIN f = DOMAIN b, NEW d \in Nat, NEW c \in Nat,
         \A s \in DOMAIN b : f[s] = c * b[s].m * d * b[s].n * NumHeads
  PROVE  SumFunction(f) = (c * (d * NumHeads)) * Pairs(b)
<1>1. NumHeads \in Nat /\ \A s \in DOMAIN b : b[s].m \in Nat /\ b[s].n \in Nat
  BY Dims DEF BatchOk
<1>2. c * (d * NumHeads) \in Nat
  BY <1>1, Product
<1>3. \A s \in DOMAIN b : f[s] = (c * (d * NumHeads)) * (b[s].m * b[s].n)
  BY <1>1, Product
<1> DEFINE k == c * (d * NumHeads)
<1> HIDE DEF k
<1>4. k \in Nat /\ \A s \in DOMAIN b : f[s] = k * (b[s].m * b[s].n)
  BY <1>2, <1>3 DEF k
<1>5. SumFunction(f) = k * Pairs(b)
  BY <1>4, PairsScaled
<1> QED
  BY <1>5 DEF k

LEMMA PairsOfOne ==
  ASSUME NEW b, BatchOk(b), NEW f, DOMAIN f = DOMAIN b,
         \A s \in DOMAIN b : f[s] = 7 * b[s].m * b[s].n * NumHeads
  PROVE  SumFunction(f) = (7 * NumHeads) * Pairs(b)
<1>1. NumHeads \in Nat /\ \A s \in DOMAIN b : b[s].m \in Nat /\ b[s].n \in Nat
  BY Dims DEF BatchOk
<1>2. 7 * NumHeads \in Nat
  BY <1>1
<1>3. \A s \in DOMAIN b : f[s] = (7 * NumHeads) * (b[s].m * b[s].n)
  BY <1>1, Product
<1> DEFINE k == 7 * NumHeads
<1> HIDE DEF k
<1>4. k \in Nat /\ \A s \in DOMAIN b : f[s] = k * (b[s].m * b[s].n)
  BY <1>2, <1>3 DEF k
<1>5. SumFunction(f) = k * Pairs(b)
  BY <1>4, PairsScaled
<1> QED
  BY <1>5 DEF k

LEMMA Rates ==
  /\ 2 * (HeadDim * NumHeads) \in Nat /\ 7 * NumHeads \in Nat
  /\ 2 * (QkHeadDim * NumHeads) \in Nat
  /\ 2 * (KvLoraRank * NumHeads) \in Nat /\ 2 * (QkRopeHeadDim * NumHeads) \in Nat
BY Dims, Product

LEMMA GroupedPromptGPU ==
  ASSUME NEW b, BatchOk(b)
  PROVE  Grouped!AttentionSumGPU(b).flops = PromptRate("MHA") * Pairs(b)
<1> DEFINE a == [s \in DOMAIN b |-> 2 * b[s].m * HeadDim * b[s].n * NumHeads]
           c == [s \in DOMAIN b |-> 7 * b[s].m * b[s].n * NumHeads]
           x == Grouped!PerSeq(b, Grouped!SumScoringGPU)
           y == Grouped!PerSeq(b, Grouped!SumSoftmaxGPU)
           z == Grouped!PerSeq(b, Grouped!SumContextGPU)
<1>1. DOMAIN x = Fields /\ DOMAIN y = Fields /\ DOMAIN z = Fields
  BY DEF Grouped!PerSeq, Grouped!Nothing, Fields
<1>2. x.flops = SumFunction(a) /\ y.flops = SumFunction(c) /\ z.flops = SumFunction(a)
  BY GroupedSum DEF Grouped!PerSeq, Grouped!Nothing, Grouped!Total, Grouped!SumScoringGPU,
     Grouped!SumSoftmaxGPU, Grouped!SumContextGPU, Grouped!Roofline
<1>3. Grouped!AttentionSumGPU(b).flops =
        IF Tokens(b) = 0 THEN 0 ELSE Grouped!Plus(x, Grouped!Plus(y, z)).flops
  BY GroupedSums DEF Grouped!AttentionSumGPU, Grouped!IfPrompted, Grouped!Nothing
<1> HIDE DEF x, y, z
<1>4. SumFunction(a) = (2 * (HeadDim * NumHeads)) * Pairs(b)
  BY PairsOfTwo, Dims
<1>5. SumFunction(c) = (7 * NumHeads) * Pairs(b)
  BY PairsOfOne
<1> HIDE DEF a, c
<1>6. Grouped!Plus(x, Grouped!Plus(y, z)).flops = PromptRate("MHA") * Pairs(b)
  BY <1>1, <1>2, <1>4, <1>5, ThreePhases, Rates DEF PromptRate
<1>7. PromptRate("MHA") \in Nat
  BY Rates DEF PromptRate
<1> QED
  BY <1>3, <1>6, <1>7, NoPairs

\* An int product in range is the product.
LEMMA AsIntInRange ==
  ASSUME NEW x \in Nat, x < IntRange
  PROVE  Grouped!AsInt(x) = x
<1> DEFINE r == 2 * IntRange
           y == x + IntRange
<1>1. IntRange \in Nat \ {0}
  BY IntRangeAssumption
<1>2. r \in Nat \ {0} /\ y \in 0 .. r - 1 /\ y - IntRange = x
  BY <1>1
<1>3. Grouped!AsInt(x) = (y % r) - IntRange
  BY DEF Grouped!AsInt
<1> HIDE DEF r, y
<1>4. y % r = y
  BY <1>2
<1> QED
  BY <1>2, <1>3, <1>4

\* What the copies with int products make of chunks in range.
LEMMA ChunksInRange ==
  ASSUME NEW b, BatchOk(b), \A s \in DOMAIN b : ChunkProduct(b[s]) < IntRange
  PROVE  [s \in DOMAIN b |-> 2 * Grouped!AsInt(Grouped!ChunkProduct(b[s])) * NumHeads]
           = [s \in DOMAIN b |-> 2 * b[s].m * HeadDim * b[s].n * NumHeads]
<1> SUFFICES ASSUME NEW s \in DOMAIN b
             PROVE  2 * Grouped!AsInt(Grouped!ChunkProduct(b[s])) * NumHeads
                      = 2 * b[s].m * HeadDim * b[s].n * NumHeads
  OBVIOUS
<1> DEFINE m == b[s].m
           n == b[s].n
           x == m * HeadDim * n
<1>1. m \in Nat /\ n \in Nat /\ HeadDim \in Nat /\ NumHeads \in Nat
  BY Dims DEF BatchOk
<1>2. Grouped!ChunkProduct(b[s]) = x /\ x < IntRange
  BY DEF Grouped!ChunkProduct, ChunkProduct
<1> HIDE DEF m, n
<1>3. x \in Nat
  BY <1>1
<1>4. 2 * m * HeadDim * n * NumHeads = 2 * x * NumHeads
  BY <1>1
<1> HIDE DEF x
<1>5. Grouped!AsInt(x) = x
  BY <1>2, <1>3, AsIntInRange
<1> QED
  BY <1>2, <1>4, <1>5 DEF m, n

LEMMA GroupedPromptLogic ==
  ASSUME NEW b, BatchOk(b), \A s \in DOMAIN b : ChunkProduct(b[s]) < IntRange
  PROVE  Grouped!AttentionSumLogic(b).flops = PromptRate("MHA") * Pairs(b)
<1> DEFINE a == [s \in DOMAIN b |-> 2 * Grouped!AsInt(Grouped!ChunkProduct(b[s])) * NumHeads]
           c == [s \in DOMAIN b |-> 7 * b[s].m * b[s].n * NumHeads]
           x == Grouped!PerSeq(b, Grouped!SumScoringLogic)
           y == Grouped!PerSeq(b, Grouped!SumSoftmaxLogic)
           z == Grouped!PerSeq(b, Grouped!SumContextLogic)
<1>1. DOMAIN x = Fields /\ DOMAIN y = Fields /\ DOMAIN z = Fields
  BY DEF Grouped!PerSeq, Grouped!Nothing, Fields
<1>2. x.flops = SumFunction(a) /\ y.flops = SumFunction(c) /\ z.flops = SumFunction(a)
  BY GroupedSum DEF Grouped!PerSeq, Grouped!Nothing, Grouped!Total, Grouped!SumScoringLogic,
     Grouped!SumSoftmaxLogic, Grouped!SumContextLogic, Grouped!Roofline, Grouped!Compute
<1>3. Grouped!AttentionSumLogic(b).flops =
        IF Tokens(b) = 0 THEN 0 ELSE Grouped!Plus(x, Grouped!Plus(y, z)).flops
  BY GroupedSums DEF Grouped!AttentionSumLogic, Grouped!IfPrompted, Grouped!Nothing
<1> HIDE DEF x, y, z
<1>4. SumFunction(a) = (2 * (HeadDim * NumHeads)) * Pairs(b)
  <2> DEFINE e == [s \in DOMAIN b |-> 2 * b[s].m * HeadDim * b[s].n * NumHeads]
  <2>1. a = e
    BY ChunksInRange
  <2>2. SumFunction(e) = (2 * (HeadDim * NumHeads)) * Pairs(b)
    BY PairsOfTwo, Dims
  <2> HIDE DEF a, e
  <2> QED
    BY <2>1, <2>2
<1>5. SumFunction(c) = (7 * NumHeads) * Pairs(b)
  BY PairsOfOne
<1> HIDE DEF a, c
<1>6. Grouped!Plus(x, Grouped!Plus(y, z)).flops = PromptRate("MHA") * Pairs(b)
  BY <1>1, <1>2, <1>4, <1>5, ThreePhases, Rates DEF PromptRate
<1>7. PromptRate("MHA") \in Nat
  BY Rates DEF PromptRate
<1> QED
  BY <1>3, <1>6, <1>7, NoPairs

LEMMA GroupedPromptPIM ==
  ASSUME NEW b, BatchOk(b), \A s \in DOMAIN b : ChunkProduct(b[s]) < IntRange
  PROVE  Grouped!AttentionSumPIM(b).flops = PromptRate("MHA") * Pairs(b)
<1> DEFINE a == [s \in DOMAIN b |-> 2 * Grouped!AsInt(Grouped!ChunkProduct(b[s])) * NumHeads]
           c == [s \in DOMAIN b |-> 7 * b[s].m * b[s].n * NumHeads]
           x == Grouped!PerSeq(b, Grouped!SumScoringPIM)
           y == Grouped!PerSeq(b, Grouped!SumSoftmaxPIM)
           z == Grouped!PerSeq(b, Grouped!SumContextPIM)
<1>1. DOMAIN x = Fields /\ DOMAIN y = Fields /\ DOMAIN z = Fields
  BY DEF Grouped!PerSeq, Grouped!Nothing, Fields
<1>2. x.flops = SumFunction(a) /\ y.flops = SumFunction(c) /\ z.flops = SumFunction(a)
  BY GroupedSum DEF Grouped!PerSeq, Grouped!Nothing, Grouped!Total, Grouped!SumScoringPIM,
     Grouped!SumSoftmaxPIM, Grouped!SumContextPIM, Grouped!Roofline, Grouped!Compute
<1>3. Grouped!AttentionSumPIM(b).flops =
        IF Tokens(b) = 0 THEN 0 ELSE Grouped!Plus(x, Grouped!Plus(y, z)).flops
  BY GroupedSums DEF Grouped!AttentionSumPIM, Grouped!IfPrompted, Grouped!Nothing
<1> HIDE DEF x, y, z
<1>4. SumFunction(a) = (2 * (HeadDim * NumHeads)) * Pairs(b)
  <2> DEFINE e == [s \in DOMAIN b |-> 2 * b[s].m * HeadDim * b[s].n * NumHeads]
  <2>1. a = e
    BY ChunksInRange
  <2>2. SumFunction(e) = (2 * (HeadDim * NumHeads)) * Pairs(b)
    BY PairsOfTwo, Dims
  <2> HIDE DEF a, e
  <2> QED
    BY <2>1, <2>2
<1>5. SumFunction(c) = (7 * NumHeads) * Pairs(b)
  BY PairsOfOne
<1> HIDE DEF a, c
<1>6. Grouped!Plus(x, Grouped!Plus(y, z)).flops = PromptRate("MHA") * Pairs(b)
  BY <1>1, <1>2, <1>4, <1>5, ThreePhases, Rates DEF PromptRate
<1>7. PromptRate("MHA") \in Nat
  BY Rates DEF PromptRate
<1> QED
  BY <1>3, <1>6, <1>7, NoPairs

LEMMA LatentPrompt ==
  ASSUME NEW b, BatchOk(b), NEW p \in Processors
  PROVE  MLASum(p, FALSE, b).flops = PromptRate("MLA") * Pairs(b)
<1> DEFINE a == [s \in DOMAIN b |-> 2 * b[s].m * QkHeadDim * b[s].n * NumHeads]
           c == [s \in DOMAIN b |-> 7 * b[s].m * b[s].n * NumHeads]
           d == [s \in DOMAIN b |-> 2 * b[s].m * HeadDim * b[s].n * NumHeads]
           x == PerSeq(b, MLASumScoring)
           y == PerSeq(b, MLASumSoftmax)
           z == PerSeq(b, MLASumContext)
<1>1. DOMAIN x = Fields /\ DOMAIN y = Fields /\ DOMAIN z = Fields
  BY DEF PerSeq, Nothing, Fields
<1>2. x.flops = SumFunction(a) /\ y.flops = SumFunction(c) /\ z.flops = SumFunction(d)
  BY DEF PerSeq, Nothing, Total, MLASumScoring, MLASumSoftmax, MLASumContext, Roofline
<1>3. MLASum(p, FALSE, b).flops = IF Tokens(b) = 0 THEN 0 ELSE Plus(x, Plus(y, z)).flops
  BY DEF MLASum, IfPrompted, Nothing, MLASumStandard, Processors, MLASumScoringGPU,
     MLASumSoftmaxGPU, MLASumContextGPU, MLASumScoringLogic, MLASumSoftmaxLogic,
     MLASumContextLogic, MLASumScoringPIM, MLASumSoftmaxPIM, MLASumContextPIM
<1> HIDE DEF x, y, z
<1>4. SumFunction(a) = (2 * (QkHeadDim * NumHeads)) * Pairs(b)
  BY PairsOfTwo, Dims
<1>5. SumFunction(c) = (7 * NumHeads) * Pairs(b)
  BY PairsOfOne
<1>6. SumFunction(d) = (2 * (HeadDim * NumHeads)) * Pairs(b)
  BY PairsOfTwo, Dims
<1> HIDE DEF a, c, d
<1>7. Plus(x, Plus(y, z)).flops = PromptRate("MLA") * Pairs(b)
  BY <1>1, <1>2, <1>4, <1>5, <1>6, ThreePhases, Rates DEF PromptRate
<1>8. PromptRate("MLA") \in Nat
  BY Rates DEF PromptRate
<1>9. Tokens(b) = 0 => PromptRate("MLA") * Pairs(b) = 0
  BY <1>8, NoPairs
<1> QED
  BY <1>3, <1>7, <1>9

\* The absorbed form charges its four phases sequence by sequence.
LEMMA AbsorbedOne ==
  ASSUME NEW p \in Processors, NEW s, s.m \in Nat, s.n \in Nat
  PROVE  AbsorbSumOf(p, s).flops = PromptRate("Absorbed") * (s.m * s.n)
<1> DEFINE k == KvLoraRank * NumHeads
           r == QkRopeHeadDim * NumHeads
           q == s.m * s.n
<1>1. AbsorbSumOf(p, s).flops =
        2 * s.m * KvLoraRank * s.n * NumHeads
        + (2 * s.m * QkRopeHeadDim * s.n * NumHeads
           + (7 * (s.m * s.n * NumHeads) + 2 * s.m * KvLoraRank * s.n * NumHeads))
  BY DEF AbsorbSumOf, Processors, Plus, Roofline, Compute, AbsorbSumScoring, AbsorbSumContext,
     Scores, AbsorbSumNoPEGPU, AbsorbSumRoPEGPU, AbsorbSumSoftmaxGPU, AbsorbSumContextGPU,
     AbsorbSumNoPELogic, AbsorbSumRoPELogic, AbsorbSumSoftmaxLogic, AbsorbSumContextLogic,
     AbsorbSumNoPEPIM, AbsorbSumRoPEPIM, AbsorbSumSoftmaxPIM, AbsorbSumContextPIM
<1>2. /\ 2 * s.m * KvLoraRank * s.n * NumHeads = (2 * k) * q
      /\ 2 * s.m * QkRopeHeadDim * s.n * NumHeads = (2 * r) * q
      /\ 2 * k \in Nat /\ 2 * r \in Nat /\ q \in Nat
  BY Dims, Product
<1>3. 7 * (s.m * s.n * NumHeads) = (7 * NumHeads) * q /\ 7 * NumHeads \in Nat
  BY Dims
<1> HIDE DEF k, r, q
<1> DEFINE i == 2 * k
           j == 2 * r
           l == 7 * NumHeads
<1>4. i \in Nat /\ j \in Nat /\ l \in Nat /\ q \in Nat
  BY <1>2, <1>3
<1>5. AbsorbSumOf(p, s).flops = i * q + (j * q + (l * q + i * q))
  BY <1>1, <1>2, <1>3
<1>6. PromptRate("Absorbed") = i + j + l + i
  BY DEF PromptRate, k, r
<1> HIDE DEF i, j, l
<1>7. i * q + (j * q + (l * q + i * q)) = (i + j + l + i) * q
  BY <1>4
<1> QED
  BY <1>5, <1>6, <1>7 DEF q

LEMMA AbsorbedPrompt ==
  ASSUME NEW b, BatchOk(b), NEW p \in Processors
  PROVE  AbsorbMLASum(p, b).flops = PromptRate("Absorbed") * Pairs(b)
<1> DEFINE a == [s \in DOMAIN b |-> AbsorbSumOf(p, b[s]).flops]
           k == PromptRate("Absorbed")
<1>1. AbsorbMLASum(p, b).flops = IF Tokens(b) = 0 THEN 0 ELSE SumFunction(a)
  BY DEF AbsorbMLASum, IfPrompted, Nothing, PerSeq, Total
<1>2. k \in Nat
  BY Rates DEF PromptRate
<1>3. DOMAIN a = DOMAIN b /\ \A s \in DOMAIN b : a[s] = k * (b[s].m * b[s].n)
  BY AbsorbedOne DEF BatchOk
<1> HIDE DEF a, k
<1>4. SumFunction(a) = k * Pairs(b)
  BY <1>2, <1>3, PairsScaled
<1> QED
  BY <1>1, <1>2, <1>4, NoPairs DEF k

-----------------------------------------------------------------------------
(* Operations charged for outputs *)

\* Scores and context, and the softmax where a copy has one.
DecodeRate(kind, flash) ==
  CASE kind = "MHA" -> 4 * HeadDim * NumHeads
    [] kind = "MLA" -> 2 * (QkHeadDim + HeadDim) * NumHeads
                         + IF flash THEN 0 ELSE 7 * NumHeads
    [] kind = "Absorbed" -> 2 * (LatentDim + KvLoraRank) * NumHeads
                         + IF flash THEN 0 ELSE 7 * NumHeads

Kinds == {"MHA", "MLA", "Absorbed"}

LEMMA DecodeRateNatural ==
  ASSUME NEW kind \in Kinds, NEW flash \in BOOLEAN
  PROVE  DecodeRate(kind, flash) \in Nat
BY Dims DEF DecodeRate, Kinds

LEMMA DecodeRatesAre ==
  LET q == 2 * (QkHeadDim * NumHeads)
      h == 2 * (HeadDim * NumHeads)
      k == 2 * (KvLoraRank * NumHeads)
      r == 2 * (QkRopeHeadDim * NumHeads)
      t == 7 * NumHeads
  IN  /\ {q, h, k, r, t} \subseteq Nat
      /\ DecodeRate("MLA", TRUE) = q + h /\ DecodeRate("MLA", FALSE) = q + t + h
      /\ DecodeRate("Absorbed", TRUE) = k + r + k
      /\ DecodeRate("Absorbed", FALSE) = k + r + t + k
<1> USE Dims
<1>1. 2 * (QkHeadDim + HeadDim) * NumHeads = 2 * (QkHeadDim * NumHeads) + 2 * (HeadDim * NumHeads)
  OBVIOUS
<1>2. 2 * (LatentDim + KvLoraRank) * NumHeads
        = 2 * (KvLoraRank * NumHeads) + 2 * (QkRopeHeadDim * NumHeads) + 2 * (KvLoraRank * NumHeads)
  <2>1. LatentDim + KvLoraRank = KvLoraRank + QkRopeHeadDim + KvLoraRank
    OBVIOUS
  <2>2. 2 * (KvLoraRank + QkRopeHeadDim + KvLoraRank) * NumHeads
          = 2 * (KvLoraRank * NumHeads) + 2 * (QkRopeHeadDim * NumHeads) + 2 * (KvLoraRank * NumHeads)
    OBVIOUS
  <2> QED
    BY <2>1, <2>2
<1> QED
  BY <1>1, <1>2, Rates DEF DecodeRate

LEMMA ClampedIs ==
  ASSUME NEW b, BatchOk(b), NEW l \in Nat
  PROVE  /\ BatchOk(Clamped(l, b)) /\ Grouped!Clamped(l, b) = Clamped(l, b)
         /\ DOMAIN Clamped(l, b) = DOMAIN b
         /\ \A s \in DOMAIN b :
              /\ Clamped(l, b)[s].m = b[s].m
              /\ Clamped(l, b)[s].n = EffectiveKvLen(l, b[s].n)
              /\ EffectiveKvLen(l, b[s].n) \in Nat /\ EffectiveKvLen(l, b[s].n) <= b[s].n
         /\ Tokens(Clamped(l, b)) = Tokens(b)
         /\ Pairs(Clamped(l, b)) \in Nat /\ Pairs(Clamped(l, b)) <= Pairs(b)
<1> DEFINE c == Clamped(l, b)
<1>1. KvWindow \in Nat /\ FullStride \in Nat \ {0}
  BY LayerExecutionAssumption
<1>2. \A n \in Nat : EffectiveKvLen(l, n) \in Nat /\ EffectiveKvLen(l, n) <= n
  BY <1>1 DEF EffectiveKvLen, Smaller
<1>3. DOMAIN c = DOMAIN b
  BY DEF Clamped
<1>4. \A s \in DOMAIN b : c[s] = [b[s] EXCEPT !.n = EffectiveKvLen(l, b[s].n)]
  BY DEF Clamped
<1>5. Grouped!Clamped(l, b) = Clamped(l, b)
  BY DEF Grouped!Clamped, Clamped, Grouped!EffectiveKvLen, EffectiveKvLen, Grouped!Smaller, Smaller
<1>6. \A s \in DOMAIN b : /\ c[s] \in [m : Nat, n : Nat]
                          /\ c[s].m = b[s].m /\ c[s].n = EffectiveKvLen(l, b[s].n)
                          /\ EffectiveKvLen(l, b[s].n) \in Nat
                          /\ EffectiveKvLen(l, b[s].n) <= b[s].n
  BY <1>2, <1>4 DEF BatchOk
<1>7. BatchOk(c)
  BY <1>3, <1>6 DEF BatchOk
<1> HIDE DEF c
<1> DEFINE f == [s \in DOMAIN c |-> c[s].m * c[s].n]
           h == [s \in DOMAIN b |-> b[s].m * b[s].n]
<1>8. NatOn(f, DOMAIN c) /\ Pairs(c) = SumFunction(f) /\ NatOn(h, DOMAIN b)
      /\ Pairs(b) = SumFunction(h) /\ Pairs(c) \in Nat
  BY <1>7, SumParts
<1>9. BelowOn(f, h, DOMAIN b)
  <2> SUFFICES ASSUME NEW s \in DOMAIN b PROVE c[s].m * c[s].n <= b[s].m * b[s].n
    BY <1>3 DEF BelowOn
  <2> DEFINE m == b[s].m
             n == b[s].n
             e == c[s].n
  <2>1. m \in Nat /\ n \in Nat /\ e \in Nat /\ e <= n /\ c[s].m = m
    BY <1>6 DEF BatchOk
  <2> HIDE DEF m, n, e
  <2>2. m * e <= m * n
    BY <2>1
  <2> QED
    BY <2>1, <2>2 DEF m, n, e
<1> HIDE DEF f, h
<1>10. Pairs(c) <= Pairs(b)
  BY <1>3, <1>8, <1>9, SumAtMost
<1>11. Tokens(c) = Tokens(b)
  <2>1. [s \in DOMAIN c |-> c[s].m] = [s \in DOMAIN b |-> b[s].m]
    BY <1>3, <1>6
  <2> QED
    BY <2>1, <1>7, SumParts
<1> QED
  BY <1>3, <1>5, <1>6, <1>7, <1>8, <1>10, <1>11 DEF c

LEMMA GroupedGenGPU ==
  ASSUME NEW b, BatchOk(b), NEW l \in Nat
  PROVE  Grouped!AttentionGenGPU(l, TRUE, b).flops = DecodeRate("MHA", TRUE) * Pairs(Clamped(l, b))
<1>1. Grouped!AttentionGenGPU(l, TRUE, b).flops =
        IF Tokens(b) = 0 THEN 0 ELSE 4 * HeadDim * NumHeads * Pairs(Clamped(l, b))
  BY ClampedIs, GroupedSums DEF Grouped!AttentionGenGPU, Grouped!IfGenerating, Grouped!Nothing,
     Grouped!GenFlashGPU, Grouped!CachePhase
<1>2. Tokens(b) = 0 => Pairs(Clamped(l, b)) = 0
  BY ClampedIs, NoPairs
<1> DEFINE k == 4 * HeadDim * NumHeads
<1>3. k \in Nat /\ DecodeRate("MHA", TRUE) = k
  BY Dims DEF DecodeRate
<1>4. Grouped!AttentionGenGPU(l, TRUE, b).flops =
        IF Tokens(b) = 0 THEN 0 ELSE k * Pairs(Clamped(l, b))
  BY <1>1
<1> HIDE DEF k
<1>5. k * 0 = 0
  BY <1>3
<1> QED
  BY <1>2, <1>3, <1>4, <1>5

LEMMA GroupedGenOther ==
  ASSUME NEW b, BatchOk(b)
  PROVE  /\ Grouped!AttentionGenLogic(b).flops = DecodeRate("MHA", TRUE) * Pairs(b)
         /\ Grouped!AttentionGenPIM(b).flops = DecodeRate("MHA", TRUE) * Pairs(b)
<1> DEFINE t == 2 * HeadDim * NumHeads * Pairs(b)
<1>1. /\ Grouped!AttentionGenLogic(b).flops = IF Tokens(b) = 0 THEN 0 ELSE t + t
      /\ Grouped!AttentionGenPIM(b).flops = IF Tokens(b) = 0 THEN 0 ELSE t + t
  BY GroupedSums DEF Grouped!AttentionGenLogic, Grouped!AttentionGenPIM, Grouped!IfGenerating,
     Grouped!Nothing, Grouped!Plus, Grouped!GenScoringLogic, Grouped!GenContextLogic,
     Grouped!GenScoringPIM, Grouped!GenContextPIM, Grouped!Roofline
<1>2. Tokens(b) = 0 => Pairs(b) = 0
  BY NoPairs
<1>3. HeadDim \in Nat /\ NumHeads \in Nat /\ Pairs(b) \in Nat
      /\ DecodeRate("MHA", TRUE) = 4 * HeadDim * NumHeads
  BY Dims, SumParts DEF DecodeRate
<1>4. t + t = 4 * HeadDim * NumHeads * Pairs(b)
  BY <1>3
<1>5. Tokens(b) = 0 => 4 * HeadDim * NumHeads * Pairs(b) = 0
  BY <1>2, <1>3
<1> HIDE DEF t
<1> QED
  BY <1>1, <1>3, <1>4, <1>5

\* A product with the pairs, in the order in which the code multiplies.
LEMMA RatePairs ==
  ASSUME NEW d \in Nat, NEW p \in Nat
  PROVE  /\ 2 * d * NumHeads * p = (2 * (d * NumHeads)) * p
         /\ 2 * NumHeads * d * p = (2 * (d * NumHeads)) * p
BY Dims

LEMMA LatentGen ==
  ASSUME NEW b, BatchOk(b), NEW p \in Processors
  PROVE  /\ MLAGen(p, FALSE, b).flops = DecodeRate("MLA", FALSE) * Pairs(b)
         /\ MLAGen(p, TRUE, b).flops = DecodeRate("MLA", TRUE) * Pairs(b)
<1> DEFINE c == [s \in DOMAIN b |-> 7 * b[s].m * b[s].n * NumHeads]
           q == 2 * (QkHeadDim * NumHeads)
           h == 2 * (HeadDim * NumHeads)
           t == 7 * NumHeads
           x == MLAScoring(p, b)
           y == MLASoftmax(p, b)
           z == MLAContext(p, b)
<1>1. MLAGen(p, TRUE, b).flops =
        IF Tokens(b) = 0 THEN 0 ELSE 2 * (QkHeadDim + HeadDim) * NumHeads * Pairs(b)
  BY DEF MLAGen, IfGenerating, Nothing, MLAGenFlash, Processors, MLAGenFlashGPU,
     MLAGenFlashLogic, MLAGenFlashPIM, MLAFlash, Roofline
<1>2. MLAGen(p, FALSE, b).flops = IF Tokens(b) = 0 THEN 0 ELSE Plus(x, Plus(y, z)).flops
  BY DEF MLAGen, IfGenerating, Nothing, MLAGenStandard, Processors, MLAGenScoringGPU,
     MLAGenSoftmaxGPU, MLAGenContextGPU, MLAGenScoringLogic, MLAGenSoftmaxLogic,
     MLAGenContextLogic, MLAGenScoringPIM, MLAGenSoftmaxPIM, MLAGenContextPIM
<1>3. /\ DOMAIN x = Fields /\ x.flops = 2 * QkHeadDim * NumHeads * Pairs(b)
      /\ DOMAIN z = Fields /\ z.flops = 2 * HeadDim * NumHeads * Pairs(b)
  BY DEF MLAScoring, MLAContext, Roofline, Fields
<1>4. DOMAIN y = Fields /\ y.flops = SumFunction(c)
  BY DEF MLASoftmax, PerSeq, Nothing, Fields, Total, Roofline
<1>5. SumFunction(c) = (7 * NumHeads) * Pairs(b)
  BY PairsOfOne
<1>6. Pairs(b) \in Nat /\ (Tokens(b) = 0 => Pairs(b) = 0)
  BY SumParts, NoPairs
<1>7. /\ x.flops = q * Pairs(b) /\ y.flops = t * Pairs(b) /\ z.flops = h * Pairs(b)
      /\ 2 * (QkHeadDim + HeadDim) * NumHeads * Pairs(b) =
           (2 * ((QkHeadDim + HeadDim) * NumHeads)) * Pairs(b)
  BY <1>3, <1>4, <1>5, <1>6, RatePairs, Dims
<1>8. /\ q \in Nat /\ t \in Nat /\ h \in Nat
      /\ DecodeRate("MLA", TRUE) = q + h /\ DecodeRate("MLA", FALSE) = q + t + h
  BY DecodeRatesAre
<1>9. 2 * ((QkHeadDim + HeadDim) * NumHeads) = q + h
  BY Dims
<1> HIDE DEF x, y, z, q, h, t
<1>10. Plus(x, Plus(y, z)).flops = (q + t + h) * Pairs(b)
  BY <1>3, <1>4, <1>7, <1>8, ThreePhases
<1>11. (q + t + h) * 0 = 0 /\ (q + h) * 0 = 0
  BY <1>8
<1> QED
  BY <1>1, <1>2, <1>6, <1>7, <1>8, <1>9, <1>10, <1>11

\* The absorbed form; its flash copy counts the keys of those that wait.
LEMMA AbsorbedGen ==
  ASSUME NEW b, BatchOk(b), NEW p \in Processors
  PROVE  /\ AbsorbMLAGen(p, FALSE, b).flops = DecodeRate("Absorbed", FALSE) * Pairs(b)
         /\ AbsorbMLAGen(p, TRUE, b).flops =
              IF Tokens(b) = 0 THEN 0 ELSE DecodeRate("Absorbed", TRUE) * Context(b)
<1> DEFINE c == [s \in DOMAIN b |-> 7 * b[s].m * b[s].n * NumHeads]
           k == 2 * (KvLoraRank * NumHeads)
           r == 2 * (QkRopeHeadDim * NumHeads)
           t == 7 * NumHeads
           w == AbsorbScoring(p, KvLoraRank, b)
           x == AbsorbScoring(p, QkRopeHeadDim, b)
           y == AbsorbSoftmax(p, b)
           z == AbsorbContext(p, b)
<1>1. AbsorbMLAGen(p, TRUE, b).flops =
        IF Tokens(b) = 0 THEN 0 ELSE 2 * NumHeads * (LatentDim + KvLoraRank) * Context(b)
  BY DEF AbsorbMLAGen, IfGenerating, Nothing, AbsorbGenFlash, Processors, AbsorbGenFlashGPU,
     AbsorbGenFlashLogic, AbsorbGenFlashPIM, AbsorbFlash, Roofline
<1>2. AbsorbMLAGen(p, FALSE, b).flops =
        IF Tokens(b) = 0 THEN 0 ELSE Plus(w, Plus(x, Plus(y, z))).flops
  BY DEF AbsorbMLAGen, IfGenerating, Nothing, AbsorbGenStandard, Processors, AbsorbGenNoPEGPU,
     AbsorbGenRoPEGPU, AbsorbGenSoftmaxGPU, AbsorbGenContextGPU, AbsorbGenNoPELogic,
     AbsorbGenRoPELogic, AbsorbGenSoftmaxLogic, AbsorbGenContextLogic, AbsorbGenNoPEPIM,
     AbsorbGenRoPEPIM, AbsorbGenSoftmaxPIM, AbsorbGenContextPIM
<1>3. /\ DOMAIN w = Fields /\ w.flops = 2 * KvLoraRank * NumHeads * Pairs(b)
      /\ DOMAIN x = Fields /\ x.flops = 2 * QkRopeHeadDim * NumHeads * Pairs(b)
      /\ DOMAIN z = Fields /\ z.flops = 2 * KvLoraRank * NumHeads * Pairs(b)
  BY DEF AbsorbScoring, AbsorbContext, Roofline, Fields
<1>4. DOMAIN y = Fields /\ y.flops = SumFunction(c)
  BY DEF AbsorbSoftmax, PerSeq, Nothing, Fields, Total, Roofline
<1>5. SumFunction(c) = (7 * NumHeads) * Pairs(b)
  BY PairsOfOne
<1>6. Pairs(b) \in Nat /\ (Tokens(b) = 0 => Pairs(b) = 0) /\ Context(b) \in Nat
  BY SumParts, NoPairs
<1>7. /\ w.flops = k * Pairs(b) /\ x.flops = r * Pairs(b) /\ y.flops = t * Pairs(b)
      /\ z.flops = k * Pairs(b)
      /\ 2 * NumHeads * (LatentDim + KvLoraRank) * Context(b) =
           (2 * ((LatentDim + KvLoraRank) * NumHeads)) * Context(b)
  BY <1>3, <1>4, <1>5, <1>6, RatePairs, Dims
<1>8. /\ k \in Nat /\ r \in Nat /\ t \in Nat
      /\ DecodeRate("Absorbed", TRUE) = k + r + k
      /\ DecodeRate("Absorbed", FALSE) = k + r + t + k
  BY DecodeRatesAre
<1>9. 2 * ((LatentDim + KvLoraRank) * NumHeads) = DecodeRate("Absorbed", TRUE)
  BY Dims DEF DecodeRate
<1> HIDE DEF w, x, y, z, k, r, t
<1>10. Plus(x, Plus(y, z)).flops = (r + t + k) * Pairs(b)
  BY <1>3, <1>4, <1>7, <1>8, ThreePhases
<1>11. Plus(w, Plus(x, Plus(y, z))).flops = k * Pairs(b) + (r + t + k) * Pairs(b)
  BY <1>3, <1>7, <1>10, PlusFields DEF Fields
<1>12. k * Pairs(b) + (r + t + k) * Pairs(b) = (k + (r + t + k)) * Pairs(b)
  BY <1>6, <1>8, Distribute
<1>13. k + (r + t + k) = k + r + t + k /\ (k + r + t + k) * 0 = 0
  BY <1>8
<1> QED
  BY <1>1, <1>2, <1>6, <1>7, <1>8, <1>9, <1>11, <1>12, <1>13

-----------------------------------------------------------------------------
(* Modules and their execution *)

\* Where the attention of a layer begins.
SumPlace(kind) == CASE kind = "MHA" -> 3 [] kind = "MLA" -> 11 [] kind = "Absorbed" -> 12

Systems == {<<"GPU">>, <<"LOGIC">>, <<"GPU", "LOGIC">>, <<"GPU", "PIM">>}

LEMMA NetFields ==
  ASSUME net \in Nets
  PROVE  /\ net \in Net /\ net.kind \in Kinds /\ net.procs \in Systems /\ net.ffnWay \in {2, 3}
         /\ {net.flashMla, net.flashAttention, net.compressed, net.decode} \subseteq BOOLEAN
<1>1. net \in Net /\ net.procs \in Systems
  BY LayerExecutionAssumption DEF Systems
<1> QED
  BY <1>1 DEF Net, Kinds

LEMMA Layout ==
  ASSUME net \in Nets
  PROVE  /\ Len(Decoder) \in Nat /\ SumPlace(net.kind) \in 3 .. 12
         /\ SumPlace(net.kind) + 1 < Len(Decoder)
         /\ \A i \in 1 .. Len(Decoder) :
              /\ Decoder[i] = "attention_sum" <=> i = SumPlace(net.kind)
              /\ Decoder[i] = "attention_gen" <=> i = SumPlace(net.kind) + 1
              /\ Decoder[i] = "attn_qkv_proj" <=> net.kind = "MHA" /\ i = 2
<1>1. net.kind \in Kinds /\ net.ffnWay \in {2, 3}
  BY NetFields
<1>2. CASE net.kind = "MHA" /\ net.ffnWay = 2
  BY <1>2 DEF SumPlace, Decoder, Attention, AttentionParallel, FeedForward2Way
<1>3. CASE net.kind = "MHA" /\ net.ffnWay = 3
  BY <1>3 DEF SumPlace, Decoder, Attention, AttentionParallel, FeedForward3Way
<1>4. CASE net.kind = "MLA" /\ net.ffnWay = 2
  BY <1>4 DEF SumPlace, Decoder, MultiLatentAttention, LatentModules, AttentionParallel,
     FeedForward2Way
<1>5. CASE net.kind = "MLA" /\ net.ffnWay = 3
  BY <1>5 DEF SumPlace, Decoder, MultiLatentAttention, LatentModules, AttentionParallel,
     FeedForward3Way
<1>6. CASE net.kind = "Absorbed" /\ net.ffnWay = 2
  BY <1>6 DEF SumPlace, Decoder, AbsorbedAttention, LatentModules, AttentionParallel,
     FeedForward2Way
<1>7. CASE net.kind = "Absorbed" /\ net.ffnWay = 3
  BY <1>7 DEF SumPlace, Decoder, AbsorbedAttention, LatentModules, AttentionParallel,
     FeedForward3Way
<1> QED
  BY <1>1, <1>2, <1>3, <1>4, <1>5, <1>6, <1>7 DEF Kinds

LEMMA PerPairIs ==
  ASSUME net \in Nets
  PROVE  /\ PerPair + SoftmaxPerPair = PromptRate(net.kind)
         /\ PerPair + (IF net.kind # "MHA" /\ ~net.flashMla THEN SoftmaxPerPair ELSE 0)
              = DecodeRate(net.kind, net.flashMla)
         /\ PromptRate(net.kind) \in Nat /\ DecodeRate(net.kind, net.flashMla) \in Nat
<1>1. net.kind \in Kinds /\ net.flashMla \in BOOLEAN
  BY NetFields
<1>2. CASE net.kind = "MHA"
  <2>1. 4 * HeadDim * NumHeads = 2 * (HeadDim * NumHeads) + 2 * (HeadDim * NumHeads)
        /\ 4 * HeadDim * NumHeads \in Nat
    BY Dims
  <2> QED
    BY <1>2, <2>1, Rates DEF PerPair, SoftmaxPerPair, PromptRate, DecodeRate
<1>3. CASE net.kind = "MLA"
  <2>1. 2 * (QkHeadDim + HeadDim) * NumHeads
          = 2 * (QkHeadDim * NumHeads) + 2 * (HeadDim * NumHeads)
        /\ 2 * (QkHeadDim + HeadDim) * NumHeads \in Nat
    BY Dims
  <2> QED
    BY <1>1, <1>3, <2>1, Rates DEF PerPair, SoftmaxPerPair, PromptRate, DecodeRate
<1>4. CASE net.kind = "Absorbed"
  <2>1. LatentDim + KvLoraRank = KvLoraRank + QkRopeHeadDim + KvLoraRank
    BY Dims
  <2>2. 2 * (KvLoraRank + QkRopeHeadDim + KvLoraRank) * NumHeads
          = 2 * (KvLoraRank * NumHeads) + 2 * (QkRopeHeadDim * NumHeads) + 2 * (KvLoraRank * NumHeads)
    BY Dims
  <2>3. 2 * (LatentDim + KvLoraRank) * NumHeads
          = 2 * (KvLoraRank * NumHeads) + 2 * (QkRopeHeadDim * NumHeads) + 2 * (KvLoraRank * NumHeads)
    BY <2>1, <2>2
  <2> QED
    BY <1>1, <1>4, <2>3, Rates DEF PerPair, SoftmaxPerPair, PromptRate, DecodeRate
<1> QED
  BY <1>1, <1>2, <1>3, <1>4 DEF Kinds

\* The status kept is that of a processor that was tried.
LEMMA OptimalIsOne ==
  ASSUME NEW s, DOMAIN s = 1 .. 1 \/ DOMAIN s = 1 .. 2
  PROVE  \E i \in DOMAIN s : Optimal(s) = s[i]
<1> DEFINE S == DOMAIN s
           Better(best, status) ==
              IF best.time = 0 \/ best.time > status.time THEN status ELSE best
           Latest(t) == CHOOSE x \in t : \A y \in t : x >= y
           F(g) == g = [t \in SUBSET S |->
                          IF t = {} THEN Nothing ELSE Better(g[t \ {Latest(t)}], s[Latest(t)])]
           iter == CHOOSE g : F(g)
<1>1. Optimal(s) = iter[S]
  BY DEF Optimal, FoldLeft, MapThenFoldSet, Max
<1>2. Nothing.time = 0
  BY DEF Nothing
<1>3. Better(Nothing, s[1]) = s[1]
  BY <1>2
<1>4. Latest({1}) = 1 /\ (2 \in S => Latest({2}) = 2 /\ Latest({1, 2}) = 2)
  OBVIOUS
<1>5. S = {1} \/ S = {1, 2}
  OBVIOUS
<1> DEFINE w == [t \in SUBSET S |->
                   IF t = {} THEN Nothing
                   ELSE IF t = {1} THEN s[1]
                   ELSE IF t = {2} THEN Better(Nothing, s[2])
                   ELSE Better(s[1], s[2])]
<1>6. F(w)
  <2> SUFFICES ASSUME NEW t \in SUBSET S, t # {}
               PROVE  w[t] = Better(w[t \ {Latest(t)}], s[Latest(t)])
    OBVIOUS
  <2>1. t = {1} \/ t = {2} \/ t = {1, 2}
    BY <1>5
  <2>2. CASE t = {1}
    <3>1. t \ {Latest(t)} = {}
      BY <1>4, <2>2
    <3> QED
      BY <1>3, <1>4, <2>2, <3>1
  <2>3. CASE t = {2}
    <3>1. t \ {Latest(t)} = {} /\ 2 \in S
      BY <1>4, <2>3
    <3> QED
      BY <1>4, <2>3, <3>1
  <2>4. CASE t = {1, 2}
    <3>1. t \ {Latest(t)} = {1} /\ 2 \in S
      BY <1>4, <2>4
    <3> QED
      BY <1>4, <2>4, <3>1
  <2> QED
    BY <2>1, <2>2, <2>3, <2>4
<1> HIDE DEF F
<1>7. F(iter)
  BY <1>6
<1> HIDE DEF iter
<1>8. iter[{}] = Nothing
  BY <1>7 DEF F
<1>9. 1 \in S
  BY <1>5
<1>10. iter[{1}] = s[1]
  <2>1. {1} \ {Latest({1})} = {}
    BY <1>4
  <2>2. iter[{1}] = Better(iter[{1} \ {Latest({1})}], s[Latest({1})])
    BY <1>7, <1>9 DEF F
  <2> QED
    BY <1>3, <1>4, <1>8, <2>1, <2>2
<1>11. CASE S = {1}
  BY <1>1, <1>10, <1>11
<1>12. CASE S = {1, 2}
  <2>1. {1, 2} \ {Latest({1, 2})} = {1}
    BY <1>4, <1>12
  <2>2. iter[{1, 2}] = Better(iter[{1, 2} \ {Latest({1, 2})}], s[Latest({1, 2})])
    BY <1>7, <1>12 DEF F
  <2>3. iter[{1, 2}] = Better(s[1], s[2])
    BY <1>4, <1>10, <1>12, <2>1, <2>2
  <2> QED
    BY <1>1, <1>12, <2>3
<1> QED
  BY <1>5, <1>11, <1>12

\* An executed module is charged what one of the processors is.
LEMMA KeptIsOne ==
  ASSUME net \in Nets, NEW module
  PROVE  LET procs == Candidates(module)
         IN  \E p \in Processors :
               /\ p \in Range(procs)
               /\ Optimal([i \in DOMAIN procs |-> ExecuteOn(procs[i], module)]) = ExecuteOn(p, module)
<1> DEFINE procs == Candidates(module)
           s == [i \in DOMAIN procs |-> ExecuteOn(procs[i], module)]
<1>1. net.procs \in Systems
  BY NetFields
<1>2. Head(net.procs) \in {"GPU", "LOGIC"}
  BY <1>1 DEF Systems
<1>3. procs \in Systems
  BY <1>1, <1>2 DEF Candidates, Systems
<1>4. /\ DOMAIN procs = 1 .. 1 \/ DOMAIN procs = 1 .. 2
      /\ \A i \in DOMAIN procs : procs[i] \in Processors
  BY <1>3 DEF Systems, Processors
<1>5. DOMAIN s = DOMAIN procs /\ \A i \in DOMAIN procs : s[i] = ExecuteOn(procs[i], module)
  OBVIOUS
<1> HIDE DEF s, procs
<1>6. PICK i \in DOMAIN s : Optimal(s) = s[i]
  BY <1>4, <1>5, OptimalIsOne
<1>7. Optimal(s) = ExecuteOn(procs[i], module) /\ procs[i] \in Processors
      /\ procs[i] \in Range(procs)
  BY <1>4, <1>5, <1>6 DEF Range
<1> QED
  BY <1>7 DEF s, procs

-----------------------------------------------------------------------------
(* Pairs of queries and keys under a causal mask *)

LEMMA CausalNat ==
  ASSUME NEW a \in Nat, NEW b \in Nat, NEW w \in Nat
  PROVE  /\ NatOn([i \in a + 1 .. b |-> Smaller(i, w)], a + 1 .. b)
         /\ CausalPairs(a, b, w) \in Nat
         /\ b <= a => CausalPairs(a, b, w) = 0
<1> DEFINE f == [i \in a + 1 .. b |-> Smaller(i, w)]
<1>1. NatOn(f, a + 1 .. b)
  BY FS_Interval DEF NatOn, Smaller
<1>2. CausalPairs(a, b, w) = SumFunction(f)
  BY DEF CausalPairs
<1>3. b <= a => DOMAIN f = {}
  OBVIOUS
<1> HIDE DEF f
<1>4. b <= a => SumFunction(f) = 0
  BY <1>3, SumOfNothing
<1>5. SumFunction(f) \in Nat
  BY <1>1, NatSum
<1> QED
  BY <1>1, <1>2, <1>4, <1>5 DEF f

\* The tokens of a pass come after those before.
LEMMA CausalStep ==
  ASSUME NEW a \in Nat, NEW c \in Nat, a <= c, NEW t \in Nat, NEW w \in Nat
  PROVE  CausalPairs(a, c + t, w) = CausalPairs(a, c, w) + CausalPairs(c, c + t, w)
<1> DEFINE S == a + 1 .. c + t
           A == a + 1 .. c
           B == c + 1 .. c + t
           f == [i \in S |-> Smaller(i, w)]
           g == [i \in A |-> Smaller(i, w)]
           h == [i \in B |-> Smaller(i, w)]
<1>1. /\ CausalPairs(a, c + t, w) = SumFunction(f)
      /\ CausalPairs(a, c, w) = SumFunction(g)
      /\ CausalPairs(c, c + t, w) = SumFunction(h)
  BY DEF CausalPairs
<1>2. NatOn(f, S)
  <2>1. c + t \in Nat
    OBVIOUS
  <2> QED
    BY <2>1, CausalNat
<1>3. A \in SUBSET S /\ B = S \ A
  OBVIOUS
<1>4. DOMAIN g = A /\ SameOn(g, f, A) /\ DOMAIN h = B /\ SameOn(h, f, B)
  BY DEF SameOn
<1> HIDE DEF S, A, B, f, g, h
<1>5. SumFunction(f) = SumFunction(g) + SumFunction(h)
  BY <1>2, <1>3, <1>4, SumOfTwoParts
<1> QED
  BY <1>1, <1>5

\* Every token sees at most what the last one does.
LEMMA CausalAtMost ==
  ASSUME NEW c \in Nat, NEW t \in Nat, NEW w \in Nat
  PROVE  CausalPairs(c, c + t, w) <= t * Smaller(c + t, w)
<1> DEFINE B == c + 1 .. c + t
           f == [i \in B |-> Smaller(i, w)]
           k == Smaller(c + t, w)
           h == [i \in B |-> k]
<1>1. CausalPairs(c, c + t, w) = SumFunction(f) /\ NatOn(f, B)
  BY CausalNat DEF CausalPairs
<1>2. k \in Nat /\ BelowOn(f, h, B)
  BY DEF Smaller, BelowOn
<1>3. IsFiniteSet(B) /\ Cardinality(B) = t
  BY FS_Interval
<1>4. B = DOMAIN h /\ \A i \in B : h[i] = k
  OBVIOUS
<1> HIDE DEF B, f, h, k
<1>5. NatOn(h, B) /\ SumFunction(h) = k * t
  BY <1>2, <1>3, <1>4, SumOfConstant
<1>6. SumFunction(f) <= SumFunction(h)
  BY <1>1, <1>2, <1>5, SumAtMost
<1>7. k * t = t * k
  BY <1>2
<1> QED
  BY <1>1, <1>5, <1>6, <1>7 DEF k

LEMMA CausalOne ==
  ASSUME NEW c \in Nat, NEW w \in Nat
  PROVE  CausalPairs(c, c + 1, w) = Smaller(c + 1, w)
<1> DEFINE B == c + 1 .. c + 1
           k == Smaller(c + 1, w)
           f == [i \in B |-> Smaller(i, w)]
<1>1. CausalPairs(c, c + 1, w) = SumFunction(f)
  BY DEF CausalPairs
<1>2. k \in Nat /\ IsFiniteSet(B) /\ Cardinality(B) = 1
  <2>1. k \in Nat
    BY DEF Smaller
  <2>2. B = {c + 1}
    OBVIOUS
  <2> HIDE DEF B, k
  <2>3. IsFiniteSet(B) /\ Cardinality(B) = 1
    BY <2>2, FS_Singleton
  <2> QED
    BY <2>1, <2>3
<1>3. B = DOMAIN f /\ \A i \in B : f[i] = k
  OBVIOUS
<1> HIDE DEF B, f, k
<1>4. SumFunction(f) = k * 1
  BY <1>2, <1>3, SumOfConstant
<1> QED
  BY <1>1, <1>2, <1>4 DEF k

-----------------------------------------------------------------------------
(* The invariant *)

Places ==
  \/ pc = 0
  \/ pc = -1 /\ net.decode /\ layer = 0
  \/ pc \in 1 .. Len(Decoder) /\ layer < NumLayers
  \/ pc = 1 /\ layer \in {NumLayers, NumLayers + 1}

\* A prompt is processed in chunks up to its end, an output token by token.
SeqOk(s) ==
  /\ reused[s] <= start[s] /\ start[s] <= current[s]
  /\ net.decode => InputLen[s] <= start[s]
  /\ current[s] + tokens[s] <= TotalLen(s)
  /\ InSum(s) => current[s] + tokens[s] <= InputLen[s] /\ tokens[s] <= MaxProcessToken
  /\ ~InSum(s) => tokens[s] \in {0, 1}
  /\ pc = 0 => tokens[s] = 0

TypeOk ==
  /\ net \in Nets
  /\ {reused, start, current, tokens} \subseteq [Seqs -> Nat]
  /\ bulkWritten \in SUBSET Seqs
  /\ layer \in Nat /\ pc \in Int /\ kvWritten \in Nat
  /\ DOMAIN work = {"sum", "gen"}

\* How many layers have run their module at place p in this pass.
Done(p) ==
  IF pc <= 0 THEN 0
  ELSE IF layer >= NumLayers THEN NumLayers
  ELSE layer + IF pc > p THEN 1 ELSE 0

SumDone == Done(SumPlace(net.kind))
GenDone == Done(SumPlace(net.kind) + 1)

\* The pairs of each prompt: those under the mask, and those with all of it.
PromptLow  == [s \in Seqs |-> CausalPairs(start[s], PromptEnd(s), InputLen[s])]
PromptHigh == [s \in Seqs |-> (PromptEnd(s) - Smaller(start[s], PromptEnd(s))) * InputLen[s]]

PromptSoFar ==
  ~(net.kind = "MLA" /\ net.flashAttention) /\ ChunksFit =>
    /\ work.sum \in Nat
    /\ work.sum >= PromptRate(net.kind) *
                     (NumLayers * SumFunction(PromptLow) + SumDone * Pairs(Sums))
    /\ work.sum <= PromptRate(net.kind) *
                     (NumLayers * SumFunction(PromptHigh) + SumDone * Pairs(Sums))

\* The pairs of each output within a window of w keys.
DecodePairs(w) == [s \in Seqs |-> CausalPairs(FirstDecoded(s), current[s], w)]

AllKeys == OverSeqs(TotalLen)
WindowOf(l) == IF net.kind = "MHA" /\ l % FullStride # 0 THEN KvWindow ELSE AllKeys

\* The least a layer is charged for.
LeastPairs(l) == IF net.kind = "MHA" THEN Pairs(Clamped(l, Gens)) ELSE Pairs(Gens)

Layers == 0 .. NumLayers - 1

DecodeLow ==
  [l \in Layers |-> SumFunction(DecodePairs(WindowOf(l)))
                      + IF l < GenDone THEN LeastPairs(l) ELSE 0]

DecodeSoFar ==
  /\ work.gen \in Nat
  /\ work.gen >= DecodeRate(net.kind, net.flashMla) * SumFunction(DecodeLow)
  /\ ~(net.kind = "Absorbed" /\ net.flashMla) =>
       work.gen <= DecodeRate(net.kind, net.flashMla) *
                     (NumLayers * SumFunction(DecodePairs(AllKeys)) + GenDone * Pairs(Gens))

\* What the layers cache of a token, and of a prompt prefilled elsewhere.
Unit == 2 * HeadDim * GroupedKvHeads * Precision
KeptOf(s) == SumFunction([l \in Layers |-> Cardinality(KeptPositions(l, s))])

Added == [s \in Seqs |-> NumLayers * (current[s] - start[s])]
Bulk == [s \in Seqs |-> IF s \in bulkWritten THEN KeptOf(s) ELSE 0]

KvSoFar ==
  net.kind = "MHA" /\ Head(net.procs) = "GPU" =>
    kvWritten = Unit * (SumFunction(Added) + SumFunction(Bulk) + Done(2) * Rows)

\* A sequence has its bulk written in the first pass that gives it a token.
BulkOk ==
  \A s \in Seqs :
    s \in bulkWritten <=> /\ net.decode
                          /\ current[s] + (IF pc > 0 THEN tokens[s] ELSE 0) > start[s]

LayerInductive ==
  /\ TypeOk /\ Places /\ \A s \in Seqs : SeqOk(s)
  /\ PromptSoFar /\ DecodeSoFar
  /\ KvSoFar /\ BulkOk

-----------------------------------------------------------------------------
(* Types, places and lengths *)

LEMMA Bounds ==
  /\ NumLayers \in Nat \ {0} /\ TpDegree \in Nat \ {0} /\ NumSeqs \in Nat \ {0}
  /\ IsFiniteSet(Seqs) /\ IsFiniteSet(Layers)
  /\ \A s \in Seqs : /\ InputLen[s] \in Nat \ {0} /\ OutputLen[s] \in Nat \ {0}
                     /\ TotalLen(s) \in Nat /\ InputLen[s] <= TotalLen(s)
  /\ KvWindow \in Nat /\ FullStride \in Nat \ {0} /\ MaxProcessToken \in Nat
<1>1. /\ NumLayers \in Nat \ {0} /\ TpDegree \in Nat \ {0} /\ NumSeqs \in Nat \ {0}
      /\ InputLen \in [Seqs -> Nat \ {0}] /\ OutputLen \in [Seqs -> Nat \ {0}]
      /\ KvWindow \in Nat /\ FullStride \in Nat \ {0} /\ MaxProcessToken \in Nat
  BY LayerExecutionAssumption
<1>2. IsFiniteSet(Seqs) /\ IsFiniteSet(Layers)
  BY <1>1, FS_Interval DEF Seqs, Layers
<1> QED
  BY <1>1, <1>2 DEF TotalLen

LEMMA Batches ==
  ASSUME TypeOk
  PROVE  /\ BatchOk(Sums) /\ BatchOk(Gens) /\ BatchOk(Batch)
         /\ DOMAIN Sums = {s \in Present : InSum(s)}
         /\ DOMAIN Gens = {s \in Present : ~InSum(s)}
         /\ DOMAIN Batch = Present
         /\ \A s \in DOMAIN Sums : Sums[s] = [m |-> tokens[s], n |-> current[s] + tokens[s]]
         /\ \A s \in DOMAIN Gens : Gens[s] = [m |-> tokens[s], n |-> current[s] + tokens[s]]
         /\ \A s \in DOMAIN Batch : Batch[s] = [m |-> tokens[s], n |-> current[s] + tokens[s]]
<1>1. /\ DOMAIN Sums = {s \in Present : InSum(s)}
      /\ DOMAIN Gens = {s \in Present : ~InSum(s)}
      /\ DOMAIN Batch = Present
  BY DEF Sums, Gens, Batch, Select, Present
<1>2. /\ \A s \in DOMAIN Sums : Sums[s] = [m |-> tokens[s], n |-> current[s] + tokens[s]]
      /\ \A s \in DOMAIN Gens : Gens[s] = [m |-> tokens[s], n |-> current[s] + tokens[s]]
      /\ \A s \in DOMAIN Batch : Batch[s] = [m |-> tokens[s], n |-> current[s] + tokens[s]]
  BY DEF Sums, Gens, Batch, Select
<1>3. IsFiniteSet(Seqs) /\ Present \in SUBSET Seqs
  BY Bounds DEF Present
<1>4. IsFiniteSet(Present)
  BY <1>3, FS_Subset
<1>5. IsFiniteSet(DOMAIN Sums) /\ IsFiniteSet(DOMAIN Gens) /\ IsFiniteSet(DOMAIN Batch)
  <2>1. DOMAIN Sums \in SUBSET Present /\ DOMAIN Gens \in SUBSET Present
    BY <1>1
  <2> QED
    BY <2>1, <1>1, <1>4, FS_Subset
<1>6. \A s \in Present : [m |-> tokens[s], n |-> current[s] + tokens[s]] \in [m : Nat, n : Nat]
  BY <1>3 DEF TypeOk
<1> QED
  BY <1>1, <1>2, <1>5, <1>6 DEF BatchOk

\* The batch stays as it is within a pass.
LEMMA BatchSame ==
  ASSUME UNCHANGED <<current, tokens>>
  PROVE  Sums' = Sums /\ Gens' = Gens /\ Batch' = Batch /\ Rows' = Rows
BY DEF Sums, Gens, Batch, Select, Present, InSum, Rows, Tokens, Total

\* Where a pass is, and where it goes.
LEMMA PassPlace ==
  ASSUME TypeOk, Places, InPass
  PROVE  /\ Len(Decoder) \in Nat /\ Len(Decoder) > 2
         /\ pc \in 1 .. Len(Modules)
         /\ \/ layer < NumLayers /\ Modules = Decoder
            \/ layer = NumLayers /\ Modules = LmHead /\ pc = 1 /\ Len(Modules) = 1
<1>1. Len(Decoder) \in Nat /\ Len(Decoder) > 2
  BY Layout DEF TypeOk
<1>2. NumLayers \in Nat \ {0} /\ layer \in Nat /\ pc \in Int
  BY Bounds DEF TypeOk
<1>3. CASE layer < NumLayers
  BY <1>1, <1>2, <1>3 DEF Places, InPass, Modules
<1>4. CASE ~(layer < NumLayers)
  BY <1>1, <1>2, <1>4 DEF Places, InPass, Modules, LmHead
<1> QED
  BY <1>1, <1>3, <1>4

LEMMA ModuleAt ==
  ASSUME TypeOk, Places, InPass
  PROVE  /\ Modules[pc] = "attention_sum" <=> layer < NumLayers /\ pc = SumPlace(net.kind)
         /\ Modules[pc] = "attention_gen" <=> layer < NumLayers /\ pc = SumPlace(net.kind) + 1
         /\ Modules[pc] = "attn_qkv_proj" <=> net.kind = "MHA" /\ layer < NumLayers /\ pc = 2
<1>1. NumLayers \in Nat \ {0} /\ layer \in Nat /\ pc \in Int
  BY Bounds DEF TypeOk
<1>2. CASE layer < NumLayers /\ Modules = Decoder
  BY <1>1, <1>2, PassPlace, Layout DEF TypeOk
<1>3. CASE layer = NumLayers /\ Modules = LmHead /\ pc = 1
  BY <1>1, <1>3 DEF LmHead
<1> QED
  BY <1>2, <1>3, PassPlace

\* A step of a pass is done with the module at one place.
LEMMA NextPlace ==
  ASSUME TypeOk, Places, InPass, NextModule, net' = net, NEW p \in 1 .. Len(Decoder) - 1
  PROVE  /\ Places' /\ layer' \in Nat /\ pc' \in Int
         /\ Done(p)' = Done(p) + (IF layer < NumLayers /\ pc = p THEN 1 ELSE 0)
<1>1. NumLayers \in Nat \ {0} /\ layer \in Nat /\ pc \in Int
  BY Bounds DEF TypeOk
<1>2. Len(Decoder) \in Nat /\ Len(Decoder) > 2 /\ Decoder' = Decoder
  BY PassPlace DEF Decoder
<1>3. CASE layer < NumLayers /\ Modules = Decoder /\ pc \in 1 .. Len(Decoder)
  <2>1. CASE pc < Len(Decoder)
    <3>1. pc' = pc + 1 /\ layer' = layer
      BY <1>3, <2>1 DEF NextModule
    <3> QED
      BY <1>1, <1>2, <1>3, <2>1, <3>1 DEF Places, Done
  <2>2. CASE ~(pc < Len(Decoder))
    <3>1. pc' = 1 /\ layer' = layer + 1
      BY <1>3, <2>2 DEF NextModule
    <3> QED
      BY <1>1, <1>2, <1>3, <2>2, <3>1 DEF Places, Done
  <2> QED
    BY <2>1, <2>2
<1>4. CASE layer = NumLayers /\ Modules = LmHead /\ pc = 1 /\ Len(Modules) = 1
  <2>1. pc' = 1 /\ layer' = layer + 1
    BY <1>4 DEF NextModule
  <2> QED
    BY <1>1, <1>2, <1>4, <2>1 DEF Places, Done
<1> QED
  BY <1>3, <1>4, PassPlace

LEMMA DoneBefore ==
  ASSUME TypeOk, NEW p \in Nat
  PROVE  /\ Done(p) \in Nat /\ Done(p) <= NumLayers
         /\ pc <= 0 => Done(p) = 0
         /\ layer > NumLayers /\ pc > 0 => Done(p) = NumLayers
BY Bounds DEF TypeOk, Done

-----------------------------------------------------------------------------
(* Operations charged for a module *)

LEMMA ExecuteSum ==
  ASSUME TypeOk, NEW p \in Processors, ~(net.kind = "MLA" /\ net.flashAttention),
         net.kind = "MHA" /\ p # "GPU" => ProductsFit
  PROVE  ExecuteOn(p, "attention_sum").flops = PromptRate(net.kind) * Pairs(Sums)
<1>1. net.kind \in Kinds /\ net.flashAttention \in BOOLEAN
  BY NetFields DEF TypeOk
<1>2. BatchOk(Sums)
  BY Batches
<1>3. ExecuteOn(p, "attention_sum") = ExecuteAttention(p, "attention_sum")
  BY DEF ExecuteOn, AttentionParallel, Range
<1>4. CASE net.kind = "MHA"
  <2>1. ExecuteOn(p, "attention_sum") = SelfAttentionSum(p)
    BY <1>3, <1>4 DEF ExecuteAttention, SelfAttentionParallel
  <2>2. CASE p = "GPU"
    BY <1>2, <1>4, <2>1, <2>2, GroupedPromptGPU DEF SelfAttentionSum
  <2>3. CASE p # "GPU"
    <3>1. \A s \in DOMAIN Sums : ChunkProduct(Sums[s]) < IntRange
      BY <1>4, <2>3 DEF ProductsFit
    <3>2. /\ Grouped!AttentionSumLogic(Sums).flops = PromptRate("MHA") * Pairs(Sums)
          /\ Grouped!AttentionSumPIM(Sums).flops = PromptRate("MHA") * Pairs(Sums)
      BY <1>2, <3>1, GroupedPromptLogic, GroupedPromptPIM
    <3> QED
      BY <1>4, <2>1, <2>3, <3>2 DEF SelfAttentionSum, Processors
  <2> QED
    BY <2>2, <2>3
<1>5. CASE net.kind = "MLA"
  <2>1. ExecuteOn(p, "attention_sum") = MLASum(p, FALSE, Sums)
    BY <1>1, <1>3, <1>5 DEF ExecuteAttention, MultiLatentAttentionParallel,
       MultiLatentAttentionSum
  <2> QED
    BY <1>2, <1>5, <2>1, LatentPrompt
<1>6. CASE net.kind = "Absorbed"
  <2>1. ExecuteOn(p, "attention_sum") = AbsorbMLASum(p, Sums)
    BY <1>3, <1>6 DEF ExecuteAttention, AbsorbMLAParallel, AbsorbedAttentionSum
  <2> QED
    BY <1>2, <1>6, <2>1, AbsorbedPrompt
<1> QED
  BY <1>1, <1>4, <1>5, <1>6 DEF Kinds

\* No sequence generates more than a token in a pass.
LEMMA PairsWithinContext ==
  ASSUME NEW b, BatchOk(b), \A s \in DOMAIN b : b[s].m \in {0, 1}
  PROVE  Pairs(b) <= Context(b)
<1> DEFINE f == [s \in DOMAIN b |-> b[s].m * b[s].n]
           h == [s \in DOMAIN b |-> b[s].n]
<1>1. NatOn(f, DOMAIN b) /\ NatOn(h, DOMAIN b) /\ Pairs(b) = SumFunction(f)
      /\ Context(b) = SumFunction(h)
  BY SumParts
<1>2. BelowOn(f, h, DOMAIN b)
  BY DEF BelowOn, BatchOk
<1> HIDE DEF f, h
<1> QED
  BY <1>1, <1>2, SumAtMost

LEMMA MoreForMore ==
  ASSUME NEW k \in Nat, NEW a \in Nat, NEW b \in Nat, a <= b
  PROVE  k * a <= k * b /\ k * a \in Nat
OBVIOUS

LEMMA LeastPairsAre ==
  ASSUME TypeOk, NEW l \in Nat
  PROVE  LeastPairs(l) \in Nat /\ LeastPairs(l) <= Pairs(Gens) /\ Pairs(Gens) \in Nat
<1>1. BatchOk(Gens)
  BY Batches
<1>2. Pairs(Gens) \in Nat
  BY <1>1, SumParts
<1>3. Pairs(Clamped(l, Gens)) \in Nat /\ Pairs(Clamped(l, Gens)) <= Pairs(Gens)
  BY <1>1, ClampedIs
<1> QED
  BY <1>2, <1>3 DEF LeastPairs

LEMMA ExecuteGen ==
  ASSUME TypeOk, \A s \in Seqs : SeqOk(s), NEW p \in Processors
  PROVE  LET F == ExecuteOn(p, "attention_gen").flops
             k == DecodeRate(net.kind, net.flashMla)
         IN  /\ F \in Nat /\ F >= k * LeastPairs(layer)
             /\ ~(net.kind = "Absorbed" /\ net.flashMla) => F <= k * Pairs(Gens)
<1> DEFINE F == ExecuteOn(p, "attention_gen").flops
           k == DecodeRate(net.kind, net.flashMla)
<1> SUFFICES /\ F \in Nat /\ F >= k * LeastPairs(layer)
             /\ ~(net.kind = "Absorbed" /\ net.flashMla) => F <= k * Pairs(Gens)
  OBVIOUS
<1>1. net.kind \in Kinds /\ net.flashMla \in BOOLEAN /\ layer \in Nat
  BY NetFields DEF TypeOk
<1>2. BatchOk(Gens) /\ Pairs(Gens) \in Nat /\ Context(Gens) \in Nat
  BY Batches, SumParts
<1>3. ExecuteOn(p, "attention_gen") = ExecuteAttention(p, "attention_gen")
  BY DEF ExecuteOn, AttentionParallel, Range
<1>4. LeastPairs(layer) \in Nat /\ LeastPairs(layer) <= Pairs(Gens)
  BY <1>1, LeastPairsAre
<1>5. k \in Nat
  BY <1>1, DecodeRateNatural
<1>6. CASE net.kind = "MHA"
  <2>1. ExecuteOn(p, "attention_gen") = SelfAttentionGen(p)
    BY <1>3, <1>6 DEF ExecuteAttention, SelfAttentionParallel
  <2>2. DecodeRate("MHA", TRUE) = k
    BY <1>6 DEF DecodeRate
  <2>3. F = k * LeastPairs(layer) \/ F = k * Pairs(Gens)
    <3>1. CASE p = "GPU"
      BY <1>1, <1>2, <1>6, <2>1, <2>2, <3>1, GroupedGenGPU DEF SelfAttentionGen, LeastPairs
    <3>2. CASE p \in {"LOGIC", "PIM"}
      BY <1>2, <2>1, <2>2, <3>2, GroupedGenOther DEF SelfAttentionGen
    <3> QED
      BY <3>1, <3>2 DEF Processors
  <2> HIDE DEF F, k
  <2> QED
    BY <1>2, <1>4, <1>5, <2>3, MoreForMore
<1>7. CASE net.kind = "MLA"
  <2>1. ExecuteOn(p, "attention_gen") = MLAGen(p, net.flashMla, Gens)
    BY <1>3, <1>7 DEF ExecuteAttention, MultiLatentAttentionParallel,
       MultiLatentAttentionGen
  <2>2. F = k * Pairs(Gens)
    BY <1>1, <1>2, <1>7, <2>1, LatentGen
  <2> HIDE DEF F, k
  <2> QED
    BY <1>2, <1>4, <1>5, <2>2, MoreForMore
<1>8. CASE net.kind = "Absorbed"
  <2>1. ExecuteOn(p, "attention_gen") = AbsorbMLAGen(p, net.flashMla, Gens)
    BY <1>3, <1>8 DEF ExecuteAttention, AbsorbMLAParallel, AbsorbedAttentionGen
  <2>2. LeastPairs(layer) = Pairs(Gens)
    BY <1>8 DEF LeastPairs
  <2>3. CASE net.flashMla
    <3>1. F = IF Tokens(Gens) = 0 THEN 0 ELSE k * Context(Gens)
      BY <1>2, <1>8, <2>1, <2>3, AbsorbedGen
    <3>2. \A s \in DOMAIN Gens : Gens[s].m \in {0, 1}
      BY Batches DEF SeqOk, Present
    <3>3. Pairs(Gens) <= Context(Gens)
      BY <1>2, <3>2, PairsWithinContext
    <3>4. Tokens(Gens) = 0 => Pairs(Gens) = 0
      BY <1>2, NoPairs
    <3> HIDE DEF F, k
    <3>5. k * 0 = 0
      BY <1>5
    <3> QED
      BY <1>2, <1>5, <1>8, <2>2, <2>3, <3>1, <3>3, <3>4, <3>5, MoreForMore
  <2>4. CASE ~net.flashMla
    <3>1. F = k * Pairs(Gens)
      BY <1>1, <1>2, <1>8, <2>1, <2>4, AbsorbedGen
    <3> HIDE DEF F, k
    <3> QED
      BY <1>2, <1>4, <1>5, <3>1, MoreForMore
  <2> QED
    BY <1>1, <2>3, <2>4
<1> QED
  BY <1>1, <1>6, <1>7, <1>8 DEF Kinds

-----------------------------------------------------------------------------
(* Types, places and lengths are kept *)

Sound == TypeOk /\ Places /\ (\A s \in Seqs : SeqOk(s)) /\ BulkOk

LEMMA SoundInit == Init => Sound
<1> SUFFICES ASSUME Init PROVE Sound
  OBVIOUS
<1> USE Bounds
<1>1. PICK kept \in BOOLEAN : reused = [s \in Seqs |-> IF kept THEN InputLen[s] \div 2 ELSE 0]
  BY DEF Init
<1>2. \A s \in Seqs : reused[s] \in Nat /\ reused[s] <= InputLen[s]
  BY <1>1
<1>3. net \in Nets /\ net.decode \in BOOLEAN
  BY NetFields DEF Init
<1>4. \A s \in Seqs : /\ start[s] \in Nat /\ reused[s] <= start[s] /\ start[s] <= TotalLen(s)
                      /\ net.decode => InputLen[s] <= start[s]
  <2>1. CASE net.decode
    <3>1. PICK seeded \in BOOLEAN :
            start = [s \in Seqs |->
                       InputLen[s] + IF seeded THEN Larger(0, OutputLen[s] - 2) ELSE 0]
      BY <2>1 DEF Init
    <3> QED
      BY <1>2, <3>1 DEF Larger, TotalLen
  <2>2. CASE ~net.decode
    <3>1. start = reused
      BY <2>2 DEF Init
    <3> QED
      BY <1>2, <2>2, <3>1
  <2> QED
    BY <2>1, <2>2
<1>5. {reused, start, current, tokens} \subseteq [Seqs -> Nat]
  <2>1. start \in [Seqs -> Nat]
    <3>1. DOMAIN start = Seqs /\ start = [s \in Seqs |-> start[s]]
      BY <1>1 DEF Init
    <3> QED
      BY <1>4, <3>1
  <2>2. reused \in [Seqs -> Nat]
    BY <1>1
  <2>3. current = start /\ tokens \in [Seqs -> Nat]
    BY DEF Init
  <2> QED
    BY <2>1, <2>2, <2>3
<1>6. TypeOk
  BY <1>3, <1>5 DEF Init, TypeOk
<1>7. Places
  BY DEF Init, Places
<1>8. \A s \in Seqs : SeqOk(s)
  BY <1>2, <1>4 DEF Init, SeqOk, InSum
<1>9. BulkOk
  BY <1>4 DEF Init, BulkOk
<1> QED
  BY <1>6, <1>7, <1>8, <1>9 DEF Sound

LEMMA ShareIsLess ==
  ASSUME NEW x \in Nat, NEW y \in Nat \ {0}
  PROVE  x \div y \in Nat /\ x \div y <= x
<1> DEFINE q == x \div y
<1>1. q \in Nat /\ y * q <= x
  OBVIOUS
<1> HIDE DEF q
<1>2. q <= y * q
  BY <1>1, MoreForMore
<1> QED
  BY <1>1, <1>2 DEF q

\* A prompt gets no more than what is left of it, and than the budget.
LEMMA PlannedOk ==
  ASSUME TypeOk, \A s \in Seqs : SeqOk(s), NEW elsewhere, NEW started, NEW s \in Seqs
  PROVE  LET t == Planned(elsewhere, started)[s]
         IN  /\ t \in Nat
             /\ current[s] + t <= TotalLen(s)
             /\ InSum(s) => current[s] + t <= InputLen[s] /\ t <= MaxProcessToken
             /\ ~InSum(s) => t \in {0, 1}
<1> USE Bounds
<1> DEFINE sums == {x \in Present : InSum(x)}
           share == MaxProcessToken \div Cardinality(sums)
           t == Planned(elsewhere, started)[s]
<1>1. current[s] \in Nat /\ current[s] <= TotalLen(s)
  BY DEF TypeOk, SeqOk
<1>2. t = IF s \in sums THEN Smaller(share, InputLen[s] - current[s])
          ELSE IF s \in Present /\ (net.decode \/ (sums = {} /\ ~elsewhere)) /\ s \in started
               THEN 1 ELSE 0
  BY DEF Planned
<1>3. IsFiniteSet(sums)
  BY FS_Subset DEF Present
<1>4. sums # {} => Cardinality(sums) \in Nat \ {0}
  BY <1>3, FS_EmptySet, FS_CardinalityType
<1>5. sums # {} => share \in Nat /\ share <= MaxProcessToken
  <2>1. \A x \in Nat, y \in Nat \ {0} : x \div y \in Nat /\ x \div y <= x
    BY ShareIsLess
  <2> HIDE DEF sums
  <2> QED
    BY <1>4, <2>1
<1>6. s \in sums <=> s \in Present /\ InSum(s)
  OBVIOUS
<1>7. s \in Present <=> current[s] < TotalLen(s)
  BY DEF Present
<1> HIDE DEF sums, share, t
<1>8. CASE s \in sums
  BY <1>1, <1>2, <1>5, <1>6, <1>8 DEF Smaller, InSum, t
<1>9. CASE s \notin sums
  BY <1>1, <1>2, <1>6, <1>7, <1>9 DEF InSum, t
<1> QED
  BY <1>8, <1>9

LEMMA SoundStart == ASSUME Sound, StartPass PROVE Sound'
<1> USE Bounds DEF Sound
<1>1. PICK elsewhere \in BOOLEAN, started \in SUBSET Present : tokens' = Planned(elsewhere, started)
  BY DEF StartPass
<1>2. net.decode \in BOOLEAN /\ Len(Decoder) > 2 /\ Len(Decoder) \in Nat
  BY NetFields, Layout DEF TypeOk
<1>3. tokens' \in [Seqs -> Nat] /\ \A s \in Seqs : SeqOk(s)'
  <2>1. tokens' = [s \in Seqs |-> tokens'[s]]
    BY <1>1 DEF Planned
  <2>2. \A s \in Seqs : /\ tokens'[s] \in Nat
                        /\ current[s] + tokens'[s] <= TotalLen(s)
                        /\ InSum(s) => /\ current[s] + tokens'[s] <= InputLen[s]
                                       /\ tokens'[s] <= MaxProcessToken
                        /\ ~InSum(s) => tokens'[s] \in {0, 1}
    BY <1>1, PlannedOk
  <2> QED
    BY <2>1, <2>2 DEF StartPass, SeqOk, InSum, TotalLen
<1>4. TypeOk'
  BY <1>2, <1>3 DEF TypeOk, StartPass
<1>5. Places'
  <2>1. Decoder' = Decoder
    BY DEF Decoder, StartPass
  <2> QED
    BY <1>2, <2>1 DEF Places, StartPass
<1>6. BulkOk'
  BY <1>2 DEF BulkOk, StartPass, SeqOk, TypeOk
<1> QED
  BY <1>3, <1>4, <1>5, <1>6

LEMMA BulkWriteNat ==
  ASSUME TypeOk
  PROVE  BulkWrite \in Nat
<1> USE Bounds
<1>1. \A s \in Seqs, l \in Layers : NewKvTokens(l, s) \in Nat
  <2> SUFFICES ASSUME NEW s \in Seqs, NEW l \in Layers PROVE NewKvTokens(l, s) \in Nat
    OBVIOUS
  <2>1. EffectiveKvLen(l, current[s]) \in Int /\ EffectiveReusedKvLen(l, current[s], reused[s]) \in Int
    BY DEF EffectiveKvLen, EffectiveReusedKvLen, Smaller, Larger, TypeOk, Layers
  <2> QED
    BY <2>1 DEF NewKvTokens, Larger
<1>2. KvHeads \in Nat /\ HeadDim \in Nat /\ Precision \in Nat /\ TpDegree \in Nat \ {0}
  BY Dims DEF KvHeads
<1>3. \A n \in Nat : ((2 * n * HeadDim * KvHeads) \div TpDegree) * Precision \in Nat
  <2> SUFFICES ASSUME NEW n \in Nat
               PROVE  ((2 * n * HeadDim * KvHeads) \div TpDegree) * Precision \in Nat
    OBVIOUS
  <2> DEFINE x == 2 * n * HeadDim * KvHeads
  <2>1. x \in Nat
    BY <1>2
  <2> HIDE DEF x
  <2>2. x \div TpDegree \in Nat
    BY <2>1
  <2> QED
    BY <1>2, <2>2 DEF x
<1>4. \A s \in Seqs : BulkBytes(s) \in Nat
  <2> SUFFICES ASSUME NEW s \in Seqs PROVE BulkBytes(s) \in Nat
    OBVIOUS
  <2> DEFINE f == [l \in Layers |->
                     ((2 * NewKvTokens(l, s) * HeadDim * KvHeads) \div TpDegree) * Precision]
  <2>1. NatOn(f, Layers)
    BY <1>1, <1>3 DEF NatOn
  <2>2. BulkBytes(s) = SumFunction(f)
    BY DEF BulkBytes, Layers
  <2> HIDE DEF f
  <2> QED
    BY <2>1, <2>2, NatSum
<1> DEFINE g == [s \in FirstVisits |-> BulkBytes(s)]
<1>5. NatOn(g, FirstVisits)
  <2>1. FirstVisits \in SUBSET Seqs
    BY DEF FirstVisits, Present
  <2>2. IsFiniteSet(FirstVisits)
    BY <2>1, FS_Subset
  <2> QED
    BY <1>4, <2>1, <2>2 DEF NatOn
<1>6. BulkWrite = SumFunction(g)
  BY DEF BulkWrite
<1> HIDE DEF g
<1> QED
  BY <1>5, <1>6, NatSum

LEMMA SoundWrite == ASSUME Sound, DecodeKVWrite PROVE Sound'
<1> USE Bounds DEF Sound
<1>1. net.decode \in BOOLEAN /\ Len(Decoder) > 2 /\ Len(Decoder) \in Nat
  BY NetFields, Layout DEF TypeOk
<1>2. FirstVisits \in SUBSET Seqs
  BY DEF FirstVisits, Present
<1>3. TypeOk'
  BY <1>2, BulkWriteNat DEF TypeOk, DecodeKVWrite
<1>4. Places'
  <2>1. Decoder' = Decoder
    BY DEF Decoder, DecodeKVWrite
  <2> QED
    BY <1>1, <2>1 DEF Places, DecodeKVWrite
<1>5. \A s \in Seqs : SeqOk(s)'
  BY DEF DecodeKVWrite, SeqOk, InSum, TotalLen
<1>6. BulkOk'
  <2> SUFFICES ASSUME NEW s \in Seqs
               PROVE  s \in bulkWritten' <=> net.decode /\ current[s] + tokens[s] > start[s]
    BY DEF BulkOk, DecodeKVWrite
  <2>1. net.decode /\ pc = -1
    BY DEF Places, DecodeKVWrite
  <2>2. s \in bulkWritten <=> current[s] > start[s]
    BY <2>1 DEF BulkOk, TypeOk
  <2>3. current[s] \in Nat /\ tokens[s] \in Nat /\ start[s] \in Nat /\ start[s] <= current[s]
        /\ current[s] + tokens[s] <= TotalLen(s)
    BY DEF TypeOk, SeqOk
  <2>4. s \in FirstVisits <=> current[s] < TotalLen(s) /\ s \notin bulkWritten /\ tokens[s] # 0
    BY DEF FirstVisits, Present
  <2>5. bulkWritten' = bulkWritten \union FirstVisits
    BY DEF DecodeKVWrite
  <2> QED
    BY <2>1, <2>2, <2>3, <2>4, <2>5
<1> QED
  BY <1>3, <1>4, <1>5, <1>6

LEMMA SoundRun ==
  ASSUME Sound, InPass, NextModule, kvWritten' \in Nat, DOMAIN work' = {"sum", "gen"},
         UNCHANGED <<net, reused, start, current, tokens, bulkWritten>>
  PROVE  Sound'
<1> USE Bounds DEF Sound
<1>1. 1 \in 1 .. Len(Decoder) - 1
  BY PassPlace
<1>2. Places' /\ layer' \in Nat /\ pc' \in Int
  BY <1>1, NextPlace
<1>3. TypeOk'
  BY <1>2 DEF TypeOk
<1>4. pc > 0 /\ pc' > 0
  <2>1. pc \in Nat /\ pc > 0
    BY DEF TypeOk, InPass
  <2>2. pc' = pc + 1 \/ pc' = 1
    BY DEF NextModule
  <2> QED
    BY <2>1, <2>2
<1>5. \A s \in Seqs : SeqOk(s)'
  BY <1>4 DEF SeqOk, InSum, TotalLen
<1>6. BulkOk'
  BY <1>4 DEF BulkOk
<1> QED
  BY <1>2, <1>3, <1>5, <1>6

LEMMA SoundEnd == ASSUME Sound, EndPass PROVE Sound'
<1> USE Bounds DEF Sound
<1>1. current' \in [Seqs -> Nat] /\ tokens' \in [Seqs -> Nat]
  BY DEF EndPass, TypeOk
<1>2. TypeOk'
  BY <1>1 DEF TypeOk, EndPass
<1>3. Places'
  BY DEF Places, EndPass
<1>4. \A s \in Seqs : SeqOk(s)'
  <2> SUFFICES ASSUME NEW s \in Seqs PROVE SeqOk(s)'
    OBVIOUS
  <2>1. SeqOk(s) /\ current[s] \in Nat /\ tokens[s] \in Nat /\ start[s] \in Nat /\ reused[s] \in Nat
    BY DEF TypeOk
  <2>2. current'[s] = current[s] + tokens[s] /\ tokens'[s] = 0
    BY DEF EndPass
  <2>3. net' = net /\ start' = start /\ reused' = reused
    BY DEF EndPass
  <2> QED
    BY <2>1, <2>2, <2>3 DEF SeqOk, InSum, TotalLen
<1>5. BulkOk'
  <2> SUFFICES ASSUME NEW s \in Seqs
               PROVE  s \in bulkWritten' <=> /\ net'.decode
                                             /\ current'[s] + (IF pc' > 0 THEN tokens'[s] ELSE 0)
                                                  > start'[s]
    BY DEF BulkOk
  <2>1. current'[s] = current[s] + tokens[s] /\ tokens'[s] = 0 /\ current'[s] \in Nat
    BY <1>1 DEF EndPass
  <2>2. net' = net /\ start' = start /\ bulkWritten' = bulkWritten /\ pc > 0 /\ pc' = 0
    BY DEF EndPass
  <2>3. s \in bulkWritten <=> net.decode /\ current[s] + tokens[s] > start[s]
    BY <2>2 DEF BulkOk
  <2> QED
    BY <2>1, <2>2, <2>3
<1> QED
  BY <1>2, <1>3, <1>4, <1>5

-----------------------------------------------------------------------------
(* The work of the prompts *)

\* What a step within a pass changes.
LEMMA RunSteps ==
  ASSUME Sound, AddTime \/ Execution
  PROVE  /\ UNCHANGED <<net, reused, start, current, tokens, bulkWritten>>
         /\ InPass /\ NextModule
         /\ \/ /\ layer < NumLayers /\ pc = SumPlace(net.kind)
               /\ \E p \in Processors :
                    /\ net.procs = <<"GPU">> => p = "GPU"
                    /\ work' = [work EXCEPT !.sum = @ + ExecuteOn(p, "attention_sum").flops]
            \/ /\ layer < NumLayers /\ pc = SumPlace(net.kind) + 1
               /\ \E p \in Processors :
                    work' = [work EXCEPT !.gen = @ + ExecuteOn(p, "attention_gen").flops]
            \/ /\ ~(layer < NumLayers /\ pc = SumPlace(net.kind))
               /\ ~(layer < NumLayers /\ pc = SumPlace(net.kind) + 1)
               /\ work' = work
         /\ kvWritten' = IF /\ net.kind = "MHA" /\ layer < NumLayers /\ pc = 2
                            /\ Head(net.procs) = "GPU"
                         THEN kvWritten + GroupedLinear!KVWriteBytes(Rows) ELSE kvWritten
<1>1. InPass
  BY DEF AddTime, Execution
<1>2. /\ Modules[pc] = "attention_sum" <=> layer < NumLayers /\ pc = SumPlace(net.kind)
      /\ Modules[pc] = "attention_gen" <=> layer < NumLayers /\ pc = SumPlace(net.kind) + 1
      /\ Modules[pc] = "attn_qkv_proj" <=> net.kind = "MHA" /\ layer < NumLayers /\ pc = 2
  BY <1>1, ModuleAt DEF Sound
<1>3. CASE AddTime
  <2>1. Modules[pc] \in HasOwnTime
    BY <1>3 DEF AddTime
  <2>2. Modules[pc] \notin {"attention_sum", "attention_gen", "attn_qkv_proj"}
    BY <2>1 DEF HasOwnTime
  <2> QED
    BY <1>1, <1>2, <1>3, <2>2 DEF AddTime
<1>4. CASE Execution
  <2> DEFINE module == Modules[pc]
             procs == Candidates(module)
             costs == [i \in DOMAIN procs |-> ExecuteOn(procs[i], module)]
             kept == Optimal(costs)
  <2>1. /\ work' = CASE module = "attention_sum" -> [work EXCEPT !.sum = @ + kept.flops]
                     [] module = "attention_gen" -> [work EXCEPT !.gen = @ + kept.flops]
                     [] OTHER -> work
        /\ kvWritten' = IF module = "attn_qkv_proj" /\ "GPU" \in Range(procs)
                        THEN kvWritten + GroupedLinear!KVWriteBytes(Rows) ELSE kvWritten
    BY <1>4 DEF Execution, Executed
  <2>2. net \in Nets
    BY DEF Sound, TypeOk
  <2>3. \E p \in Processors : (net.procs = <<"GPU">> => p = "GPU") /\ kept = ExecuteOn(p, module)
    <3>1. net.procs = <<"GPU">> => Range(procs) = {"GPU"}
      BY DEF Candidates, Range
    <3>2. \E p \in Processors : p \in Range(procs) /\ kept = ExecuteOn(p, module)
      BY <2>2, KeptIsOne
    <3> HIDE DEF kept, procs
    <3> QED
      BY <3>1, <3>2
  <2>4. module = "attn_qkv_proj" => ("GPU" \in Range(procs) <=> Head(net.procs) = "GPU")
    BY DEF Candidates, AttentionParallel, Range
  <2>5. UNCHANGED <<net, reused, start, current, tokens, bulkWritten>> /\ NextModule
    BY <1>4 DEF Execution
  <2> HIDE DEF kept, procs
  <2>6. CASE module = "attention_sum"
    BY <1>1, <1>2, <2>1, <2>3, <2>5, <2>6
  <2>7. CASE module = "attention_gen"
    BY <1>1, <1>2, <2>1, <2>3, <2>5, <2>7
  <2>8. CASE module \notin {"attention_sum", "attention_gen"}
    BY <1>1, <1>2, <2>1, <2>4, <2>5, <2>8
  <2> QED
    BY <2>6, <2>7, <2>8
<1> QED
  BY <1>3, <1>4

\* The pairs of a pass, prompt by prompt.
PromptPairs ==
  [s \in Seqs |-> IF InSum(s) THEN tokens[s] * (current[s] + tokens[s]) ELSE 0]

LEMMA PromptPairsSum ==
  ASSUME TypeOk
  PROVE  /\ NatOn(PromptPairs, Seqs) /\ Pairs(Sums) = SumFunction(PromptPairs)
         /\ Pairs(Sums) \in Nat
<1> DEFINE f == [s \in DOMAIN Sums |-> Sums[s].m * Sums[s].n]
<1>1. NatOn(f, DOMAIN Sums) /\ Pairs(Sums) = SumFunction(f) /\ Pairs(Sums) \in Nat
  BY Batches, SumParts
<1>2. \A s \in Seqs : s \in DOMAIN Sums <=> InSum(s)
  BY Bounds, Batches DEF Present, InSum, TypeOk
<1>3. DOMAIN Sums \in SUBSET Seqs /\ IsFiniteSet(Seqs) /\ DOMAIN PromptPairs = Seqs
  BY Bounds, Batches DEF Present, PromptPairs
<1>4. PaddedOn(PromptPairs, f, DOMAIN Sums, Seqs)
  BY <1>2, Batches DEF PaddedOn, PromptPairs
<1> HIDE DEF f
<1> QED
  BY <1>1, <1>3, <1>4, SumOfPart

LEMMA PromptBounds ==
  ASSUME TypeOk, \A s \in Seqs : SeqOk(s)
  PROVE  /\ NatOn(PromptLow, Seqs) /\ NatOn(PromptHigh, Seqs)
         /\ SumFunction(PromptLow) \in Nat /\ SumFunction(PromptHigh) \in Nat
<1> USE Bounds
<1>1. \A s \in Seqs : /\ start[s] \in Nat /\ current[s] \in Nat /\ InputLen[s] \in Nat
                      /\ PromptEnd(s) \in Nat
  BY DEF TypeOk, PromptEnd, Smaller
<1>2. \A s \in Seqs : PromptEnd(s) - Smaller(start[s], PromptEnd(s)) \in Nat
  BY <1>1 DEF Smaller
<1>3. \A s \in Seqs : (PromptEnd(s) - Smaller(start[s], PromptEnd(s))) * InputLen[s] \in Nat
  BY <1>1, <1>2
<1>4. NatOn(PromptLow, Seqs)
  BY <1>1, CausalNat DEF NatOn, PromptLow
<1>5. NatOn(PromptHigh, Seqs)
  BY <1>3 DEF NatOn, PromptHigh
<1> QED
  BY <1>4, <1>5, NatSum

\* What a chunk adds to both bounds.
LEMMA ChunkPairs ==
  ASSUME NEW a \in Nat, NEW c \in Nat, a <= c, NEW t \in Nat, NEW i \in Nat, c + t <= i
  PROVE  /\ CausalPairs(a, c + t, i) <= CausalPairs(a, c, i) + t * (c + t)
         /\ (c - a) * i + t * (c + t) <= ((c + t) - a) * i
<1>1. CausalPairs(a, c + t, i) = CausalPairs(a, c, i) + CausalPairs(c, c + t, i)
  BY CausalStep
<1>2. CausalPairs(c, c + t, i) <= t * Smaller(c + t, i)
  BY CausalAtMost
<1>3. Smaller(c + t, i) = c + t
  BY DEF Smaller
<1>4. CausalPairs(a, c, i) \in Nat /\ CausalPairs(c, c + t, i) \in Nat
  <2>1. c + t \in Nat
    OBVIOUS
  <2> QED
    BY <2>1, CausalNat
<1>5. ((c + t) - a) * i = (c - a) * i + t * i
  <2> DEFINE d == c - a
  <2>1. d \in Nat /\ (c + t) - a = d + t
    OBVIOUS
  <2> HIDE DEF d
  <2>2. (d + t) * i = d * i + t * i
    BY <2>1
  <2> QED
    BY <2>1, <2>2 DEF d
<1>6. t * (c + t) <= t * i
  BY MoreForMore
<1>7. (c - a) * i \in Nat /\ t * i \in Nat /\ t * (c + t) \in Nat
  <2>1. c - a \in Nat
    OBVIOUS
  <2> QED
    BY <2>1
<1> DEFINE x == t * (c + t)
           y == CausalPairs(c, c + t, i)
           z == CausalPairs(a, c, i)
           u == (c - a) * i
           v == t * i
<1>8. y <= x /\ x <= v /\ y \in Nat /\ x \in Nat /\ z \in Nat /\ u \in Nat /\ v \in Nat
  BY <1>2, <1>3, <1>4, <1>6, <1>7
<1> HIDE DEF x, y, z, u, v
<1>9. z + y <= z + x /\ u + x <= u + v
  BY <1>8
<1> QED
  BY <1>1, <1>5, <1>9 DEF x, y, z, u, v

LEMMA PromptEnds ==
  ASSUME Sound, EndPass
  PROVE  /\ SumFunction(PromptLow') <= SumFunction(PromptLow) + Pairs(Sums)
         /\ SumFunction(PromptHigh) + Pairs(Sums) <= SumFunction(PromptHigh')
         /\ SumFunction(PromptLow') \in Nat /\ SumFunction(PromptHigh') \in Nat
<1> USE Bounds DEF Sound
<1>1. NatOn(PromptLow, Seqs) /\ NatOn(PromptHigh, Seqs)
  BY PromptBounds
<1>2. NatOn(PromptLow', Seqs) /\ NatOn(PromptHigh', Seqs)
  <2>1. Sound'
    BY SoundEnd
  <2>2. \A s \in Seqs : /\ start'[s] \in Nat /\ current'[s] \in Nat /\ InputLen[s] \in Nat
                        /\ Smaller(current'[s], InputLen[s]) \in Nat
    BY <2>1 DEF TypeOk, Smaller
  <2>3. \A s \in Seqs : Smaller(current'[s], InputLen[s])
                         - Smaller(start'[s], Smaller(current'[s], InputLen[s])) \in Nat
    BY <2>2 DEF Smaller
  <2>4. \A s \in Seqs : (Smaller(current'[s], InputLen[s])
           - Smaller(start'[s], Smaller(current'[s], InputLen[s]))) * InputLen[s] \in Nat
    BY <2>2, <2>3
  <2>5. NatOn(PromptLow', Seqs)
    BY <2>2, CausalNat DEF NatOn, PromptLow, PromptEnd
  <2>6. NatOn(PromptHigh', Seqs)
    BY <2>4 DEF NatOn, PromptHigh, PromptEnd
  <2> QED
    BY <2>5, <2>6
<1>3. NatOn(PromptPairs, Seqs) /\ Pairs(Sums) = SumFunction(PromptPairs)
  BY PromptPairsSum
<1>4. \A s \in Seqs : /\ PromptLow'[s] <= PromptLow[s] + PromptPairs[s]
                      /\ PromptHigh[s] + PromptPairs[s] <= PromptHigh'[s]
  <2> SUFFICES ASSUME NEW s \in Seqs
               PROVE  /\ PromptLow'[s] <= PromptLow[s] + PromptPairs[s]
                      /\ PromptHigh[s] + PromptPairs[s] <= PromptHigh'[s]
    OBVIOUS
  <2> DEFINE a == start[s]
             c == current[s]
             t == tokens[s]
             i == InputLen[s]
  <2>1. /\ a \in Nat /\ c \in Nat /\ t \in Nat /\ i \in Nat /\ a <= c
        /\ c < i => c + t <= i
    BY DEF TypeOk, SeqOk, InSum
  <2>2. current'[s] = c + t /\ start'[s] = a
    BY DEF EndPass
  <2>3. /\ PromptLow[s] = CausalPairs(a, Smaller(c, i), i)
        /\ PromptLow'[s] = CausalPairs(a, Smaller(c + t, i), i)
        /\ PromptHigh[s] = (Smaller(c, i) - Smaller(a, Smaller(c, i))) * i
        /\ PromptHigh'[s] = (Smaller(c + t, i) - Smaller(a, Smaller(c + t, i))) * i
        /\ PromptPairs[s] = IF c < i THEN t * (c + t) ELSE 0
    BY <2>2 DEF PromptLow, PromptHigh, PromptPairs, PromptEnd, InSum
  <2> HIDE DEF a, c, t, i
  <2>4. CASE c < i
    <3>1. /\ Smaller(c, i) = c /\ Smaller(c + t, i) = c + t
          /\ Smaller(a, c) = a /\ Smaller(a, c + t) = a
      BY <2>1, <2>4 DEF Smaller
    <3>2. /\ CausalPairs(a, c + t, i) <= CausalPairs(a, c, i) + t * (c + t)
          /\ (c - a) * i + t * (c + t) <= ((c + t) - a) * i
      BY <2>1, <2>4, ChunkPairs
    <3>3. /\ PromptLow[s] = CausalPairs(a, c, i) /\ PromptLow'[s] = CausalPairs(a, c + t, i)
          /\ PromptHigh[s] = (c - a) * i /\ PromptHigh'[s] = ((c + t) - a) * i
          /\ PromptPairs[s] = t * (c + t)
      <4>1. PromptLow[s] = CausalPairs(a, c, i) /\ PromptLow'[s] = CausalPairs(a, c + t, i)
        BY <2>3, <3>1
      <4>2. PromptHigh[s] = (c - a) * i
        BY <2>3, <3>1
      <4>3. PromptHigh'[s] = ((c + t) - a) * i
        BY <2>3, <3>1
      <4>4. PromptPairs[s] = t * (c + t)
        BY <2>3, <2>4
      <4> QED
        BY <4>1, <4>2, <4>3, <4>4
    <3> QED
      BY <3>2, <3>3
  <2>5. CASE ~(c < i)
    <3>1. Smaller(c, i) = i /\ Smaller(c + t, i) = i
      BY <2>1, <2>5 DEF Smaller
    <3>2. PromptLow[s] \in Nat /\ PromptHigh[s] \in Nat
      BY <1>1 DEF NatOn
    <3> QED
      BY <2>3, <2>5, <3>1, <3>2
  <2> QED
    BY <2>4, <2>5
<1> DEFINE g == [s \in Seqs |-> PromptLow[s] + PromptPairs[s]]
           h == [s \in Seqs |-> PromptHigh[s] + PromptPairs[s]]
<1>5. NatOn(g, Seqs) /\ AddedOn(g, PromptLow, PromptPairs, Seqs) /\ DOMAIN g = Seqs
      /\ BelowOn(PromptLow', g, Seqs)
  BY <1>1, <1>3, <1>4 DEF NatOn, AddedOn, BelowOn
<1>6. NatOn(h, Seqs) /\ AddedOn(h, PromptHigh, PromptPairs, Seqs) /\ DOMAIN h = Seqs
      /\ BelowOn(h, PromptHigh', Seqs)
  BY <1>1, <1>3, <1>4 DEF NatOn, AddedOn, BelowOn
<1> HIDE DEF g, h
<1>7. /\ SumFunction(g) = SumFunction(PromptLow) + SumFunction(PromptPairs)
      /\ SumFunction(h) = SumFunction(PromptHigh) + SumFunction(PromptPairs)
  BY <1>1, <1>3, <1>5, <1>6, SumPlus
<1>8. SumFunction(PromptLow') <= SumFunction(g) /\ SumFunction(h) <= SumFunction(PromptHigh')
  BY <1>2, <1>5, <1>6, SumAtMost
<1> QED
  BY <1>2, <1>3, <1>7, <1>8, NatSum

LEMMA ChargedOnce ==
  ASSUME NEW k \in Nat, NEW x \in Nat, NEW d \in Nat, NEW p \in Nat
  PROVE  /\ k * (x + (d + 1) * p) = k * (x + d * p) + k * p
         /\ k * p \in Nat /\ k * (x + d * p) \in Nat
<1> DEFINE y == d * p
<1>1. y \in Nat /\ (d + 1) * p = y + p
  OBVIOUS
<1> HIDE DEF y
<1>2. k * (x + (y + p)) = k * (x + y) + k * p /\ k * (x + y) \in Nat /\ k * p \in Nat
  BY <1>1
<1> QED
  BY <1>1, <1>2 DEF y

\* The bounds at the end of a pass are those of its tokens.
LEMMA ChargedAll ==
  ASSUME NEW k \in Nat, NEW n \in Nat, NEW x \in Nat, NEW y \in Nat, NEW p \in Nat, NEW q \in Nat
  PROVE  /\ y <= x + p => k * (n * y + 0 * q) <= k * (n * x + n * p)
         /\ x + p <= y => k * (n * x + n * p) <= k * (n * y + 0 * q)
<1>1. 0 * q = 0
  OBVIOUS
<1>2. n * x + n * p = n * (x + p) /\ n * (x + p) \in Nat /\ n * y \in Nat
  OBVIOUS
<1>3. /\ y <= x + p => n * y <= n * (x + p)
      /\ x + p <= y => n * (x + p) <= n * y
  BY MoreForMore
<1> DEFINE u == n * y
           v == n * (x + p)
<1>4. u \in Nat /\ v \in Nat /\ (y <= x + p => u <= v) /\ (x + p <= y => v <= u)
  BY <1>2, <1>3
<1> HIDE DEF u, v
<1>5. /\ y <= x + p => k * u <= k * v
      /\ x + p <= y => k * v <= k * u
  BY <1>4, MoreForMore
<1>6. n * y + 0 * q = u /\ n * x + n * p = v
  BY <1>1, <1>2, <1>4 DEF u, v
<1> QED
  BY <1>5, <1>6

LEMMA PromptRateNatural == ASSUME TypeOk PROVE PromptRate(net.kind) \in Nat
BY PerPairIs DEF TypeOk

LEMMA PairsNatural == TypeOk => Pairs(Sums) \in Nat /\ Pairs(Gens) \in Nat /\ Rows \in Nat
BY Batches, SumParts DEF Rows

LEMMA PromptInit == Init => PromptSoFar
<1> SUFFICES ASSUME Init PROVE PromptSoFar
  OBVIOUS
<1> USE Bounds
<1>1. Sound
  BY SoundInit
<1> USE <1>1 DEF Sound
<1>2. pc = 0 /\ work.sum = 0 /\ current = start
  BY DEF Init
<1>3. SumDone = 0
  BY <1>2 DEF SumDone, Done
<1>4. SumFunction(PromptLow) = 0
  <2>1. \A s \in Seqs : PromptLow[s] = 0
    <3> SUFFICES ASSUME NEW s \in Seqs PROVE PromptLow[s] = 0
      OBVIOUS
    <3>1. start[s] \in Nat /\ InputLen[s] \in Nat /\ PromptEnd(s) \in Nat /\ PromptEnd(s) <= start[s]
      BY <1>2 DEF TypeOk, PromptEnd, Smaller
    <3> QED
      BY <3>1, CausalNat DEF PromptLow
  <2>2. Seqs = DOMAIN PromptLow
    BY DEF PromptLow
  <2>3. SumFunction(PromptLow) = 0 * Cardinality(Seqs)
    BY <2>1, <2>2, SumOfConstant
  <2>4. Cardinality(Seqs) \in Nat
    BY FS_CardinalityType
  <2> QED
    BY <2>3, <2>4
<1> DEFINE k == PromptRate(net.kind)
           h == SumFunction(PromptHigh)
           p == Pairs(Sums)
<1>5. k \in Nat /\ h \in Nat /\ p \in Nat
  BY PromptRateNatural, PromptBounds, PromptPairsSum
<1> HIDE DEF k, h, p
<1>6. k * (NumLayers * 0 + 0 * p) = 0 /\ k * (NumLayers * h + 0 * p) \in Nat
  <2>1. NumLayers * 0 = 0 /\ 0 * p = 0 /\ NumLayers * h \in Nat
    BY <1>5
  <2> QED
    BY <1>5, <2>1
<1> QED
  BY <1>2, <1>3, <1>4, <1>6 DEF PromptSoFar, k, h, p

LEMMA PromptBetween ==
  ASSUME Sound, PromptSoFar, StartPass \/ DecodeKVWrite
  PROVE  PromptSoFar'
<1> USE DEF Sound
<1>1. pc <= 0 /\ UNCHANGED <<net, start, reused, current, work>>
  BY DEF StartPass, DecodeKVWrite
<1>2. net \in Nets /\ SumPlace(net.kind) \in 3 .. 12
  BY Layout DEF TypeOk
<1>3. SumDone = 0
  BY <1>1, Bounds DEF SumDone, Done
<1>4. SumDone' = 0
  <2>1. pc' = -1 \/ (pc' = 1 /\ layer' = 0)
    BY DEF StartPass, DecodeKVWrite, Places
  <2> QED
    BY <1>1, <1>2, <2>1, Bounds DEF SumDone, Done
<1>5. PromptLow' = PromptLow /\ PromptHigh' = PromptHigh /\ ChunksFit' = ChunksFit
  BY <1>1 DEF PromptLow, PromptHigh, PromptEnd, ChunksFit
<1>6. TypeOk'
  BY SoundStart, SoundWrite
<1>7. Pairs(Sums) \in Nat /\ Pairs(Sums)' \in Nat
  <2>1. (Pairs(Sums) \in Nat)'
    BY <1>6, PairsNatural, PTL
  <2> QED
    BY <2>1, PromptPairsSum
<1>8. 0 * Pairs(Sums) = 0 /\ 0 * Pairs(Sums)' = 0
  BY <1>7
<1> QED
  BY <1>1, <1>3, <1>4, <1>5, <1>8 DEF PromptSoFar

LEMMA LessInProducts ==
  ASSUME NEW h \in Nat, NEW a \in Nat, NEW b \in Nat, NEW x \in Nat, NEW y \in Nat,
         a <= b, x <= y
  PROVE  a * h * x <= b * h * y
<1> DEFINE u == a * h
           v == b * h
<1>1. u \in Nat /\ v \in Nat /\ h * a <= h * b /\ u = h * a /\ v = h * b
  BY MoreForMore
<1> HIDE DEF u, v
<1>2. u * x <= u * y
  BY <1>1, MoreForMore
<1>3. y * u <= y * v /\ y * u = u * y /\ y * v = v * y
  BY <1>1, MoreForMore
<1>4. u * x \in Nat /\ u * y \in Nat /\ v * y \in Nat
  BY <1>1
<1> DEFINE p == u * x
           q == u * y
           r == v * y
<1>5. p <= q /\ q <= r /\ p \in Nat /\ q \in Nat /\ r \in Nat
  BY <1>2, <1>3, <1>4
<1> HIDE DEF p, q, r
<1>6. p <= r
  BY <1>5
<1> QED
  BY <1>6 DEF p, r, u, v

\* If what the budget allows is in range, so is what a pass has.
LEMMA BudgetInRange ==
  ASSUME Sound, ChunksFit, net.kind = "MHA", net.procs # <<"GPU">>
  PROVE  ProductsFit
<1> SUFFICES ASSUME NEW s \in DOMAIN Sums PROVE ChunkProduct(Sums[s]) < IntRange
  BY DEF ProductsFit
<1> USE DEF Sound
<1>1. /\ s \in Seqs /\ InSum(s)
      /\ Sums[s] = [m |-> tokens[s], n |-> current[s] + tokens[s]]
  BY Batches DEF Present
<1> DEFINE M == Smaller(MaxProcessToken, InputLen[s] - start[s])
           L == InputLen[s]
           m == tokens[s]
           n == current[s] + tokens[s]
<1>2. /\ m \in Nat /\ n \in Nat /\ L \in Nat /\ M \in Nat /\ m <= M /\ n <= L
      /\ start[s] < L
  BY <1>1, Bounds DEF TypeOk, SeqOk, InSum, Smaller
<1>3. M * HeadDim * L < IntRange
  BY <1>1, <1>2 DEF ChunksFit, ChunkProduct
<1>4. ChunkProduct(Sums[s]) = m * HeadDim * n
  BY <1>1 DEF ChunkProduct
<1> HIDE DEF M, L, m, n
<1>5. HeadDim \in Nat /\ IntRange \in Nat
  BY Dims, IntRangeAssumption
<1>6. m * HeadDim * n <= M * HeadDim * L
  BY <1>2, <1>5, LessInProducts
<1>7. m * HeadDim * n \in Nat /\ M * HeadDim * L \in Nat
  BY <1>2, <1>5
<1> QED
  BY <1>3, <1>4, <1>5, <1>6, <1>7

LEMMA PromptRun ==
  ASSUME Sound, PromptSoFar, AddTime \/ Execution
  PROVE  PromptSoFar'
<1> USE DEF Sound
<1> SUFFICES ASSUME ~(net.kind = "MLA" /\ net.flashAttention), ChunksFit, net' = net
             PROVE  PromptSoFar'
  BY RunSteps DEF PromptSoFar, ChunksFit
<1>1. UNCHANGED <<start, reused, current, tokens>> /\ InPass /\ NextModule
  BY RunSteps
<1> DEFINE k == PromptRate(net.kind)
           N == NumLayers
           l == SumFunction(PromptLow)
           h == SumFunction(PromptHigh)
           p == Pairs(Sums)
           d == SumDone
           e == SumDone'
           w == work.sum
           v == work'.sum
<1>2. PromptLow' = PromptLow /\ PromptHigh' = PromptHigh /\ Sums' = Sums
  BY <1>1, BatchSame DEF PromptLow, PromptHigh, PromptEnd
<1>3. Pairs(Sums)' = p
  BY <1>2 DEF Pairs, Total
<1>4. /\ k \in Nat /\ N \in Nat /\ l \in Nat /\ h \in Nat /\ p \in Nat
  BY Bounds, PromptRateNatural, PromptBounds, PromptPairsSum
<1>5. SumPlace(net.kind) \in 1 .. Len(Decoder) - 1 /\ SumPlace(net.kind) \in Nat
  BY Layout DEF TypeOk
<1>6. /\ d \in Nat
      /\ e = d + (IF layer < NumLayers /\ pc = SumPlace(net.kind) THEN 1 ELSE 0)
  <2>1. Done(SumPlace(net.kind)) \in Nat
    BY <1>5, DoneBefore
  <2>2. Done(SumPlace(net.kind))' =
          Done(SumPlace(net.kind)) + (IF layer < NumLayers /\ pc = SumPlace(net.kind) THEN 1 ELSE 0)
    <3> DEFINE q == SumPlace(net.kind)
    <3>1. SumPlace(net'.kind) = q
      OBVIOUS
    <3>2. \A r \in 1 .. Len(Decoder) - 1 :
            (IF pc' <= 0 THEN 0
             ELSE IF layer' >= NumLayers THEN NumLayers
             ELSE layer' + IF pc' > r THEN 1 ELSE 0)
              = Done(r) + (IF layer < NumLayers /\ pc = r THEN 1 ELSE 0)
      BY <1>1, NextPlace DEF Done
    <3> QED
      BY <1>5, <3>2 DEF Done
  <2> QED
    BY <2>1, <2>2 DEF SumDone
<1>7. w \in Nat /\ k * (N * l + d * p) <= w /\ w <= k * (N * h + d * p)
  BY DEF PromptSoFar
<1>8. SUFFICES v \in Nat /\ k * (N * l + e * p) <= v /\ v <= k * (N * h + e * p)
  BY <1>2, <1>3 DEF PromptSoFar
<1>9. DOMAIN work = {"sum", "gen"}
  BY DEF TypeOk
<1>10. CASE layer < NumLayers /\ pc = SumPlace(net.kind)
  <2>1. PICK q \in Processors :
          /\ net.procs = <<"GPU">> => q = "GPU"
          /\ work' = [work EXCEPT !.sum = @ + ExecuteOn(q, "attention_sum").flops]
    BY <1>5, <1>10, RunSteps
  <2>2. v = w + k * p
    <3>1. net.kind = "MHA" /\ q # "GPU" => ProductsFit
      BY <2>1, BudgetInRange
    <3> QED
      BY <1>9, <2>1, <3>1, ExecuteSum
  <2>3. e = d + 1
    BY <1>6, <1>10
  <2>4. N * l \in Nat /\ N * h \in Nat
    BY <1>4
  <2> HIDE DEF k, N, l, h, p, d, e, w, v
  <2> DEFINE a == N * l
             b == N * h
  <2>5. a \in Nat /\ b \in Nat /\ k * (a + d * p) <= w /\ w <= k * (b + d * p)
    BY <1>7, <2>4
  <2> HIDE DEF a, b
  <2>6. /\ k * (a + (d + 1) * p) = k * (a + d * p) + k * p
        /\ k * (b + (d + 1) * p) = k * (b + d * p) + k * p
        /\ k * p \in Nat /\ k * (a + d * p) \in Nat /\ k * (b + d * p) \in Nat
    BY <1>4, <1>6, <2>5, ChargedOnce
  <2>7. v \in Nat /\ k * (a + (d + 1) * p) <= v /\ v <= k * (b + (d + 1) * p)
    <3> DEFINE x == k * (a + d * p)
               y == k * (b + d * p)
               z == k * p
    <3>1. x \in Nat /\ y \in Nat /\ z \in Nat /\ x <= w /\ w <= y /\ v = w + z /\ w \in Nat
          /\ k * (a + (d + 1) * p) = x + z /\ k * (b + (d + 1) * p) = y + z
      BY <1>7, <2>2, <2>5, <2>6
    <3> HIDE DEF x, y, z
    <3> QED
      BY <3>1
  <2> QED
    BY <2>3, <2>7 DEF a, b
<1>11. CASE ~(layer < NumLayers /\ pc = SumPlace(net.kind))
  <2>1. e = d
    BY <1>6, <1>11
  <2>2. v = w
    BY <1>9, <1>11, RunSteps
  <2> HIDE DEF k, N, l, h, p, d, e, w, v
  <2> QED
    BY <1>7, <2>1, <2>2
<1> QED
  BY <1>10, <1>11

LEMMA PromptLast ==
  ASSUME Sound, PromptSoFar, EndPass
  PROVE  PromptSoFar'
<1> USE DEF Sound
<1> SUFFICES ASSUME ~(net.kind = "MLA" /\ net.flashAttention), ChunksFit
             PROVE  PromptSoFar'
  BY DEF PromptSoFar, ChunksFit, EndPass
<1> DEFINE k == PromptRate(net.kind)
           N == NumLayers
           l == SumFunction(PromptLow)
           h == SumFunction(PromptHigh)
           p == Pairs(Sums)
           y == SumFunction(PromptLow')
           z == SumFunction(PromptHigh')
           q == Pairs(Sums)'
           w == work.sum
<1>1. net' = net /\ work' = work /\ pc' = 0 /\ pc > 0 /\ layer > NumLayers
  BY DEF EndPass
<1>2. /\ k \in Nat /\ N \in Nat /\ l \in Nat /\ h \in Nat /\ p \in Nat
  BY Bounds, PromptRateNatural, PromptBounds, PromptPairsSum
<1>3. q \in Nat
  <2>1. TypeOk'
    BY SoundEnd
  <2>2. (Pairs(Sums) \in Nat)'
    BY <2>1, PairsNatural, PTL
  <2> QED
    BY <2>2
<1>4. y <= l + p /\ h + p <= z /\ y \in Nat /\ z \in Nat
  BY PromptEnds
<1>5. SumDone = N /\ SumDone' = 0
  BY <1>1, Bounds DEF SumDone, Done, TypeOk
<1>6. w \in Nat /\ k * (N * l + N * p) <= w /\ w <= k * (N * h + N * p)
  BY <1>5 DEF PromptSoFar
<1>7. SUFFICES k * (N * y + 0 * q) <= w /\ w <= k * (N * z + 0 * q)
  BY <1>1, <1>5, <1>6 DEF PromptSoFar
<1> HIDE DEF k, N, l, h, p, y, z, q, w
<1>8. k * (N * y + 0 * q) <= k * (N * l + N * p) /\ k * (N * h + N * p) <= k * (N * z + 0 * q)
  BY <1>2, <1>3, <1>4, ChargedAll
<1>9. /\ k * (N * y + 0 * q) \in Nat /\ k * (N * l + N * p) \in Nat
      /\ k * (N * h + N * p) \in Nat /\ k * (N * z + 0 * q) \in Nat
  <2>1. N * y \in Nat /\ 0 * q = 0 /\ N * l \in Nat /\ N * p \in Nat /\ N * h \in Nat /\ N * z \in Nat
    BY <1>2, <1>3, <1>4
  <2> QED
    BY <1>2, <2>1
<1> DEFINE a == k * (N * y + 0 * q)
           b == k * (N * l + N * p)
           c == k * (N * h + N * p)
           f == k * (N * z + 0 * q)
<1>10. a <= b /\ c <= f /\ b <= w /\ w <= c /\ a \in Nat /\ b \in Nat /\ c \in Nat /\ f \in Nat
       /\ w \in Nat
  BY <1>6, <1>8, <1>9
<1> HIDE DEF a, b, c, f
<1> QED
  <2>1. a <= w /\ w <= f
    BY <1>10
  <2> QED
    BY <2>1 DEF a, f

-----------------------------------------------------------------------------
(* The work of the outputs *)

LEMMA AllKeysCover ==
  /\ AllKeys \in Nat
  /\ \A s \in Seqs : TotalLen(s) <= AllKeys
<1> USE Bounds
<1> DEFINE f == [s \in Seqs |-> TotalLen(s)]
<1>1. AllKeys = SumFunction(f)
  BY DEF AllKeys, OverSeqs
<1>2. NatOn(f, Seqs)
  BY DEF NatOn
<1>3. \A s \in Seqs : f[s] = TotalLen(s)
  OBVIOUS
<1> HIDE DEF f
<1>4. AllKeys \in Nat
  BY <1>1, <1>2, NatSum
<1>5. ASSUME NEW s \in Seqs PROVE f[s] <= AllKeys
  <2> DEFINE B == Seqs \ {s}
             h == [x \in B |-> f[x]]
  <2>1. DOMAIN h = B /\ SameOn(h, f, B)
    BY DEF SameOn
  <2>2. NatOn(h, B)
    BY <1>2, FS_Subset DEF NatOn
  <2>3. B = Seqs \ {s}
    OBVIOUS
  <2> HIDE DEF B, h
  <2>4. SumFunction(f) = f[s] + SumFunction(h)
    BY <1>2, <2>1, <2>3, SumOfOne
  <2>5. SumFunction(h) \in Nat /\ f[s] \in Nat
    BY <1>2, <2>2, NatSum DEF NatOn
  <2> QED
    BY <1>1, <2>4, <2>5
<1> QED
  BY <1>3, <1>4, <1>5

LEMMA WindowNat ==
  ASSUME NEW l
  PROVE  WindowOf(l) \in Nat
BY Bounds, AllKeysCover DEF WindowOf

LEMMA DecodePairsNat ==
  ASSUME TypeOk, NEW w \in Nat
  PROVE  NatOn(DecodePairs(w), Seqs) /\ SumFunction(DecodePairs(w)) \in Nat
<1>1. \A s \in Seqs : FirstDecoded(s) \in Nat /\ current[s] \in Nat
  BY Bounds DEF TypeOk, FirstDecoded, Larger
<1>2. NatOn(DecodePairs(w), Seqs)
  BY <1>1, Bounds, CausalNat DEF NatOn, DecodePairs
<1> QED
  BY <1>2, NatSum

\* The keys a layer lets an output token see.
KeysOf(l, n) == IF net.kind = "MHA" THEN EffectiveKvLen(l, n) ELSE n

OutputPairs(l) ==
  [s \in Seqs |-> IF InSum(s) THEN 0 ELSE tokens[s] * KeysOf(l, current[s] + tokens[s])]
AllPairs ==
  [s \in Seqs |-> IF InSum(s) THEN 0 ELSE tokens[s] * (current[s] + tokens[s])]

\* The pairs of a pass, output by output, for keys counted by K.
LEMMA OutputsSum ==
  ASSUME TypeOk, \A s \in Seqs : SeqOk(s), NEW b, BatchOk(b), DOMAIN b = DOMAIN Gens,
         \A s \in DOMAIN Gens : b[s].m = tokens[s],
         NEW h, DOMAIN h = Seqs,
         \A s \in Seqs : h[s] = IF InSum(s) THEN 0
                                ELSE IF s \in DOMAIN b THEN tokens[s] * b[s].n ELSE 0
  PROVE  NatOn(h, Seqs) /\ Pairs(b) = SumFunction(h)
<1> DEFINE f == [s \in DOMAIN b |-> b[s].m * b[s].n]
<1>1. NatOn(f, DOMAIN b) /\ Pairs(b) = SumFunction(f)
  BY SumParts
<1>2. DOMAIN b \in SUBSET Seqs /\ IsFiniteSet(Seqs) /\ \A s \in DOMAIN b : ~InSum(s)
  BY Bounds, Batches DEF Present
<1>3. PaddedOn(h, f, DOMAIN b, Seqs)
  BY <1>2 DEF PaddedOn
<1> HIDE DEF f
<1> QED
  BY <1>1, <1>2, <1>3, SumOfPart

LEMMA OutputPairsSum ==
  ASSUME TypeOk, \A s \in Seqs : SeqOk(s), NEW l \in Nat
  PROVE  /\ NatOn(OutputPairs(l), Seqs) /\ LeastPairs(l) = SumFunction(OutputPairs(l))
         /\ NatOn(AllPairs, Seqs) /\ Pairs(Gens) = SumFunction(AllPairs)
<1> USE Bounds
<1>1. BatchOk(Gens) /\ \A s \in DOMAIN Gens : Gens[s].m = tokens[s] /\ Gens[s].n = current[s] + tokens[s]
  BY Batches
<1>2. \A s \in Seqs : s \notin DOMAIN Gens /\ ~InSum(s) => tokens[s] = 0
  <2> SUFFICES ASSUME NEW s \in Seqs, s \notin DOMAIN Gens, ~InSum(s) PROVE tokens[s] = 0
    OBVIOUS
  <2>1. ~(current[s] < TotalLen(s))
    BY Batches DEF Present
  <2>2. current[s] \in Nat /\ tokens[s] \in Nat /\ current[s] + tokens[s] <= TotalLen(s)
    BY DEF TypeOk, SeqOk
  <2> QED
    BY <2>1, <2>2
<1>3. \A s \in Seqs : /\ current[s] + tokens[s] \in Nat
                      /\ KeysOf(l, current[s] + tokens[s]) \in Nat
  BY DEF TypeOk, KeysOf, EffectiveKvLen, Smaller
<1>4. DOMAIN AllPairs = Seqs /\ DOMAIN OutputPairs(l) = Seqs
  BY DEF AllPairs, OutputPairs
<1>5. \A s \in Seqs : AllPairs[s] = IF InSum(s) THEN 0
                                    ELSE IF s \in DOMAIN Gens THEN tokens[s] * Gens[s].n ELSE 0
  BY <1>1, <1>2, <1>3 DEF AllPairs
<1>6. NatOn(AllPairs, Seqs) /\ Pairs(Gens) = SumFunction(AllPairs)
  BY <1>1, <1>4, <1>5, OutputsSum
<1>7. CASE net.kind = "MHA"
  <2> DEFINE c == Clamped(l, Gens)
  <2>1. /\ BatchOk(c) /\ DOMAIN c = DOMAIN Gens
        /\ \A s \in DOMAIN Gens : c[s].m = tokens[s]
                                  /\ c[s].n = EffectiveKvLen(l, current[s] + tokens[s])
    BY <1>1, ClampedIs
  <2>2. LeastPairs(l) = Pairs(c)
    BY <1>7 DEF LeastPairs
  <2> HIDE DEF c
  <2>3. \A s \in Seqs : OutputPairs(l)[s] =
                          IF InSum(s) THEN 0
                          ELSE IF s \in DOMAIN c THEN tokens[s] * c[s].n ELSE 0
    BY <1>2, <1>3, <1>7, <2>1 DEF OutputPairs, KeysOf
  <2>4. NatOn(OutputPairs(l), Seqs) /\ Pairs(c) = SumFunction(OutputPairs(l))
    BY <1>4, <2>1, <2>3, OutputsSum
  <2> QED
    BY <1>6, <2>2, <2>4
<1>8. CASE net.kind # "MHA"
  <2>1. OutputPairs(l) = AllPairs
    BY <1>8 DEF OutputPairs, AllPairs, KeysOf
  <2> QED
    BY <1>6, <1>8, <2>1 DEF LeastPairs
<1> QED
  BY <1>7, <1>8

\* What a token adds to both bounds.
LEMMA TokenPairs ==
  ASSUME NEW a \in Nat, NEW c \in Nat, NEW t \in {0, 1}, NEW w \in Nat, a <= c
  PROVE  CausalPairs(a, c + t, w) = CausalPairs(a, c, w) + t * Smaller(c + t, w)
<1>1. CausalPairs(a, c, w) \in Nat
  BY CausalNat
<1>2. Smaller(c + t, w) \in Nat
  BY DEF Smaller
<1>3. CASE t = 0
  <2>1. c + t = c /\ t * Smaller(c + t, w) = 0
    BY <1>2, <1>3
  <2> QED
    BY <1>1, <2>1
<1>4. CASE t = 1
  <2>1. CausalPairs(a, c + 1, w) = CausalPairs(a, c, w) + CausalPairs(c, c + 1, w)
    BY CausalStep
  <2>2. CausalPairs(c, c + 1, w) = Smaller(c + 1, w)
    BY CausalOne
  <2>3. t * Smaller(c + t, w) = Smaller(c + 1, w)
    BY <1>2, <1>4
  <2> QED
    BY <1>4, <2>1, <2>2, <2>3
<1> QED
  BY <1>3, <1>4

LEMMA OutputEnds ==
  ASSUME Sound, EndPass, NEW l \in Nat
  PROVE  /\ SumFunction(DecodePairs(WindowOf(l))') <= SumFunction(DecodePairs(WindowOf(l))) + LeastPairs(l)
         /\ SumFunction(DecodePairs(AllKeys)) + Pairs(Gens) <= SumFunction(DecodePairs(AllKeys)')
         /\ SumFunction(DecodePairs(WindowOf(l))') \in Nat
         /\ SumFunction(DecodePairs(AllKeys)') \in Nat
<1> USE Bounds DEF Sound
<1> DEFINE W == WindowOf(l)
           P == DecodePairs(W)
           Q == DecodePairs(AllKeys)
<1>1. W \in Nat /\ W' = W /\ AllKeys \in Nat /\ AllKeys' = AllKeys
  BY WindowNat, AllKeysCover DEF WindowOf, EndPass, AllKeys, OverSeqs, TotalLen
<1>2. /\ NatOn(P, Seqs) /\ NatOn(Q, Seqs)
      /\ NatOn(OutputPairs(l), Seqs) /\ LeastPairs(l) = SumFunction(OutputPairs(l))
      /\ NatOn(AllPairs, Seqs) /\ Pairs(Gens) = SumFunction(AllPairs)
  BY <1>1, DecodePairsNat, OutputPairsSum
<1>3. /\ P' = [s \in Seqs |-> CausalPairs(FirstDecoded(s), current[s] + tokens[s], W)]
      /\ Q' = [s \in Seqs |-> CausalPairs(FirstDecoded(s), current[s] + tokens[s], AllKeys)]
  <2>1. \A s \in Seqs : current'[s] = current[s] + tokens[s] /\ start' = start
    BY DEF EndPass
  <2> HIDE DEF W
  <2> QED
    BY <1>1, <2>1 DEF DecodePairs, FirstDecoded
<1>4. ASSUME NEW s \in Seqs
      PROVE  /\ P'[s] <= P[s] + OutputPairs(l)[s] /\ Q[s] + AllPairs[s] <= Q'[s]
             /\ P'[s] \in Nat /\ Q'[s] \in Nat
  <2> DEFINE a == FirstDecoded(s)
             c == current[s]
             t == tokens[s]
  <2>1. /\ c \in Nat /\ t \in Nat /\ c + t \in Nat /\ a \in Nat /\ c + t <= TotalLen(s)
        /\ InSum(s) => c + t <= a
        /\ ~InSum(s) => t \in {0, 1} /\ a <= c
    BY DEF TypeOk, SeqOk, InSum, FirstDecoded, Larger
  <2>2. c + t <= AllKeys
    <3>1. TotalLen(s) <= AllKeys /\ TotalLen(s) \in Nat
      BY AllKeysCover
    <3> QED
      BY <1>1, <2>1, <3>1
  <2>3. Smaller(c + t, AllKeys) = c + t /\ Smaller(c + t, W) = KeysOf(l, c + t)
    <3>1. Smaller(c + t, AllKeys) = c + t
      BY <2>2 DEF Smaller
    <3> QED
      BY <3>1 DEF WindowOf, KeysOf, EffectiveKvLen
  <2>4. /\ P[s] = CausalPairs(a, c, W) /\ P'[s] = CausalPairs(a, c + t, W)
        /\ Q[s] = CausalPairs(a, c, AllKeys) /\ Q'[s] = CausalPairs(a, c + t, AllKeys)
    BY <1>3 DEF DecodePairs
  <2>5. /\ OutputPairs(l)[s] = IF InSum(s) THEN 0 ELSE t * KeysOf(l, c + t)
        /\ AllPairs[s] = IF InSum(s) THEN 0 ELSE t * (c + t)
    BY DEF OutputPairs, AllPairs
  <2>6. P[s] \in Nat /\ Q[s] \in Nat /\ OutputPairs(l)[s] \in Nat /\ AllPairs[s] \in Nat
    BY <1>2 DEF NatOn
  <2> HIDE DEF a, c, t, P, Q, W
  <2>7. CASE InSum(s)
    <3>1. \A w \in Nat, n \in Nat : n <= a => CausalPairs(a, n, w) = 0
      BY <2>1, CausalNat
    <3>2. c + t <= a /\ c <= a
      BY <2>1, <2>7
    <3>3. P'[s] = 0 /\ P[s] = 0 /\ Q[s] = 0 /\ Q'[s] = 0
      BY <1>1, <2>1, <2>4, <3>1, <3>2
    <3> QED
      BY <2>5, <2>7, <3>3
  <2>8. CASE ~InSum(s)
    <3>1. t \in {0, 1} /\ a <= c
      BY <2>1, <2>8
    <3>2. /\ CausalPairs(a, c + t, W) = CausalPairs(a, c, W) + t * Smaller(c + t, W)
          /\ CausalPairs(a, c + t, AllKeys) = CausalPairs(a, c, AllKeys) + t * Smaller(c + t, AllKeys)
      <4>1. \A w \in Nat : CausalPairs(a, c + t, w) = CausalPairs(a, c, w) + t * Smaller(c + t, w)
        BY <2>1, <3>1, TokenPairs
      <4> QED
        BY <1>1, <4>1
    <3>3. P'[s] = P[s] + OutputPairs(l)[s] /\ Q'[s] = Q[s] + AllPairs[s]
      BY <2>3, <2>4, <2>5, <2>8, <3>2
    <3> QED
      BY <2>6, <3>3
  <2> QED
    BY <2>7, <2>8
<1>5. NatOn(P', Seqs) /\ NatOn(Q', Seqs)
  BY <1>3, <1>4 DEF NatOn
<1> DEFINE g == [s \in Seqs |-> P[s] + OutputPairs(l)[s]]
           h == [s \in Seqs |-> Q[s] + AllPairs[s]]
<1> HIDE DEF P, Q, W
<1>6. NatOn(g, Seqs) /\ AddedOn(g, P, OutputPairs(l), Seqs) /\ DOMAIN g = Seqs
      /\ BelowOn(P', g, Seqs)
  BY <1>2, <1>4 DEF NatOn, AddedOn, BelowOn
<1>7. NatOn(h, Seqs) /\ AddedOn(h, Q, AllPairs, Seqs) /\ DOMAIN h = Seqs
      /\ BelowOn(h, Q', Seqs)
  BY <1>2, <1>4 DEF NatOn, AddedOn, BelowOn
<1> HIDE DEF g, h
<1>8. SumFunction(g) = SumFunction(P) + LeastPairs(l) /\ SumFunction(h) = SumFunction(Q) + Pairs(Gens)
  BY <1>2, <1>6, <1>7, SumPlus
<1>9. SumFunction(P') <= SumFunction(g) /\ SumFunction(h) <= SumFunction(Q')
  BY <1>5, <1>6, <1>7, SumAtMost
<1> QED
  BY <1>5, <1>8, <1>9, NatSum DEF P, Q, W

LEMMA DecodeBounds ==
  ASSUME TypeOk
  PROVE  /\ NatOn(DecodeLow, Layers) /\ SumFunction(DecodeLow) \in Nat
         /\ SumFunction(DecodePairs(AllKeys)) \in Nat /\ Pairs(Gens) \in Nat
<1>1. \A l \in Layers : LeastPairs(l) \in Nat
  BY LeastPairsAre, Bounds DEF Layers
<1>2. \A l \in Layers : SumFunction(DecodePairs(WindowOf(l))) \in Nat
  BY DecodePairsNat, WindowNat
<1>3. NatOn(DecodeLow, Layers)
  BY <1>1, <1>2, Bounds DEF NatOn, DecodeLow
<1>4. SumFunction(DecodePairs(AllKeys)) \in Nat
  BY DecodePairsNat, AllKeysCover
<1> QED
  BY <1>3, <1>4, NatSum, PairsNatural

LEMMA DecodeInit == Init => DecodeSoFar
<1> SUFFICES ASSUME Init PROVE DecodeSoFar
  OBVIOUS
<1> USE Bounds
<1>1. Sound
  BY SoundInit
<1> USE <1>1 DEF Sound
<1>2. pc = 0 /\ work.gen = 0 /\ current = start
  BY DEF Init
<1>3. GenDone = 0
  BY <1>2 DEF GenDone, Done
<1>4. \A w \in Nat : SumFunction(DecodePairs(w)) = 0
  <2> SUFFICES ASSUME NEW w \in Nat PROVE SumFunction(DecodePairs(w)) = 0
    OBVIOUS
  <2>1. \A s \in Seqs : DecodePairs(w)[s] = 0
    <3> SUFFICES ASSUME NEW s \in Seqs PROVE DecodePairs(w)[s] = 0
      OBVIOUS
    <3>1. FirstDecoded(s) \in Nat /\ current[s] \in Nat /\ current[s] <= FirstDecoded(s)
      BY <1>2 DEF TypeOk, FirstDecoded, Larger
    <3> QED
      BY <3>1, CausalNat DEF DecodePairs
  <2>2. Seqs = DOMAIN DecodePairs(w)
    BY DEF DecodePairs
  <2>3. SumFunction(DecodePairs(w)) = 0 * Cardinality(Seqs)
    BY <2>1, <2>2, SumOfConstant
  <2>4. Cardinality(Seqs) \in Nat
    BY FS_CardinalityType
  <2> QED
    BY <2>3, <2>4
<1>5. SumFunction(DecodeLow) = 0
  <2>1. \A l \in Layers : DecodeLow[l] = 0
    <3> SUFFICES ASSUME NEW l \in Layers PROVE DecodeLow[l] = 0
      OBVIOUS
    <3>1. SumFunction(DecodePairs(WindowOf(l))) = 0
      BY <1>4, WindowNat
    <3>2. ~(l < GenDone)
      BY <1>3 DEF Layers
    <3> QED
      BY <3>1, <3>2 DEF DecodeLow
  <2>2. Layers = DOMAIN DecodeLow
    BY DEF DecodeLow
  <2>3. SumFunction(DecodeLow) = 0 * Cardinality(Layers)
    BY <2>1, <2>2, SumOfConstant
  <2>4. Cardinality(Layers) \in Nat
    BY FS_CardinalityType
  <2> QED
    BY <2>3, <2>4
<1> DEFINE k == DecodeRate(net.kind, net.flashMla)
           h == SumFunction(DecodePairs(AllKeys))
           p == Pairs(Gens)
<1>6. k \in Nat /\ h \in Nat /\ p \in Nat
  BY PerPairIs, DecodeBounds DEF TypeOk
<1> HIDE DEF k, h, p
<1>7. k * 0 = 0 /\ k * (NumLayers * h + 0 * p) \in Nat
  <2>1. 0 * p = 0 /\ NumLayers * h \in Nat
    BY <1>6
  <2> QED
    BY <1>6, <2>1
<1> QED
  BY <1>2, <1>3, <1>5, <1>7 DEF DecodeSoFar, k, h, p

LEMMA DecodeBetween ==
  ASSUME Sound, DecodeSoFar, StartPass \/ DecodeKVWrite
  PROVE  DecodeSoFar'
<1> USE DEF Sound
<1>1. pc <= 0 /\ UNCHANGED <<net, start, reused, current, work>>
  BY DEF StartPass, DecodeKVWrite
<1>2. net \in Nets /\ SumPlace(net.kind) \in 3 .. 12
  BY Layout DEF TypeOk
<1>3. GenDone = 0
  BY <1>1, Bounds DEF GenDone, Done
<1>4. GenDone' = 0
  <2>1. pc' = -1 \/ (pc' = 1 /\ layer' = 0)
    BY DEF StartPass, DecodeKVWrite, Places
  <2> QED
    BY <1>1, <1>2, <2>1, Bounds DEF GenDone, Done
<1>5. /\ DecodePairs(AllKeys)' = DecodePairs(AllKeys)
      /\ \A l \in Layers : DecodePairs(WindowOf(l))' = DecodePairs(WindowOf(l))
  BY <1>1 DEF DecodePairs, WindowOf, FirstDecoded, AllKeys, OverSeqs, TotalLen
<1>6. DecodeLow' = DecodeLow
  <2>1. \A l \in Layers : ~(l < 0)
    BY DEF Layers
  <2> QED
    BY <1>3, <1>4, <1>5, <2>1 DEF DecodeLow
<1>7. TypeOk'
  BY SoundStart, SoundWrite
<1>8. (Pairs(Gens) \in Nat)'
  BY <1>7, PairsNatural, PTL
<1>9. 0 * Pairs(Gens) = 0 /\ 0 * Pairs(Gens)' = 0
  BY <1>8, PairsNatural
<1> QED
  BY <1>1, <1>3, <1>4, <1>5, <1>6, <1>9 DEF DecodeSoFar

\* One more layer is done.
LEMMA LayerDone ==
  ASSUME Sound, AddTime \/ Execution, layer < NumLayers, pc = SumPlace(net.kind) + 1
  PROVE  SumFunction(DecodeLow') = SumFunction(DecodeLow) + LeastPairs(layer)
<1> USE Bounds DEF Sound
<1>1. UNCHANGED <<net, start, reused, current, tokens>> /\ InPass /\ NextModule
  BY RunSteps
<1>2. Gens' = Gens
  BY <1>1, BatchSame
<1>3. SumPlace(net.kind) \in 3 .. 12 /\ SumPlace(net.kind) + 1 \in 1 .. Len(Decoder) - 1
  BY Layout DEF TypeOk
<1>4. GenDone = layer /\ GenDone' = layer + 1
  <2>1. GenDone = layer
    BY <1>3 DEF GenDone, Done, TypeOk
  <2>2. \A r \in 1 .. Len(Decoder) - 1 :
          (IF pc' <= 0 THEN 0
           ELSE IF layer' >= NumLayers THEN NumLayers
           ELSE layer' + IF pc' > r THEN 1 ELSE 0)
            = Done(r) + (IF layer < NumLayers /\ pc = r THEN 1 ELSE 0)
    BY <1>1, NextPlace DEF Done
  <2> QED
    BY <1>1, <1>3, <2>1, <2>2 DEF GenDone, Done
<1> DEFINE h == [l \in Layers |-> IF l = layer THEN LeastPairs(l) ELSE 0]
           A == {layer}
           f == [l \in A |-> LeastPairs(l)]
<1>5. layer \in Layers
  BY DEF Layers, TypeOk
<1>6. LeastPairs(layer) \in Nat
  BY LeastPairsAre DEF TypeOk
<1>7. \A l \in Layers : DecodeLow'[l] = DecodeLow[l] + h[l]
  <2> SUFFICES ASSUME NEW l \in Layers PROVE DecodeLow'[l] = DecodeLow[l] + h[l]
    OBVIOUS
  <2>1. l \in Nat /\ layer \in Nat
    BY DEF Layers, TypeOk
  <2>2. DecodePairs(WindowOf(l))' = DecodePairs(WindowOf(l)) /\ LeastPairs(l)' = LeastPairs(l)
    BY <1>1, <1>2 DEF DecodePairs, WindowOf, FirstDecoded, AllKeys, OverSeqs, TotalLen,
       LeastPairs, Pairs, Total, Clamped
  <2>3. DecodeLow'[l] = SumFunction(DecodePairs(WindowOf(l)))
                          + IF l < layer + 1 THEN LeastPairs(l) ELSE 0
    BY <1>4, <2>2 DEF DecodeLow
  <2>4. DecodeLow[l] = SumFunction(DecodePairs(WindowOf(l)))
                          + IF l < layer THEN LeastPairs(l) ELSE 0
    BY <1>4 DEF DecodeLow
  <2>5. SumFunction(DecodePairs(WindowOf(l))) \in Nat /\ LeastPairs(l) \in Nat
    BY <2>1, WindowNat, DecodePairsNat, LeastPairsAre
  <2> QED
    BY <2>1, <2>3, <2>4, <2>5
<1>8. NatOn(DecodeLow, Layers)
  BY DecodeBounds
<1>9. DOMAIN DecodeLow' = Layers
  BY DEF DecodeLow
<1>10. NatOn(f, A) /\ SumFunction(f) = LeastPairs(layer) * Cardinality(A)
  <2>1. IsFiniteSet(A) /\ A = DOMAIN f /\ \A l \in A : f[l] = LeastPairs(layer)
    BY FS_Singleton
  <2> HIDE DEF A, f
  <2> QED
    BY <1>6, <2>1, SumOfConstant
<1>11. Cardinality(A) = 1 /\ A \in SUBSET Layers
  BY <1>5, FS_Singleton
<1>12. DOMAIN h = Layers /\ PaddedOn(h, f, A, Layers)
  BY DEF PaddedOn
<1> HIDE DEF h, f, A
<1>13. NatOn(h, Layers) /\ SumFunction(h) = LeastPairs(layer)
  <2>1. NatOn(h, Layers) /\ SumFunction(h) = SumFunction(f)
    BY <1>10, <1>11, <1>12, SumOfPart
  <2> QED
    BY <1>6, <1>10, <1>11, <2>1
<1>14. AddedOn(DecodeLow', DecodeLow, h, Layers)
  BY <1>7 DEF AddedOn
<1> QED
  BY <1>8, <1>9, <1>13, <1>14, SumPlus

LEMMA DecodeRun ==
  ASSUME Sound, DecodeSoFar, AddTime \/ Execution
  PROVE  DecodeSoFar'
<1> USE DEF Sound
<1>1. UNCHANGED <<net, start, reused, current, tokens>> /\ InPass /\ NextModule
  BY RunSteps
<1> DEFINE k == DecodeRate(net.kind, net.flashMla)
           N == NumLayers
           l == SumFunction(DecodeLow)
           m == SumFunction(DecodeLow')
           h == SumFunction(DecodePairs(AllKeys))
           p == Pairs(Gens)
           d == GenDone
           e == GenDone'
           w == work.gen
           v == work'.gen
           Upper == ~(net.kind = "Absorbed" /\ net.flashMla)
<1>2. Gens' = Gens /\ Pairs(Gens)' = p /\ DecodePairs(AllKeys)' = DecodePairs(AllKeys)
  <2>1. Gens' = Gens
    BY <1>1, BatchSame
  <2> QED
    BY <1>1, <2>1 DEF Pairs, Total, DecodePairs, FirstDecoded, AllKeys, OverSeqs, TotalLen
<1>3. k \in Nat /\ N \in Nat /\ l \in Nat /\ h \in Nat /\ p \in Nat
  BY Bounds, PerPairIs, DecodeBounds DEF TypeOk
<1>4. SumPlace(net.kind) \in 3 .. 12 /\ SumPlace(net.kind) + 1 \in 1 .. Len(Decoder) - 1
  BY Layout DEF TypeOk
<1>5. /\ d \in Nat
      /\ e = d + (IF layer < NumLayers /\ pc = SumPlace(net.kind) + 1 THEN 1 ELSE 0)
  <2>1. d \in Nat
    BY <1>4, DoneBefore DEF GenDone
  <2>2. \A r \in 1 .. Len(Decoder) - 1 :
          (IF pc' <= 0 THEN 0
           ELSE IF layer' >= NumLayers THEN NumLayers
           ELSE layer' + IF pc' > r THEN 1 ELSE 0)
            = Done(r) + (IF layer < NumLayers /\ pc = r THEN 1 ELSE 0)
    BY <1>1, NextPlace DEF Done
  <2>3. e = Done(SumPlace(net.kind) + 1)
              + (IF layer < NumLayers /\ pc = SumPlace(net.kind) + 1 THEN 1 ELSE 0)
    BY <1>1, <1>4, <2>2 DEF GenDone, Done
  <2> QED
    BY <2>1, <2>3 DEF GenDone
<1>6. w \in Nat /\ k * l <= w /\ (Upper => w <= k * (N * h + d * p))
  BY DEF DecodeSoFar
<1>7. SUFFICES v \in Nat /\ k * m <= v /\ (Upper => v <= k * (N * h + e * p))
  BY <1>1, <1>2 DEF DecodeSoFar
<1>8. DOMAIN work = {"sum", "gen"}
  BY DEF TypeOk
<1>9. CASE layer < NumLayers /\ pc = SumPlace(net.kind) + 1
  <2>1. PICK q \in Processors :
          work' = [work EXCEPT !.gen = @ + ExecuteOn(q, "attention_gen").flops]
    BY <1>4, <1>9, RunSteps
  <2> DEFINE F == ExecuteOn(q, "attention_gen").flops
             c == LeastPairs(layer)
  <2>2. v = w + F
    BY <1>8, <2>1
  <2>3. F \in Nat /\ F >= k * c /\ (Upper => F <= k * p)
    BY ExecuteGen
  <2>4. e = d + 1
    BY <1>5, <1>9
  <2>5. N * h \in Nat
    BY <1>3
  <2>6. m = l + c
    BY <1>9, LayerDone
  <2>7. c \in Nat
    BY LeastPairsAre DEF TypeOk
  <2> HIDE DEF k, N, l, m, h, p, d, e, w, v, F, c, Upper
  <2> DEFINE b == N * h
  <2> HIDE DEF b
  <2>8. b \in Nat /\ (Upper => w <= k * (b + d * p))
    BY <1>6, <2>5 DEF b
  <2>9. /\ k * (b + (d + 1) * p) = k * (b + d * p) + k * p
        /\ k * p \in Nat /\ k * (b + d * p) \in Nat
    BY <1>3, <1>5, <2>8, ChargedOnce
  <2>10. k * (l + c) = k * l + k * c /\ k * l \in Nat /\ k * c \in Nat
    BY <1>3, <2>7
  <2>11. v \in Nat /\ k * (l + c) <= v
    BY <1>6, <2>2, <2>3, <2>10
  <2>12. Upper => v <= k * (b + (d + 1) * p)
    <3> DEFINE y == k * (b + d * p)
               z == k * p
    <3>1. y \in Nat /\ z \in Nat /\ (Upper => w <= y /\ F <= z) /\ v = w + F /\ w \in Nat
          /\ F \in Nat /\ k * (b + (d + 1) * p) = y + z
      BY <1>6, <2>2, <2>3, <2>8, <2>9
    <3> HIDE DEF y, z
    <3> QED
      BY <3>1
  <2> QED
    BY <2>4, <2>6, <2>11, <2>12 DEF b
<1>10. CASE ~(layer < NumLayers /\ pc = SumPlace(net.kind) + 1)
  <2>1. e = d
    BY <1>5, <1>10
  <2>2. v = w
    BY <1>8, <1>10, RunSteps
  <2>3. m = l
    <3>1. \A i \in Layers : DecodePairs(WindowOf(i))' = DecodePairs(WindowOf(i))
                            /\ LeastPairs(i)' = LeastPairs(i)
      BY <1>1, <1>2 DEF DecodePairs, WindowOf, FirstDecoded, AllKeys, OverSeqs, TotalLen,
         LeastPairs, Pairs, Total, Clamped
    <3>2. DecodeLow' = DecodeLow
      BY <2>1, <3>1 DEF DecodeLow
    <3> QED
      BY <3>2
  <2> HIDE DEF k, N, l, m, h, p, d, e, w, v
  <2> QED
    BY <1>6, <2>1, <2>2, <2>3
<1> QED
  BY <1>9, <1>10

LEMMA DecodeLast ==
  ASSUME Sound, DecodeSoFar, EndPass
  PROVE  DecodeSoFar'
<1> USE DEF Sound
<1> DEFINE k == DecodeRate(net.kind, net.flashMla)
           N == NumLayers
           l == SumFunction(DecodeLow)
           m == SumFunction(DecodeLow')
           h == SumFunction(DecodePairs(AllKeys))
           z == SumFunction(DecodePairs(AllKeys)')
           p == Pairs(Gens)
           q == Pairs(Gens)'
           w == work.gen
           Upper == ~(net.kind = "Absorbed" /\ net.flashMla)
<1>1. net' = net /\ work' = work /\ pc' = 0 /\ pc > 0 /\ layer > NumLayers
  BY DEF EndPass
<1>2. k \in Nat /\ N \in Nat /\ l \in Nat /\ h \in Nat /\ p \in Nat
  BY Bounds, PerPairIs, DecodeBounds DEF TypeOk
<1>3. TypeOk'
  BY SoundEnd
<1>4. q \in Nat
  <2>1. (Pairs(Gens) \in Nat)'
    BY <1>3, PairsNatural, PTL
  <2> QED
    BY <2>1
<1>5. h + p <= z /\ z \in Nat
  <2>1. 0 \in Nat
    OBVIOUS
  <2> QED
    BY <2>1, OutputEnds
<1>6. GenDone = N /\ GenDone' = 0
  BY <1>1, Bounds DEF GenDone, Done, TypeOk
<1>7. m <= l /\ m \in Nat
  <2>1. \A i \in Layers : /\ DecodeLow'[i] <= DecodeLow[i] /\ DecodeLow'[i] \in Nat
    <3> SUFFICES ASSUME NEW i \in Layers
                 PROVE  DecodeLow'[i] <= DecodeLow[i] /\ DecodeLow'[i] \in Nat
      OBVIOUS
    <3>1. i \in Nat /\ i < N /\ ~(i < 0)
      BY Bounds DEF Layers
    <3> DEFINE x == SumFunction(DecodePairs(WindowOf(i)))
               y == SumFunction(DecodePairs(WindowOf(i))')
               c == LeastPairs(i)
    <3>2. DecodeLow[i] = x + c
      BY <1>6, <3>1 DEF DecodeLow
    <3>3. DecodeLow'[i] = y + 0
      BY <1>6, <3>1 DEF DecodeLow
    <3>4. y <= x + c /\ y \in Nat
      BY <3>1, OutputEnds
    <3> HIDE DEF x, y, c
    <3> QED
      BY <3>2, <3>3, <3>4
  <2>2. NatOn(DecodeLow, Layers)
    BY DecodeBounds
  <2>3. NatOn(DecodeLow', Layers) /\ BelowOn(DecodeLow', DecodeLow, Layers)
    BY <2>1, Bounds DEF NatOn, BelowOn, DecodeLow
  <2> QED
    BY <2>2, <2>3, SumAtMost, NatSum
<1>8. w \in Nat /\ k * l <= w /\ (Upper => w <= k * (N * h + N * p))
  BY <1>6 DEF DecodeSoFar
<1>9. SUFFICES k * m <= w /\ (Upper => w <= k * (N * z + 0 * q))
  BY <1>1, <1>6, <1>8 DEF DecodeSoFar
<1> HIDE DEF k, N, l, m, h, z, p, q, w, Upper
<1>10. k * m <= k * l /\ k * m \in Nat /\ k * l \in Nat
  BY <1>2, <1>7, MoreForMore
<1>11. k * (N * h + N * p) <= k * (N * z + 0 * q)
  BY <1>2, <1>4, <1>5, ChargedAll
<1>12. k * (N * h + N * p) \in Nat /\ k * (N * z + 0 * q) \in Nat
  <2>1. 0 * q = 0 /\ N * p \in Nat /\ N * h \in Nat /\ N * z \in Nat
    BY <1>2, <1>4, <1>5
  <2> QED
    BY <1>2, <2>1
<1> DEFINE c == k * (N * h + N * p)
           f == k * (N * z + 0 * q)
<1>13. c <= f /\ (Upper => w <= c) /\ c \in Nat /\ f \in Nat
  BY <1>8, <1>11, <1>12
<1> HIDE DEF c, f
<1>14. Upper => w <= f
  BY <1>8, <1>13
<1>15. k * m <= w
  BY <1>8, <1>10
<1> QED
  BY <1>14, <1>15 DEF f

-----------------------------------------------------------------------------
(* Keys and values are written once *)

\* Positions of n that a layer keeps and that are not among the first r.
Kept(l, n, r) == {i \in 1 .. n : i > r /\ (l % FullStride = 0 \/ i > n - KvWindow)}

\* The length a layer keeps of a prompt, less what was found in the cache, is
\* the number of positions it keeps.
LEMMA KeptCount ==
  ASSUME NEW n \in Nat, NEW r \in Nat, r <= n, NEW l \in Nat
  PROVE  /\ Cardinality(Kept(l, n, r)) \in Nat
         /\ Larger(0, EffectiveKvLen(l, n) - EffectiveReusedKvLen(l, n, r))
              = Cardinality(Kept(l, n, r))
<1> DEFINE kept == Kept(l, n, r)
           from == IF l % FullStride = 0 THEN r ELSE Larger(r, n - KvWindow)
<1>1. KvWindow \in Nat
  BY Bounds
<1>2. from \in Nat
  BY <1>1 DEF Larger
<1>3. kept = from + 1 .. n
  BY <1>1 DEF Larger, Kept
<1> HIDE DEF kept, from
<1>4. Cardinality(kept) = IF from + 1 > n THEN 0 ELSE n - (from + 1) + 1
  <2>1. from + 1 \in Int /\ n \in Int
    BY <1>2
  <2> QED
    BY <1>3, <2>1, FS_Interval
<1>5. Cardinality(kept) = IF from >= n THEN 0 ELSE n - from
  BY <1>2, <1>4
<1>6. Larger(0, EffectiveKvLen(l, n) - EffectiveReusedKvLen(l, n, r)) =
        IF from >= n THEN 0 ELSE n - from
  BY <1>1 DEF from, Larger, Smaller, EffectiveKvLen, EffectiveReusedKvLen
<1>7. Cardinality(kept) \in Nat
  BY <1>2, <1>5
<1> QED
  BY <1>5, <1>6, <1>7 DEF kept

LEMMA KeptOfNat ==
  ASSUME TypeOk, NEW s \in Seqs, SeqOk(s)
  PROVE  /\ NatOn([l \in Layers |-> Cardinality(KeptPositions(l, s))], Layers)
         /\ KeptOf(s) \in Nat
<1> DEFINE f == [l \in Layers |-> Cardinality(KeptPositions(l, s))]
<1>1. start[s] \in Nat /\ reused[s] \in Nat /\ reused[s] <= start[s]
  BY DEF TypeOk, SeqOk
<1>2. \A l \in Layers : Cardinality(KeptPositions(l, s)) \in Nat
  <2>1. \A l \in Layers : KeptPositions(l, s) = Kept(l, start[s], reused[s]) /\ l \in Nat
    BY Bounds DEF KeptPositions, Kept, Layers
  <2> QED
    BY <1>1, <2>1, KeptCount
<1>3. NatOn(f, Layers)
  BY <1>2, Bounds DEF NatOn
<1>4. KeptOf(s) = SumFunction(f)
  BY DEF KeptOf
<1> HIDE DEF f
<1>5. KeptOf(s) \in Nat
  BY <1>3, <1>4, NatSum
<1> QED
  BY <1>3, <1>5 DEF f

LEMMA UnitNat ==
  /\ Unit \in Nat
  /\ \A n \in Nat : ((2 * n * HeadDim * (TpDegree * GroupedKvHeads)) \div TpDegree) * Precision
                      = Unit * n
<1> USE Dims, Bounds
<1>1. Unit \in Nat
  BY DEF Unit
<1>2. ASSUME NEW n \in Nat
      PROVE  ((2 * n * HeadDim * (TpDegree * GroupedKvHeads)) \div TpDegree) * Precision = Unit * n
  <2> DEFINE x == 2 * n * HeadDim * GroupedKvHeads
  <2>1. x \in Nat /\ 2 * n * HeadDim * (TpDegree * GroupedKvHeads) = TpDegree * x
    OBVIOUS
  <2>2. Unit * n = x * Precision
    BY DEF Unit
  <2> HIDE DEF x
  <2>3. (TpDegree * x) \div TpDegree = x
    <3>1. \A y \in Nat, c \in Nat \ {0} : (c * y) \div c = y
      OBVIOUS
    <3> QED
      BY <2>1, <3>1
  <2> QED
    BY <2>1, <2>2, <2>3
<1> QED
  BY <1>1, <1>2

\* What the disaggregated decode writes of a prompt it sees first.
LEMMA BulkBytesAre ==
  ASSUME TypeOk, NEW s \in Seqs, SeqOk(s), net.kind = "MHA", current[s] = start[s]
  PROVE  BulkBytes(s) = Unit * KeptOf(s)
<1> USE Bounds
<1> DEFINE f == [l \in Layers |-> Cardinality(KeptPositions(l, s))]
           g == [l \in Layers |->
                   ((2 * NewKvTokens(l, s) * HeadDim * KvHeads) \div TpDegree) * Precision]
<1>1. start[s] \in Nat /\ reused[s] \in Nat /\ reused[s] <= start[s]
  BY DEF TypeOk, SeqOk
<1>2. \A l \in Layers : NewKvTokens(l, s) = f[l] /\ f[l] \in Nat
  <2> SUFFICES ASSUME NEW l \in Layers
               PROVE  /\ NewKvTokens(l, s) = Cardinality(KeptPositions(l, s))
                      /\ Cardinality(KeptPositions(l, s)) \in Nat
    OBVIOUS
  <2>1. KeptPositions(l, s) = Kept(l, start[s], reused[s]) /\ l \in Nat
    BY DEF KeptPositions, Kept, Layers
  <2>2. NewKvTokens(l, s) =
          Larger(0, EffectiveKvLen(l, start[s]) - EffectiveReusedKvLen(l, start[s], reused[s]))
    BY DEF NewKvTokens
  <2> DEFINE n == start[s]
             r == reused[s]
             k == KeptPositions(l, s)
  <2>3. n \in Nat /\ r \in Nat /\ r <= n /\ l \in Nat /\ k = Kept(l, n, r)
    BY <1>1, <2>1
  <2>4. NewKvTokens(l, s) = Larger(0, EffectiveKvLen(l, n) - EffectiveReusedKvLen(l, n, r))
    BY <2>2
  <2> HIDE DEF n, r, k
  <2>5. /\ Cardinality(Kept(l, n, r)) \in Nat
        /\ Larger(0, EffectiveKvLen(l, n) - EffectiveReusedKvLen(l, n, r))
              = Cardinality(Kept(l, n, r))
    BY <2>3, KeptCount
  <2>6. NewKvTokens(l, s) = Cardinality(k) /\ Cardinality(k) \in Nat
    BY <2>3, <2>4, <2>5
  <2> QED
    BY <2>6 DEF k
<1>3. KvHeads = TpDegree * GroupedKvHeads
  BY DEF KvHeads
<1>4. NatOn(f, Layers) /\ KeptOf(s) = SumFunction(f)
  BY KeptOfNat DEF KeptOf
<1>5. BulkBytes(s) = SumFunction(g) /\ DOMAIN g = Layers
  BY DEF BulkBytes, Layers
<1>6. ScaledOn(g, Unit, f, Layers)
  <2>1. \A l \in Layers : g[l] = ((2 * NewKvTokens(l, s) * HeadDim * KvHeads) \div TpDegree) * Precision
    OBVIOUS
  <2> HIDE DEF f, g
  <2>2. \A l \in Layers : g[l] = Unit * f[l]
    BY <1>2, <1>3, <2>1, UnitNat
  <2> QED
    BY <2>2 DEF ScaledOn
<1> HIDE DEF f, g
<1> QED
  BY <1>4, <1>5, <1>6, SumScaled, UnitNat

LEMMA KvBounds ==
  ASSUME TypeOk, \A s \in Seqs : SeqOk(s)
  PROVE  /\ NatOn(Added, Seqs) /\ NatOn(Bulk, Seqs)
         /\ SumFunction(Added) \in Nat /\ SumFunction(Bulk) \in Nat
<1>1. \A s \in Seqs : current[s] - start[s] \in Nat
  BY DEF TypeOk, SeqOk
<1>2. NatOn(Added, Seqs)
  BY <1>1, Bounds DEF NatOn, Added
<1>3. NatOn(Bulk, Seqs)
  BY KeptOfNat, Bounds DEF NatOn, Bulk
<1> QED
  BY <1>2, <1>3, NatSum

\* The tokens of a pass, sequence by sequence.
LEMMA RowsSum ==
  ASSUME TypeOk, \A s \in Seqs : SeqOk(s)
  PROVE  NatOn(tokens, Seqs) /\ Rows = SumFunction(tokens)
<1> DEFINE f == [s \in DOMAIN Batch |-> Batch[s].m]
<1>1. NatOn(f, DOMAIN Batch) /\ Rows = SumFunction(f)
  BY Batches, SumParts DEF Rows
<1>2. \A s \in DOMAIN Batch : f[s] = tokens[s]
  BY Batches
<1>3. DOMAIN Batch \in SUBSET Seqs /\ DOMAIN tokens = Seqs /\ IsFiniteSet(Seqs)
  BY Batches, Bounds DEF Present, TypeOk
<1>4. \A s \in Seqs : s \notin DOMAIN Batch => tokens[s] = 0
  <2> SUFFICES ASSUME NEW s \in Seqs, s \notin DOMAIN Batch PROVE tokens[s] = 0
    OBVIOUS
  <2>1. ~(current[s] < TotalLen(s))
    BY Batches DEF Present
  <2>2. current[s] \in Nat /\ tokens[s] \in Nat /\ current[s] + tokens[s] <= TotalLen(s)
        /\ TotalLen(s) \in Nat
    BY Bounds DEF TypeOk, SeqOk
  <2> QED
    BY <2>1, <2>2
<1> HIDE DEF f
<1>5. PaddedOn(tokens, f, DOMAIN Batch, Seqs)
  BY <1>2, <1>4 DEF PaddedOn
<1> QED
  BY <1>1, <1>3, <1>5, SumOfPart

LEMMA KvInit == Init => KvSoFar
<1> SUFFICES ASSUME Init PROVE KvSoFar
  OBVIOUS
<1> USE Bounds
<1>1. Sound
  BY SoundInit
<1> USE <1>1 DEF Sound
<1>2. pc = 0 /\ kvWritten = 0 /\ current = start /\ bulkWritten = {}
  BY DEF Init
<1>3. Done(2) = 0 /\ Rows \in Nat /\ Unit \in Nat
  BY <1>2, PairsNatural, UnitNat DEF Done
<1>4. \A s \in Seqs : Added[s] = 0 /\ Bulk[s] = 0
  <2> SUFFICES ASSUME NEW s \in Seqs PROVE Added[s] = 0 /\ Bulk[s] = 0
    OBVIOUS
  <2>1. current[s] \in Nat /\ current[s] - start[s] = 0
    BY <1>2 DEF TypeOk
  <2> QED
    BY <1>2, <2>1 DEF Added, Bulk
<1>5. Seqs = DOMAIN Added /\ Seqs = DOMAIN Bulk
  BY DEF Added, Bulk
<1>6. SumFunction(Added) = 0 * Cardinality(Seqs) /\ SumFunction(Bulk) = 0 * Cardinality(Seqs)
  BY <1>4, <1>5, SumOfConstant
<1>7. 0 * Cardinality(Seqs) = 0 /\ 0 * Rows = 0 /\ Unit * 0 = 0
  BY <1>3, FS_CardinalityType
<1> QED
  BY <1>2, <1>3, <1>6, <1>7 DEF KvSoFar

LEMMA KvStart ==
  ASSUME Sound, KvSoFar, StartPass
  PROVE  KvSoFar'
<1> USE DEF Sound
<1>1. pc = 0 /\ UNCHANGED <<net, start, reused, current, bulkWritten, kvWritten>>
  BY DEF StartPass
<1>2. net.decode \in BOOLEAN
  BY NetFields DEF TypeOk
<1>3. Done(2) = 0 /\ Done(2)' = 0
  <2>1. pc' = -1 \/ (pc' = 1 /\ layer' = 0)
    BY DEF StartPass
  <2> QED
    BY <1>1, <2>1, Bounds DEF Done
<1>4. Added' = Added /\ Bulk' = Bulk
  BY <1>1 DEF Added, Bulk, KeptOf, KeptPositions
<1>5. TypeOk'
  BY SoundStart
<1>6. (Rows \in Nat)'
  BY <1>5, PairsNatural, PTL
<1>7. 0 * Rows = 0 /\ 0 * Rows' = 0
  <2> DEFINE q == Rows'
             r == Rows
  <2>1. q \in Nat /\ r \in Nat
    BY <1>6, PairsNatural
  <2> HIDE DEF q, r
  <2>2. 0 * r = 0 /\ 0 * q = 0
    BY <2>1
  <2> QED
    BY <2>2 DEF q, r
<1> QED
  BY <1>1, <1>3, <1>4, <1>7 DEF KvSoFar

LEMMA KvWrite ==
  ASSUME Sound, KvSoFar, DecodeKVWrite
  PROVE  KvSoFar'
<1> USE Bounds DEF Sound
<1> SUFFICES ASSUME net.kind = "MHA", Head(net.procs) = "GPU" PROVE KvSoFar'
  BY DEF KvSoFar, DecodeKVWrite
<1>1. /\ pc = -1 /\ pc' = 1 /\ UNCHANGED <<net, start, reused, current, tokens, layer>>
      /\ bulkWritten' = bulkWritten \union FirstVisits
      /\ kvWritten' = kvWritten + BulkWrite /\ layer = 0 /\ net.decode
  BY DEF DecodeKVWrite, Places
<1>2. Done(2) = 0 /\ Done(2)' = 0
  BY <1>1 DEF Done
<1>3. Added' = Added /\ Rows' = Rows
  BY <1>1, BatchSame DEF Added
<1> DEFINE V == FirstVisits
           f == [s \in V |-> KeptOf(s)]
           g == [s \in V |-> BulkBytes(s)]
           h == [s \in Seqs |-> IF s \in V THEN KeptOf(s) ELSE 0]
<1>4. V \in SUBSET Seqs /\ IsFiniteSet(V) /\ \A s \in V : s \notin bulkWritten
  <2>1. V \in SUBSET Seqs /\ \A s \in V : s \notin bulkWritten
    BY DEF FirstVisits, Present
  <2> QED
    BY <2>1, FS_Subset
<1>5. \A s \in V : BulkBytes(s) = Unit * KeptOf(s) /\ KeptOf(s) \in Nat
  <2> SUFFICES ASSUME NEW s \in V PROVE BulkBytes(s) = Unit * KeptOf(s) /\ KeptOf(s) \in Nat
    OBVIOUS
  <2>1. s \in Seqs /\ SeqOk(s) /\ s \notin bulkWritten
    BY <1>4
  <2>2. current[s] \in Nat /\ start[s] \in Nat /\ start[s] <= current[s]
    BY <2>1 DEF TypeOk, SeqOk
  <2>3. ~(current[s] > start[s])
    BY <1>1, <2>1, <2>2 DEF BulkOk
  <2>4. current[s] = start[s]
    BY <2>2, <2>3
  <2> QED
    BY <2>1, <2>4, BulkBytesAre, KeptOfNat
<1>6. NatOn(f, V) /\ DOMAIN g = V /\ ScaledOn(g, Unit, f, V)
  BY <1>4, <1>5 DEF NatOn, ScaledOn
<1>7. BulkWrite = SumFunction(g)
  BY DEF BulkWrite
<1>8. DOMAIN h = Seqs /\ PaddedOn(h, f, V, Seqs)
  BY DEF PaddedOn
<1>9. NatOn(Bulk, Seqs) /\ SumFunction(Bulk) \in Nat /\ SumFunction(Added) \in Nat
  BY KvBounds
<1>10. DOMAIN Bulk' = Seqs /\ AddedOn(Bulk', Bulk, h, Seqs)
  <2>1. Bulk' = [s \in Seqs |-> IF s \in bulkWritten \union V THEN KeptOf(s) ELSE 0]
    BY <1>1 DEF Bulk, KeptOf, KeptPositions
  <2>2. \A s \in Seqs : Bulk'[s] = Bulk[s] + h[s]
    <3> SUFFICES ASSUME NEW s \in Seqs PROVE Bulk'[s] = Bulk[s] + h[s]
      OBVIOUS
    <3>1. KeptOf(s) \in Nat
      BY KeptOfNat
    <3> QED
      BY <1>4, <2>1, <3>1 DEF Bulk
  <2> QED
    BY <2>1, <2>2 DEF AddedOn
<1> HIDE DEF V, f, g, h
<1>11. SumFunction(g) = Unit * SumFunction(f) /\ SumFunction(f) \in Nat
  BY <1>6, SumScaled, UnitNat, NatSum
<1>12. NatOn(h, Seqs) /\ SumFunction(h) = SumFunction(f)
  BY <1>4, <1>6, <1>8, SumOfPart
<1>13. SumFunction(Bulk') = SumFunction(Bulk) + SumFunction(f)
  BY <1>9, <1>10, <1>12, SumPlus
<1> DEFINE u == Unit
           a == SumFunction(Added)
           b == SumFunction(Bulk)
           c == SumFunction(f)
<1>14. 0 * Rows = 0
  BY PairsNatural
<1>15. /\ u \in Nat /\ a \in Nat /\ b \in Nat /\ c \in Nat
       /\ kvWritten = u * (a + b + 0 * Rows) /\ kvWritten' = kvWritten + u * c
  BY <1>1, <1>2, <1>7, <1>9, <1>11, UnitNat DEF KvSoFar
<1>16. SUFFICES kvWritten' = u * (a + (b + c) + 0 * Rows)
  BY <1>2, <1>3, <1>13 DEF KvSoFar
<1> HIDE DEF u, a, b, c
<1>17. u * (a + b + 0) + u * c = u * (a + (b + c) + 0)
  BY <1>15
<1> QED
  BY <1>14, <1>15, <1>17

LEMMA KvRun ==
  ASSUME Sound, KvSoFar, AddTime \/ Execution
  PROVE  KvSoFar' /\ kvWritten' \in Nat
<1> USE Bounds DEF Sound
<1>1. UNCHANGED <<net, reused, start, current, tokens, bulkWritten>> /\ InPass /\ NextModule
  BY RunSteps
<1>2. Added' = Added /\ Bulk' = Bulk /\ Rows' = Rows
  BY <1>1, BatchSame DEF Added, Bulk, KeptOf, KeptPositions
<1>3. Done(2) \in Nat
      /\ Done(2)' = Done(2) + (IF layer < NumLayers /\ pc = 2 THEN 1 ELSE 0)
  <2>1. 2 \in 1 .. Len(Decoder) - 1
    BY <1>1, PassPlace
  <2> QED
    BY <1>1, <2>1, NextPlace, DoneBefore
<1>4. GroupedLinear!KVWriteBytes(Rows) = Unit * Rows /\ Unit * Rows \in Nat
  <2>1. Rows \in Nat /\ Unit \in Nat
    BY PairsNatural, UnitNat
  <2>2. GroupedLinear!KVWriteBytes(Rows) = Rows * 2 * HeadDim * GroupedKvHeads * Precision
    BY DEF GroupedLinear!KVWriteBytes
  <2> QED
    BY <2>1, <2>2, Dims DEF Unit
<1>5. kvWritten' = IF /\ net.kind = "MHA" /\ layer < NumLayers /\ pc = 2
                      /\ Head(net.procs) = "GPU"
                   THEN kvWritten + Unit * Rows ELSE kvWritten
  BY <1>4, RunSteps
<1>6. kvWritten \in Nat /\ kvWritten' \in Nat
  BY <1>4, <1>5 DEF TypeOk
<1>7. KvSoFar'
  <2> SUFFICES ASSUME net.kind = "MHA", Head(net.procs) = "GPU"
               PROVE  kvWritten' = Unit * (SumFunction(Added) + SumFunction(Bulk) + Done(2)' * Rows)
    BY <1>1, <1>2 DEF KvSoFar
  <2> DEFINE u == Unit
             a == SumFunction(Added)
             b == SumFunction(Bulk)
             r == Rows
             d == Done(2)
             x == a + b
  <2>1. u \in Nat /\ a \in Nat /\ b \in Nat /\ r \in Nat /\ x \in Nat
    BY UnitNat, KvBounds, PairsNatural
  <2>2. kvWritten = u * (x + d * r)
    BY DEF KvSoFar
  <2>3. CASE layer < NumLayers /\ pc = 2
    <3>1. kvWritten' = kvWritten + u * r /\ Done(2)' = d + 1
      BY <1>3, <1>5, <2>3
    <3>2. d \in Nat
      BY <1>3
    <3> HIDE DEF u, a, b, r, d, x
    <3>3. u * (x + (d + 1) * r) = u * (x + d * r) + u * r
      BY <2>1, <3>2, ChargedOnce
    <3> QED
      BY <2>2, <3>1, <3>3 DEF u, a, b, r, d, x
  <2>4. CASE ~(layer < NumLayers /\ pc = 2)
    <3>1. kvWritten' = kvWritten /\ Done(2)' = d
      BY <1>3, <1>5, <2>4
    <3> QED
      BY <2>2, <3>1
  <2> QED
    BY <2>3, <2>4
<1> QED
  BY <1>6, <1>7

LEMMA KvLast ==
  ASSUME Sound, KvSoFar, EndPass
  PROVE  KvSoFar'
<1> USE Bounds DEF Sound
<1> SUFFICES ASSUME net.kind = "MHA", Head(net.procs) = "GPU" PROVE KvSoFar'
  BY DEF KvSoFar, EndPass
<1>1. /\ UNCHANGED <<net, start, reused, bulkWritten, kvWritten>> /\ pc' = 0 /\ pc > 0
      /\ layer > NumLayers
  BY DEF EndPass
<1>2. Bulk' = Bulk
  BY <1>1 DEF Bulk, KeptOf, KeptPositions
<1>3. Done(2) = NumLayers /\ Done(2)' = 0
  BY <1>1 DEF Done, TypeOk
<1> DEFINE h == [s \in Seqs |-> NumLayers * tokens[s]]
<1>4. NatOn(tokens, Seqs) /\ Rows = SumFunction(tokens)
  BY RowsSum
<1>5. DOMAIN h = Seqs /\ ScaledOn(h, NumLayers, tokens, Seqs) /\ NatOn(h, Seqs)
  BY <1>4 DEF ScaledOn, NatOn
<1>6. NatOn(Added, Seqs) /\ SumFunction(Added) \in Nat /\ SumFunction(Bulk) \in Nat
  BY KvBounds
<1>7. DOMAIN Added' = Seqs /\ AddedOn(Added', Added, h, Seqs)
  <2>1. \A s \in Seqs : Added'[s] = Added[s] + h[s]
    <3> SUFFICES ASSUME NEW s \in Seqs PROVE Added'[s] = Added[s] + h[s]
      OBVIOUS
    <3> DEFINE d == current[s] - start[s]
               t == tokens[s]
    <3>1. d \in Nat /\ t \in Nat /\ (current[s] + t) - start[s] = d + t
      BY DEF TypeOk, SeqOk
    <3>2. Added[s] = NumLayers * d /\ h[s] = NumLayers * t
      BY DEF Added
    <3>3. Added'[s] = NumLayers * ((current[s] + t) - start[s])
      BY <1>1 DEF Added, EndPass
    <3> HIDE DEF d, t, h
    <3>4. NumLayers * (d + t) = NumLayers * d + NumLayers * t
      BY <3>1
    <3> QED
      BY <3>1, <3>2, <3>3, <3>4
  <2> QED
    BY <2>1 DEF AddedOn, Added
<1> HIDE DEF h
<1>8. SumFunction(h) = NumLayers * Rows
  BY <1>4, <1>5, SumScaled
<1>9. SumFunction(Added') = SumFunction(Added) + NumLayers * Rows
  BY <1>5, <1>6, <1>7, <1>8, SumPlus
<1>10. TypeOk'
  BY SoundEnd
<1>11. (Rows \in Nat)'
  BY <1>10, PairsNatural, PTL
<1>12. 0 * Rows' = 0
  <2> DEFINE q == Rows'
  <2>1. q \in Nat
    BY <1>11
  <2> HIDE DEF q
  <2>2. 0 * q = 0
    BY <2>1
  <2> QED
    BY <2>2 DEF q
<1> DEFINE u == Unit
           a == SumFunction(Added)
           b == SumFunction(Bulk)
           c == NumLayers * Rows
<1>13. u \in Nat /\ a \in Nat /\ b \in Nat /\ c \in Nat /\ kvWritten = u * (a + b + c)
  BY <1>3, <1>6, UnitNat, PairsNatural DEF KvSoFar
<1>14. SUFFICES kvWritten = u * ((a + c) + b + 0)
  BY <1>1, <1>2, <1>3, <1>9, <1>12 DEF KvSoFar
<1> HIDE DEF u, a, b, c
<1>15. a + b + c = (a + c) + b + 0
  BY <1>13
<1> QED
  BY <1>13, <1>15

-----------------------------------------------------------------------------
(* The invariant holds *)

LEMMA LayerInit == Init => LayerInductive
BY SoundInit, PromptInit, DecodeInit, KvInit DEF Sound, LayerInductive

LEMMA LayerNext == LayerInductive /\ [Next]_vars => LayerInductive'
<1> SUFFICES ASSUME LayerInductive, [Next]_vars PROVE LayerInductive'
  OBVIOUS
<1>1. Sound /\ PromptSoFar /\ DecodeSoFar /\ KvSoFar
  BY DEF LayerInductive, Sound
<1>2. SUFFICES Sound' /\ PromptSoFar' /\ DecodeSoFar' /\ KvSoFar'
  BY DEF LayerInductive, Sound
<1>3. CASE StartPass
  BY <1>1, <1>3, SoundStart, PromptBetween, DecodeBetween, KvStart
<1>4. CASE DecodeKVWrite
  BY <1>1, <1>4, SoundWrite, PromptBetween, DecodeBetween, KvWrite
<1>5. CASE AddTime \/ Execution
  <2>1. PromptSoFar' /\ DecodeSoFar' /\ KvSoFar' /\ kvWritten' \in Nat
    BY <1>1, <1>5, PromptRun, DecodeRun, KvRun
  <2>2. /\ UNCHANGED <<net, reused, start, current, tokens, bulkWritten>>
        /\ InPass /\ NextModule
    BY <1>1, <1>5, RunSteps
  <2>3. DOMAIN work' = {"sum", "gen"}
    <3>1. DOMAIN work = {"sum", "gen"}
      BY <1>1 DEF Sound, TypeOk
    <3> QED
      BY <1>1, <1>5, <3>1, RunSteps
  <2>4. Sound'
    BY <1>1, <2>1, <2>2, <2>3, SoundRun
  <2> QED
    BY <2>1, <2>4
<1>6. CASE EndPass
  BY <1>1, <1>6, SoundEnd, PromptLast, DecodeLast, KvLast
<1>7. CASE UNCHANGED vars
  <2>1. UNCHANGED <<net, reused, start, current, tokens, bulkWritten, layer, pc, kvWritten, work>>
    BY <1>7 DEF vars
  <2>2. Sound'
    BY <1>1, <2>1 DEF Sound, TypeOk, Places, SeqOk, InSum, TotalLen, BulkOk, Decoder
  <2>3. Sums' = Sums /\ Gens' = Gens /\ Rows' = Rows
    BY <2>1, BatchSame
  <2>4. PromptSoFar'
    <3>1. /\ PromptLow' = PromptLow /\ PromptHigh' = PromptHigh /\ SumDone' = SumDone
          /\ ChunksFit' = ChunksFit
      BY <2>1 DEF PromptLow, PromptHigh, PromptEnd, SumDone, Done, ChunksFit
    <3>2. Pairs(Sums)' = Pairs(Sums)
      BY <2>3 DEF Pairs, Total
    <3> QED
      BY <1>1, <2>1, <3>1, <3>2 DEF PromptSoFar
  <2>5. DecodeSoFar'
    <3>1. /\ DecodePairs(AllKeys)' = DecodePairs(AllKeys) /\ GenDone' = GenDone
          /\ \A l \in Layers : DecodePairs(WindowOf(l))' = DecodePairs(WindowOf(l))
      BY <2>1 DEF DecodePairs, WindowOf, FirstDecoded, AllKeys, OverSeqs, TotalLen, GenDone, Done
    <3>2. Pairs(Gens)' = Pairs(Gens) /\ \A l \in Layers : LeastPairs(l)' = LeastPairs(l)
      BY <2>1, <2>3 DEF Pairs, Total, LeastPairs, Clamped
    <3>3. DecodeLow' = DecodeLow
      BY <3>1, <3>2 DEF DecodeLow
    <3> QED
      BY <1>1, <2>1, <3>1, <3>2, <3>3 DEF DecodeSoFar
  <2>6. KvSoFar'
    <3>1. Added' = Added /\ Bulk' = Bulk /\ Done(2)' = Done(2)
      BY <2>1 DEF Added, Bulk, KeptOf, KeptPositions, Done
    <3> QED
      BY <1>1, <2>1, <2>3, <3>1 DEF KvSoFar
  <2> QED
    BY <2>2, <2>4, <2>5, <2>6
<1> QED
  BY <1>3, <1>4, <1>5, <1>6, <1>7 DEF Next

\* In every reachable state the batch is as the plan of its pass made it, and
\* the work, the bytes written and the place in the pass agree: work charged
\* is that of the passes that ended and of the layers behind (decoder.cpp,
\* executor.cpp), bytes written those of the sequences and rows behind.
THEOREM LayerStates == Spec => []LayerInductive
BY LayerInit, LayerNext, PTL DEF Spec

LEMMA PromptFinal == LayerInductive => PromptWork
<1> SUFFICES ASSUME LayerInductive, pc = 0, ~(net.kind = "MLA" /\ net.flashAttention),
                    ChunksFit
             PROVE  /\ work.sum >= NumLayers * (PerPair + SoftmaxPerPair) *
                         OverSeqs(LAMBDA s : CausalPairs(start[s], PromptEnd(s), InputLen[s]))
                    /\ work.sum <= NumLayers * (PerPair + SoftmaxPerPair) *
                         OverSeqs(LAMBDA s : (PromptEnd(s) - Smaller(start[s], PromptEnd(s)))
                                               * InputLen[s])
  BY DEF PromptWork
<1> USE DEF LayerInductive
<1> DEFINE k == PromptRate(net.kind)
           N == NumLayers
           l == SumFunction(PromptLow)
           h == SumFunction(PromptHigh)
           p == Pairs(Sums)
           w == work.sum
<1>1. /\ OverSeqs(LAMBDA s : CausalPairs(start[s], PromptEnd(s), InputLen[s])) = l
      /\ OverSeqs(LAMBDA s : (PromptEnd(s) - Smaller(start[s], PromptEnd(s))) * InputLen[s]) = h
  BY DEF OverSeqs, PromptLow, PromptHigh
<1>2. PerPair + SoftmaxPerPair = k
  BY PerPairIs DEF TypeOk
<1>3. k \in Nat /\ N \in Nat /\ l \in Nat /\ h \in Nat /\ p \in Nat
  BY Bounds, PromptRateNatural, PromptBounds, PromptPairsSum
<1>4. SumDone = 0
  BY DEF SumDone, Done
<1>5. w \in Nat /\ k * (N * l + 0 * p) <= w /\ w <= k * (N * h + 0 * p)
  BY <1>4 DEF PromptSoFar
<1>6. SUFFICES N * k * l <= w /\ w <= N * k * h
  BY <1>1, <1>2, <1>5
<1> HIDE DEF k, N, l, h, p, w
<1>7. N * k * l = k * (N * l + 0 * p) /\ N * k * h = k * (N * h + 0 * p)
  <2>1. 0 * p = 0
    BY <1>3
  <2>2. N * l \in Nat /\ N * h \in Nat
    BY <1>3
  <2>3. k * (N * l + 0) = N * k * l /\ k * (N * h + 0) = N * k * h
    BY <1>3
  <2> QED
    BY <2>1, <2>3
<1> QED
  BY <1>5, <1>7

LEMMA DecodeFinal == LayerInductive => DecodeWork
<1> SUFFICES ASSUME LayerInductive, pc = 0 PROVE DecodeWork
  BY DEF DecodeWork
<1> USE DEF LayerInductive
<1> DEFINE pairs(w) == OverSeqs(LAMBDA s : CausalPairs(FirstDecoded(s), current[s], w))
           all == NumLayers * pairs(OverSeqs(TotalLen))
           clamped == SumFunction([l \in 0 .. NumLayers - 1 |->
                        pairs(IF l % FullStride = 0 THEN OverSeqs(TotalLen) ELSE KvWindow)])
           softmax == IF net.kind # "MHA" /\ ~net.flashMla THEN SoftmaxPerPair ELSE 0
           k == DecodeRate(net.kind, net.flashMla)
           N == NumLayers
           h == SumFunction(DecodePairs(AllKeys))
           p == Pairs(Gens)
           w == work.gen
           Upper == ~(net.kind = "Absorbed" /\ net.flashMla)
<1>1. PerPair + softmax = k
  BY PerPairIs DEF TypeOk
<1>2. k \in Nat /\ N \in Nat /\ h \in Nat /\ p \in Nat
  BY Bounds, PerPairIs, DecodeBounds DEF TypeOk
<1>3. GenDone = 0
  BY DEF GenDone, Done
<1>4. \A v : pairs(v) = SumFunction(DecodePairs(v))
  BY DEF OverSeqs, DecodePairs
<1>5. all = N * h
  BY <1>4 DEF AllKeys
<1>6. SumFunction(DecodeLow) = IF net.kind = "MHA" THEN clamped ELSE all
  <2>1. \A l \in Layers : ~(l < 0) /\ SumFunction(DecodePairs(WindowOf(l))) \in Nat
    BY DecodePairsNat, WindowNat DEF Layers
  <2>2. \A l \in Layers : DecodeLow[l] = SumFunction(DecodePairs(WindowOf(l)))
    BY <1>3, <2>1 DEF DecodeLow
  <2>3. CASE net.kind = "MHA"
    <3>1. DecodeLow = [l \in 0 .. NumLayers - 1 |->
                        pairs(IF l % FullStride = 0 THEN OverSeqs(TotalLen) ELSE KvWindow)]
      <4>1. \A l \in Layers : WindowOf(l) = IF l % FullStride = 0 THEN OverSeqs(TotalLen) ELSE KvWindow
        BY <2>3 DEF WindowOf, AllKeys
      <4>2. DecodeLow = [l \in Layers |-> DecodeLow[l]]
        BY DEF DecodeLow
      <4> HIDE DEF pairs
      <4>3. \A l \in Layers :
              DecodeLow[l] = pairs(IF l % FullStride = 0 THEN OverSeqs(TotalLen) ELSE KvWindow)
        BY <1>4, <2>2, <4>1
      <4> QED
        BY <4>2, <4>3 DEF Layers
    <3> QED
      BY <2>3, <3>1
  <2>4. CASE net.kind # "MHA"
    <3>1. \A l \in Layers : DecodeLow[l] = h
      BY <2>2, <2>4 DEF WindowOf
    <3>2. Layers = DOMAIN DecodeLow /\ IsFiniteSet(Layers)
      BY Bounds DEF DecodeLow
    <3>3. Cardinality(Layers) = N
      <4>1. 0 \in Int /\ N - 1 \in Int /\ ~(0 > N - 1) /\ N - 1 - 0 + 1 = N
        BY Bounds
      <4>2. Cardinality(0 .. N - 1) = N - 1 - 0 + 1
        BY <4>1, FS_Interval
      <4> QED
        BY <4>1, <4>2 DEF Layers
    <3> HIDE DEF h
    <3>4. SumFunction(DecodeLow) = h * Cardinality(Layers)
      BY <1>2, <3>1, <3>2, SumOfConstant
    <3>5. h * N = N * h
      BY <1>2
    <3> QED
      BY <1>5, <2>4, <3>3, <3>4, <3>5
  <2> QED
    BY <2>3, <2>4
<1>7. w \in Nat /\ k * SumFunction(DecodeLow) <= w /\ (Upper => w <= k * (N * h + 0 * p))
  BY <1>3 DEF DecodeSoFar
<1>8. k * (N * h + 0 * p) = k * all
  <2> HIDE DEF k, N, h, p, all
  <2>1. 0 * p = 0 /\ N * h \in Nat
    BY <1>2
  <2> QED
    BY <1>5, <2>1
<1> HIDE DEF pairs, all, clamped, softmax, k, w
<1>9. /\ w >= (PerPair + softmax) * IF net.kind = "MHA" THEN clamped ELSE all
      /\ Upper => w <= (PerPair + softmax) * all
  BY <1>1, <1>6, <1>7, <1>8
<1> QED
  BY <1>9 DEF DecodeWork, pairs, all, clamped, softmax, w

LEMMA KvFinal == LayerInductive => KvWrittenOnce
<1> SUFFICES ASSUME LayerInductive, pc = 0, net.kind = "MHA", Head(net.procs) = "GPU"
             PROVE  kvWritten = 2 * HeadDim * GroupedKvHeads * Precision *
                      OverSeqs(LAMBDA s :
                        NumLayers * (current[s] - start[s])
                        + IF net.decode /\ current[s] > start[s]
                          THEN SumFunction([l \in 0 .. NumLayers - 1 |->
                                              Cardinality(KeptPositions(l, s))])
                          ELSE 0)
  BY DEF KvWrittenOnce
<1> USE DEF LayerInductive
<1> DEFINE f == [s \in Seqs |->
                   NumLayers * (current[s] - start[s])
                     + IF net.decode /\ current[s] > start[s]
                       THEN SumFunction([l \in 0 .. NumLayers - 1 |->
                                           Cardinality(KeptPositions(l, s))])
                       ELSE 0]
<1>1. NatOn(Added, Seqs) /\ NatOn(Bulk, Seqs)
      /\ SumFunction(Added) \in Nat /\ SumFunction(Bulk) \in Nat
  BY KvBounds
<1>2. DOMAIN f = Seqs /\ AddedOn(f, Added, Bulk, Seqs)
  <2> SUFFICES ASSUME NEW s \in Seqs PROVE f[s] = Added[s] + Bulk[s]
    BY DEF AddedOn
  <2>1. s \in bulkWritten <=> net.decode /\ current[s] > start[s]
    BY DEF BulkOk, TypeOk
  <2>2. KeptOf(s) = SumFunction([l \in 0 .. NumLayers - 1 |-> Cardinality(KeptPositions(l, s))])
    BY DEF KeptOf, Layers
  <2> QED
    BY <2>1, <2>2 DEF Added, Bulk
<1> HIDE DEF f
<1>3. SumFunction(f) = SumFunction(Added) + SumFunction(Bulk)
  BY <1>1, <1>2, SumPlus
<1>4. Done(2) = 0
  BY DEF Done
<1>5. 0 * Rows = 0
  BY PairsNatural
<1>6. kvWritten = Unit * SumFunction(f)
  <2>1. kvWritten = Unit * (SumFunction(Added) + SumFunction(Bulk) + 0 * Rows)
    BY <1>4 DEF KvSoFar
  <2>2. SumFunction(Added) + SumFunction(Bulk) + 0 = SumFunction(f)
    BY <1>1, <1>3
  <2> QED
    BY <1>5, <2>1, <2>2
<1> QED
  BY <1>6 DEF Unit, f, OverSeqs

-----------------------------------------------------------------------------
(* The copies of a layer function *)

LEMMA LinearAgrees ==
  ASSUME NEW p \in Processors, NEW m, NEW k, NEW n
  PROVE  Linear(p, m, k, n).flops = Linear("GPU", m, k, n).flops
BY DEF Linear, Processors, LinearGPU, LinearLogic, LinearPIM, LinearOn, IfAny, Nothing, Tiered,
   Roofline

\* The fused projection is as wide as query, key and value together.
LEMMA FusedAgrees ==
  ASSUME NEW p \in Processors, NEW m, NEW k
  PROVE  GroupedLinear!QKVLinear(p, m, k).flops = GroupedLinear!QKVLinear("GPU", m, k).flops
<1> DEFINE n == HeadDim * NumHeads + 2 * HeadDim * GroupedKvHeads
           w == HeadDim * (NumHeads + 2 * GroupedKvHeads)
<1>1. w = n
  <2>1. GroupedKvHeads \in Nat
    BY LayerExecutionAssumption
  <2> QED
    BY <2>1, Dims
<1>2. GroupedLinear!QKVLinear("GPU", m, k).flops = IF m = 0 THEN 0 ELSE 2 * m * k * n
  BY DEF GroupedLinear!QKVLinear, GroupedLinear!QKVLinearGPU, GroupedLinear!IfAny,
     GroupedLinear!Nothing, GroupedLinear!Tiered
<1>3. p # "GPU" =>
        GroupedLinear!QKVLinear(p, m, k).flops = IF m = 0 THEN 0 ELSE 2 * m * k * w
  BY DEF Processors, GroupedLinear!QKVLinear, GroupedLinear!Linear, GroupedLinear!LinearLogic,
     GroupedLinear!LinearPIM, GroupedLinear!LinearOn, GroupedLinear!IfAny,
     GroupedLinear!Nothing, GroupedLinear!Roofline
<1> HIDE DEF n, w
<1> QED
  BY <1>1, <1>2, <1>3

\* The modules that an executor of the device is called for.
ProjectionsOf(kind) ==
  {"ffn_up_proj", "ffn_down_proj", "gate_proj", "up_proj", "down_proj"} \union
  CASE kind = "MHA" -> {"attn_qkv_proj", "attn_o_proj"}
    [] kind = "MLA" -> {"attn_q_down_proj", "attn_kv_down_proj", "attn_kr_proj", "attn_q_up_proj",
                        "attn_qr_proj", "attn_kv_up_proj", "attn_o_proj"}
    [] kind = "Absorbed" ->
         {"attn_q_down_proj", "attn_kv_down_proj", "attn_kr_proj", "attn_q_up_proj",
          "attn_qr_proj", "attn_tr_k_up_proj", "attn_v_up_proj", "attn_o_proj"}

LEMMA ExecutedModules ==
  ASSUME net \in Nets, NEW i \in 1 .. Len(Decoder), Decoder[i] \notin HasOwnTime
  PROVE  Decoder[i] \in {"attention_sum", "attention_gen", "activation"}
                          \union ProjectionsOf(net.kind)
<1>1. net.kind \in Kinds /\ net.ffnWay \in {2, 3}
  BY NetFields
<1> USE DEF HasOwnTime, ProjectionsOf, Decoder, AttentionParallel
<1>2. CASE net.kind = "MHA" /\ net.ffnWay = 2
  BY <1>2 DEF Attention, FeedForward2Way
<1>3. CASE net.kind = "MHA" /\ net.ffnWay = 3
  BY <1>3 DEF Attention, FeedForward3Way
<1>4. CASE net.kind = "MLA" /\ net.ffnWay = 2
  BY <1>4 DEF MultiLatentAttention, LatentModules, FeedForward2Way
<1>5. CASE net.kind = "MLA" /\ net.ffnWay = 3
  BY <1>5 DEF MultiLatentAttention, LatentModules, FeedForward3Way
<1>6. CASE net.kind = "Absorbed" /\ net.ffnWay = 2
  BY <1>6 DEF AbsorbedAttention, LatentModules, FeedForward2Way
<1>7. CASE net.kind = "Absorbed" /\ net.ffnWay = 3
  BY <1>7 DEF AbsorbedAttention, LatentModules, FeedForward3Way
<1> QED
  BY <1>1, <1>2, <1>3, <1>4, <1>5, <1>6, <1>7 DEF Kinds

\* A full layer of grouped-query attention clamps nothing.
LEMMA FullLayer ==
  ASSUME NEW b, BatchOk(b), NEW l, l % FullStride = 0
  PROVE  Pairs(Clamped(l, b)) = Pairs(b)
<1>1. \A s \in DOMAIN b : [b[s] EXCEPT !.n = EffectiveKvLen(l, b[s].n)] = b[s]
  BY DEF EffectiveKvLen, BatchOk
<1>2. DOMAIN Clamped(l, b) = DOMAIN b /\ \A s \in DOMAIN b : Clamped(l, b)[s] = b[s]
  BY <1>1 DEF Clamped
<1>3. [s \in DOMAIN Clamped(l, b) |-> Clamped(l, b)[s].m * Clamped(l, b)[s].n]
        = [s \in DOMAIN b |-> b[s].m * b[s].n]
  BY <1>2
<1> QED
  BY <1>3 DEF Pairs, Total

LEMMA GenAgrees ==
  ASSUME TypeOk, NEW p \in Processors, net.kind = "MHA" => layer % FullStride = 0
  PROVE  ExecuteOn(p, "attention_gen").flops = ExecuteOn("GPU", "attention_gen").flops
<1>1. net.kind \in Kinds /\ net.flashMla \in BOOLEAN /\ layer \in Nat /\ "GPU" \in Processors
  BY NetFields DEF TypeOk, Processors
<1>2. BatchOk(Gens)
  BY Batches
<1>3. \A q : ExecuteOn(q, "attention_gen") = ExecuteAttention(q, "attention_gen")
  BY DEF ExecuteOn, AttentionParallel, Range
<1>4. CASE net.kind = "MHA"
  <2>1. \A q : ExecuteOn(q, "attention_gen") = SelfAttentionGen(q)
    BY <1>3, <1>4 DEF ExecuteAttention, SelfAttentionParallel
  <2>2. SelfAttentionGen("GPU").flops = DecodeRate("MHA", TRUE) * Pairs(Gens)
    BY <1>1, <1>2, <1>4, GroupedGenGPU, FullLayer DEF SelfAttentionGen
  <2>3. p # "GPU" => SelfAttentionGen(p).flops = DecodeRate("MHA", TRUE) * Pairs(Gens)
    BY <1>2, GroupedGenOther DEF SelfAttentionGen, Processors
  <2>4. /\ ExecuteOn(p, "attention_gen") = SelfAttentionGen(p)
        /\ ExecuteOn("GPU", "attention_gen") = SelfAttentionGen("GPU")
    BY <2>1
  <2>5. CASE p = "GPU"
    BY <2>5
  <2>6. CASE p # "GPU"
    BY <2>2, <2>3, <2>4, <2>6
  <2> QED
    BY <2>5, <2>6
<1>5. CASE net.kind = "MLA"
  <2>1. \A q : ExecuteOn(q, "attention_gen") = MLAGen(q, net.flashMla, Gens)
    BY <1>3, <1>5 DEF ExecuteAttention, MultiLatentAttentionParallel, MultiLatentAttentionGen
  <2> QED
    BY <1>1, <1>2, <2>1, LatentGen
<1>6. CASE net.kind = "Absorbed"
  <2>1. \A q : ExecuteOn(q, "attention_gen") = AbsorbMLAGen(q, net.flashMla, Gens)
    BY <1>3, <1>6 DEF ExecuteAttention, AbsorbMLAParallel, AbsorbedAttentionGen
  <2> QED
    BY <1>1, <1>2, <2>1, AbsorbedGen
<1> QED
  BY <1>1, <1>4, <1>5, <1>6 DEF Kinds

\* Every other projection is one plain product.
LEMMA ProjectionsAgree ==
  ASSUME net \in Nets, NEW p \in Processors,
         NEW module \in ProjectionsOf(net.kind) \union {"lm_head_col_linear"},
         net.kind = "Absorbed" => module \notin {"attn_q_up_proj", "attn_qr_proj",
                                                 "attn_tr_k_up_proj", "attn_v_up_proj"}
  PROVE  ExecuteOn(p, module).flops = ExecuteOn("GPU", module).flops
<1>1. net.kind \in Kinds
  BY NetFields
<1>2. CASE module \in {"ffn_up_proj", "ffn_down_proj"}
  <2>1. \A q : ExecuteOn(q, module) = FeedForward2WayProjections(q, module)
    BY <1>2 DEF ExecuteOn, AttentionParallel, Range
  <2> QED
    BY <2>1, LinearAgrees DEF FeedForward2WayProjections, ColumnParallelLinear, RowParallelLinear
<1>3. CASE module \in {"gate_proj", "up_proj", "down_proj"}
  <2>1. \A q : ExecuteOn(q, module) = FeedForward3WayProjections(q, module)
    BY <1>3 DEF ExecuteOn, AttentionParallel, Range
  <2> QED
    BY <2>1, LinearAgrees DEF FeedForward3WayProjections, ColumnParallelLinear, RowParallelLinear
<1>4. CASE module = "lm_head_col_linear"
  <2>1. \A q : ExecuteOn(q, module) = ColumnParallelLinear(q, Rows, HiddenDim, NVocab)
    BY <1>4 DEF ExecuteOn, AttentionParallel, Range
  <2> QED
    BY <2>1, LinearAgrees DEF ColumnParallelLinear
<1>5. CASE net.kind = "MHA" /\ module \in {"attn_qkv_proj", "attn_o_proj"}
  <2>1. \A q : ExecuteOn(q, module) = AttentionProjections(q, module)
    BY <1>5 DEF ExecuteOn, AttentionParallel, Range
  <2> QED
    BY <1>5, <2>1, LinearAgrees, FusedAgrees DEF AttentionProjections, RowParallelLinear
<1>6. CASE net.kind # "MHA" /\ module \in {"attn_q_down_proj", "attn_kv_down_proj", "attn_kr_proj",
                                          "attn_q_up_proj", "attn_qr_proj", "attn_kv_up_proj",
                                          "attn_o_proj"}
  <2>1. \A q : ExecuteOn(q, module) = LatentProjections(q, module)
    BY <1>6 DEF ExecuteOn, AttentionParallel, Range
  <2>2. CASE module \in {"attn_q_down_proj", "attn_kv_down_proj", "attn_kr_proj"}
    <3>1. PICK n : \A q : LatentProjections(q, module) = Linear(q, Rows, HiddenDim, n)
      BY <2>2 DEF LatentProjections
    <3> QED
      BY <2>1, <3>1, LinearAgrees
  <2>3. CASE module = "attn_kv_up_proj"
    BY <2>1, <2>3, LinearAgrees DEF LatentProjections, ColumnParallelLinear
  <2>4. CASE module \in {"attn_q_up_proj", "attn_qr_proj"}
    <3>1. PICK n : \A q : LatentProjections(q, module) = ColumnParallelLinear(q, Rows, QLoraRank, n)
      <4>1. net.kind # "Absorbed"
        BY <1>6, <2>4
      <4> QED
        BY <2>4, <4>1 DEF LatentProjections
    <3> QED
      BY <2>1, <3>1, LinearAgrees DEF ColumnParallelLinear
  <2>5. CASE module = "attn_o_proj"
    BY <2>1, <2>5, LinearAgrees
    DEF LatentProjections, RowParallelLinear, BatchedRowParallelLinear, BatchedModule
  <2> QED
    BY <1>6, <2>2, <2>3, <2>4, <2>5
<1> QED
  BY <1>1, <1>2, <1>3, <1>4, <1>5, <1>6 DEF ProjectionsOf, Kinds

LEMMA CopiesFinal == LayerInductive => CopiesAgree
<1> DEFINE module == Modules[pc]
<1> SUFFICES ASSUME LayerInductive, InPass, module \notin HasOwnTime, NEW p \in Processors,
                    CASE module = "attention_gen" -> net.kind = "MHA" => layer % FullStride = 0
                      [] module = "attention_sum" ->
                           /\ ~(net.kind = "MLA" /\ net.flashAttention)
                           /\ net.kind = "MHA" => ProductsFit
                      [] module = "activation"    -> FALSE
                      [] OTHER -> net.kind = "Absorbed" =>
                                    module \notin {"attn_q_up_proj", "attn_qr_proj",
                                                   "attn_tr_k_up_proj", "attn_v_up_proj"}
             PROVE  ExecuteOn(p, module).flops = ExecuteOn("GPU", module).flops
  BY DEF CopiesAgree
<1>1. TypeOk /\ Places /\ net \in Nets /\ "GPU" \in Processors
  BY DEF LayerInductive, TypeOk, Processors
<1>2. module \in {"attention_sum", "attention_gen", "activation", "lm_head_col_linear"}
                   \union ProjectionsOf(net.kind)
  <2>1. CASE Modules = Decoder /\ pc \in 1 .. Len(Modules)
    BY <1>1, <2>1, ExecutedModules
  <2>2. CASE Modules = LmHead /\ pc = 1
    BY <2>2 DEF LmHead
  <2> QED
    BY <1>1, <2>1, <2>2, PassPlace
<1> HIDE DEF module
<1>3. CASE module = "attention_sum"
  BY <1>1, <1>3, ExecuteSum
<1>4. CASE module = "attention_gen"
  BY <1>1, <1>4, GenAgrees
<1>5. CASE module \notin {"attention_sum", "attention_gen"}
  BY <1>1, <1>2, <1>5, ProjectionsAgree
<1> QED
  BY <1>3, <1>4, <1>5

-----------------------------------------------------------------------------
(* Traffic charged for keys and values *)

\* What is charged covers k bytes of each of n keys.
Covers(x, k, n) ==
  /\ DOMAIN x = Fields /\ x.bytes \in Nat /\ x.reads \in Nat
  /\ k * n <= x.bytes /\ k * n <= x.reads

LEMMA PlusCovers ==
  ASSUME NEW n \in Nat, NEW i \in Nat, NEW j \in Nat,
         NEW x, Covers(x, i, n), NEW y, Covers(y, j, n)
  PROVE  Covers(Plus(x, y), i + j, n) /\ Covers(Grouped!Plus(x, y), i + j, n)
<1>1. /\ Plus(x, y).bytes = x.bytes + y.bytes /\ Grouped!Plus(x, y).bytes = x.bytes + y.bytes
      /\ Plus(x, y).reads = x.reads + y.reads /\ Grouped!Plus(x, y).reads = x.reads + y.reads
      /\ DOMAIN Plus(x, y) = Fields /\ DOMAIN Grouped!Plus(x, y) = Fields
  BY PlusFields DEF Covers, Fields
<1>2. (i + j) * n = i * n + j * n /\ i * n \in Nat /\ j * n \in Nat
  BY Distribute
<1> QED
  BY <1>1, <1>2 DEF Covers

\* A phase moves at least as many elements as the keys have.
LEMMA RooflineCovers ==
  ASSUME NEW n \in Nat, NEW k \in Nat, NEW e \in Nat, NEW r \in Nat, k * n <= e, k * n <= r,
         NEW p, NEW w, NEW q
  PROVE  /\ Covers(Roofline(p, w, e, r, q), k * Precision, n)
         /\ Covers(Grouped!Roofline(p, w, e, r, q), k * Precision, n)
<1>1. Precision \in Nat
  BY Dims
<1>2. k * n \in Nat /\ (k * Precision) * n = (k * n) * Precision
  BY <1>1
<1> DEFINE c == k * n
           d == (k * Precision) * n
<1>3. c \in Nat /\ d = c * Precision /\ c <= e /\ c <= r
  BY <1>2
<1>4. /\ Roofline(p, w, e, r, q).bytes = e * Precision
      /\ Roofline(p, w, e, r, q).reads = r * Precision
      /\ Grouped!Roofline(p, w, e, r, q).bytes = e * Precision
      /\ Grouped!Roofline(p, w, e, r, q).reads = r * Precision
      /\ DOMAIN Roofline(p, w, e, r, q) = Fields
      /\ DOMAIN Grouped!Roofline(p, w, e, r, q) = Fields
  BY DEF Roofline, Grouped!Roofline, Fields
<1> HIDE DEF c, d
<1>5. /\ c * Precision <= e * Precision /\ c * Precision <= r * Precision
      /\ e * Precision \in Nat /\ r * Precision \in Nat
  BY <1>1, <1>3
<1> QED
  BY <1>3, <1>4, <1>5 DEF Covers, d

LEMMA EachCovers ==
  ASSUME NEW b, BatchOk(b), NEW k \in Nat, NEW r, \A s \in DOMAIN b : Covers(r[s], k, b[s].n),
         NEW f, DOMAIN f = DOMAIN b, \A s \in DOMAIN b : f[s] = r[s].bytes,
         NEW g, DOMAIN g = DOMAIN b, \A s \in DOMAIN b : g[s] = r[s].reads,
         NEW x, DOMAIN x = Fields, x.bytes = SumFunction(f), x.reads = SumFunction(g)
  PROVE  Covers(x, k, Context(b))
<1> DEFINE h == [s \in DOMAIN b |-> b[s].n]
           l == [s \in DOMAIN b |-> k * b[s].n]
<1>1. NatOn(h, DOMAIN b) /\ Context(b) = SumFunction(h)
  BY SumParts
<1>2. ScaledOn(l, k, h, DOMAIN b) /\ DOMAIN l = DOMAIN b
  BY DEF ScaledOn
<1>3. NatOn(f, DOMAIN b) /\ NatOn(g, DOMAIN b)
  BY DEF NatOn, Covers, BatchOk
<1>4. NatOn(l, DOMAIN b)
  BY DEF NatOn, BatchOk
<1>5. BelowOn(l, f, DOMAIN b) /\ BelowOn(l, g, DOMAIN b)
  BY DEF BelowOn, Covers
<1> HIDE DEF h, l
<1>6. SumFunction(l) = k * Context(b)
  BY <1>1, <1>2, SumScaled
<1>7. /\ SumFunction(l) <= SumFunction(f) /\ SumFunction(l) <= SumFunction(g)
      /\ SumFunction(f) \in Nat /\ SumFunction(g) \in Nat
  BY <1>3, <1>4, <1>5, SumAtMost, NatSum
<1> QED
  BY <1>6, <1>7 DEF Covers

\* Elements of a row of d for each of n keys in h heads.
LEMMA Elements ==
  ASSUME NEW d \in Nat, NEW n \in Nat, NEW h \in Nat
  PROVE  /\ d * n * h = (d * h) * n /\ n * d * h = (d * h) * n /\ h * (d * n) = (d * h) * n
         /\ h * (n * d) = (d * h) * n /\ h * d * n = (d * h) * n /\ h * n * d = (d * h) * n
         /\ h * (d * n) \in Nat /\ h * n \in Nat
         /\ (d * h) * n \in Nat /\ d * h \in Nat
OBVIOUS

LEMMA Thrice ==
  ASSUME NEW h \in Nat, NEW x, x \in Nat, NEW y, y \in Nat, NEW z, z \in Nat
  PROVE  h * (x + y + z) = h * x + h * y + h * z
OBVIOUS

-----------------------------------------------------------------------------
(* Traffic charged for prompts *)

LEMMA GroupedPromptRead ==
  ASSUME NEW b, BatchOk(b), Tokens(b) # 0
  PROVE  LET i == (HeadDim * GroupedKvHeads) * Precision
         IN  /\ Covers(Grouped!AttentionSumGPU(b), i + (0 + i), Context(b))
             /\ Covers(Grouped!AttentionSumLogic(b), i + (0 + i), Context(b))
<1> DEFINE i == (HeadDim * GroupedKvHeads) * Precision
           x == Grouped!PerSeq(b, Grouped!SumScoringGPU)
           y == Grouped!PerSeq(b, Grouped!SumSoftmaxGPU)
           z == Grouped!PerSeq(b, Grouped!SumContextGPU)
           u == Grouped!PerSeq(b, Grouped!SumScoringLogic)
           v == Grouped!PerSeq(b, Grouped!SumSoftmaxLogic)
           w == Grouped!PerSeq(b, Grouped!SumContextLogic)
<1> SUFFICES /\ Covers(Grouped!AttentionSumGPU(b), i + (0 + i), Context(b))
             /\ Covers(Grouped!AttentionSumLogic(b), i + (0 + i), Context(b))
  OBVIOUS
<1>1. /\ Grouped!AttentionSumGPU(b) = Grouped!Plus(x, Grouped!Plus(y, z))
      /\ Grouped!AttentionSumLogic(b) = Grouped!Plus(u, Grouped!Plus(v, w))
  BY GroupedSums DEF Grouped!AttentionSumGPU, Grouped!AttentionSumLogic, Grouped!IfPrompted
<1>2. i \in Nat /\ 0 * Precision = 0
  BY Dims
<1>3. ASSUME NEW s \in DOMAIN b
      PROVE  /\ Covers(Grouped!SumScoringGPU(b[s]), i, b[s].n)
             /\ Covers(Grouped!SumSoftmaxGPU(b[s]), 0, b[s].n)
             /\ Covers(Grouped!SumContextGPU(b[s]), i, b[s].n)
             /\ Covers(Grouped!SumScoringLogic(b[s]), i, b[s].n)
             /\ Covers(Grouped!SumSoftmaxLogic(b[s]), 0, b[s].n)
             /\ Covers(Grouped!SumContextLogic(b[s]), i, b[s].n)
  <2> DEFINE m == b[s].m
             n == b[s].n
             c == HeadDim * GroupedKvHeads
             q == m * HeadDim * NumHeads
             k == HeadDim * n * GroupedKvHeads
             g == n * HeadDim * GroupedKvHeads
             a == m * n * NumHeads
  <2>1. m \in Nat /\ n \in Nat
    BY DEF BatchOk
  <2>2. k = c * n /\ g = c * n /\ c * n \in Nat /\ c \in Nat /\ q \in Nat /\ a \in Nat
    BY <2>1, Dims, Elements
  <2>3. /\ Grouped!SumScoringGPU(b[s])
             = Grouped!Roofline("GPU", 2 * m * HeadDim * n * NumHeads, q + k + a, q + k, a)
        /\ Grouped!SumSoftmaxGPU(b[s])
             = Grouped!Roofline("GPU", 7 * m * n * NumHeads, 0, a, a)
        /\ Grouped!SumContextGPU(b[s])
             = Grouped!Roofline("GPU", 2 * m * HeadDim * n * NumHeads, a + g + q, a + g, q)
        /\ Grouped!SumScoringLogic(b[s])
             = Grouped!Roofline("LOGIC", 2 * Grouped!AsInt(Grouped!ChunkProduct(b[s])) * NumHeads,
                                q + k, q + k, 0)
        /\ Grouped!SumSoftmaxLogic(b[s])
             = Grouped!Roofline("LOGIC", 7 * m * n * NumHeads, 0, 0, 0)
        /\ Grouped!SumContextLogic(b[s])
             = Grouped!Roofline("LOGIC", 2 * Grouped!AsInt(Grouped!ChunkProduct(b[s])) * NumHeads,
                                g, g, 0)
    BY DEF Grouped!SumScoringGPU, Grouped!SumSoftmaxGPU, Grouped!SumContextGPU,
       Grouped!SumScoringLogic, Grouped!SumSoftmaxLogic, Grouped!SumContextLogic, Grouped!Compute
  <2> HIDE DEF m, q, k, g, a, c, n
  <2>4. /\ c * n <= q + k + a /\ q + k + a \in Nat /\ c * n <= q + k /\ q + k \in Nat
        /\ c * n <= a + g + q /\ a + g + q \in Nat /\ c * n <= a + g /\ a + g \in Nat
        /\ c * n <= g /\ g \in Nat /\ 0 * n <= 0 /\ 0 * n <= a
    BY <2>1, <2>2
  <2>5. i = c * Precision
    BY DEF c
  <2> HIDE DEF i
  <2>6. /\ Covers(Grouped!SumScoringGPU(b[s]), i, n)
        /\ Covers(Grouped!SumContextGPU(b[s]), i, n)
        /\ Covers(Grouped!SumScoringLogic(b[s]), i, n)
        /\ Covers(Grouped!SumContextLogic(b[s]), i, n)
    BY <2>1, <2>2, <2>3, <2>4, <2>5, RooflineCovers
  <2>7. /\ Covers(Grouped!SumSoftmaxGPU(b[s]), 0 * Precision, n)
        /\ Covers(Grouped!SumSoftmaxLogic(b[s]), 0 * Precision, n)
    BY <2>1, <2>2, <2>3, <2>4, RooflineCovers
  <2> QED
    BY <1>2, <2>6, <2>7 DEF n
<1>4. \A e : Grouped!SumFunction(e) = SumFunction(e)
  BY GroupedSum
<1> HIDE DEF i
<1>5. Covers(x, i, Context(b))
  <2> DEFINE r == [s \in DOMAIN b |-> Grouped!SumScoringGPU(b[s])]
             f == [s \in DOMAIN b |-> Grouped!SumScoringGPU(b[s]).bytes]
             g == [s \in DOMAIN b |-> Grouped!SumScoringGPU(b[s]).reads]
  <2>1. DOMAIN x = Fields /\ x.bytes = SumFunction(f) /\ x.reads = SumFunction(g)
    BY <1>4 DEF Grouped!PerSeq, Grouped!Nothing, Grouped!Total, Fields
  <2>2. \A s \in DOMAIN b : Covers(r[s], i, b[s].n) /\ f[s] = r[s].bytes /\ g[s] = r[s].reads
    BY <1>3
  <2>3. DOMAIN f = DOMAIN b /\ DOMAIN g = DOMAIN b
    OBVIOUS
  <2> HIDE DEF r, f, g, x
  <2> QED
    BY <1>2, <2>1, <2>2, <2>3, EachCovers
<1>6. Covers(y, 0, Context(b))
  <2> DEFINE r == [s \in DOMAIN b |-> Grouped!SumSoftmaxGPU(b[s])]
             f == [s \in DOMAIN b |-> Grouped!SumSoftmaxGPU(b[s]).bytes]
             g == [s \in DOMAIN b |-> Grouped!SumSoftmaxGPU(b[s]).reads]
  <2>1. DOMAIN y = Fields /\ y.bytes = SumFunction(f) /\ y.reads = SumFunction(g)
    BY <1>4 DEF Grouped!PerSeq, Grouped!Nothing, Grouped!Total, Fields
  <2>2. \A s \in DOMAIN b : Covers(r[s], 0, b[s].n) /\ f[s] = r[s].bytes /\ g[s] = r[s].reads
    BY <1>3
  <2>3. DOMAIN f = DOMAIN b /\ DOMAIN g = DOMAIN b
    OBVIOUS
  <2> HIDE DEF r, f, g, y
  <2> QED
    BY <1>2, <2>1, <2>2, <2>3, EachCovers
<1>7. Covers(z, i, Context(b))
  <2> DEFINE r == [s \in DOMAIN b |-> Grouped!SumContextGPU(b[s])]
             f == [s \in DOMAIN b |-> Grouped!SumContextGPU(b[s]).bytes]
             g == [s \in DOMAIN b |-> Grouped!SumContextGPU(b[s]).reads]
  <2>1. DOMAIN z = Fields /\ z.bytes = SumFunction(f) /\ z.reads = SumFunction(g)
    BY <1>4 DEF Grouped!PerSeq, Grouped!Nothing, Grouped!Total, Fields
  <2>2. \A s \in DOMAIN b : Covers(r[s], i, b[s].n) /\ f[s] = r[s].bytes /\ g[s] = r[s].reads
    BY <1>3
  <2>3. DOMAIN f = DOMAIN b /\ DOMAIN g = DOMAIN b
    OBVIOUS
  <2> HIDE DEF r, f, g, z
  <2> QED
    BY <1>2, <2>1, <2>2, <2>3, EachCovers
<1>8. Covers(u, i, Context(b))
  <2> DEFINE r == [s \in DOMAIN b |-> Grouped!SumScoringLogic(b[s])]
             f == [s \in DOMAIN b |-> Grouped!SumScoringLogic(b[s]).bytes]
             g == [s \in DOMAIN b |-> Grouped!SumScoringLogic(b[s]).reads]
  <2>1. DOMAIN u = Fields /\ u.bytes = SumFunction(f) /\ u.reads = SumFunction(g)
    BY <1>4 DEF Grouped!PerSeq, Grouped!Nothing, Grouped!Total, Fields
  <2>2. \A s \in DOMAIN b : Covers(r[s], i, b[s].n) /\ f[s] = r[s].bytes /\ g[s] = r[s].reads
    BY <1>3
  <2>3. DOMAIN f = DOMAIN b /\ DOMAIN g = DOMAIN b
    OBVIOUS
  <2> HIDE DEF r, f, g, u
  <2> QED
    BY <1>2, <2>1, <2>2, <2>3, EachCovers
<1>9. Covers(v, 0, Context(b))
  <2> DEFINE r == [s \in DOMAIN b |-> Grouped!SumSoftmaxLogic(b[s])]
             f == [s \in DOMAIN b |-> Grouped!SumSoftmaxLogic(b[s]).bytes]
             g == [s \in DOMAIN b |-> Grouped!SumSoftmaxLogic(b[s]).reads]
  <2>1. DOMAIN v = Fields /\ v.bytes = SumFunction(f) /\ v.reads = SumFunction(g)
    BY <1>4 DEF Grouped!PerSeq, Grouped!Nothing, Grouped!Total, Fields
  <2>2. \A s \in DOMAIN b : Covers(r[s], 0, b[s].n) /\ f[s] = r[s].bytes /\ g[s] = r[s].reads
    BY <1>3
  <2>3. DOMAIN f = DOMAIN b /\ DOMAIN g = DOMAIN b
    OBVIOUS
  <2> HIDE DEF r, f, g, v
  <2> QED
    BY <1>2, <2>1, <2>2, <2>3, EachCovers
<1>10. Covers(w, i, Context(b))
  <2> DEFINE r == [s \in DOMAIN b |-> Grouped!SumContextLogic(b[s])]
             f == [s \in DOMAIN b |-> Grouped!SumContextLogic(b[s]).bytes]
             g == [s \in DOMAIN b |-> Grouped!SumContextLogic(b[s]).reads]
  <2>1. DOMAIN w = Fields /\ w.bytes = SumFunction(f) /\ w.reads = SumFunction(g)
    BY <1>4 DEF Grouped!PerSeq, Grouped!Nothing, Grouped!Total, Fields
  <2>2. \A s \in DOMAIN b : Covers(r[s], i, b[s].n) /\ f[s] = r[s].bytes /\ g[s] = r[s].reads
    BY <1>3
  <2>3. DOMAIN f = DOMAIN b /\ DOMAIN g = DOMAIN b
    OBVIOUS
  <2> HIDE DEF r, f, g, w
  <2> QED
    BY <1>2, <2>1, <2>2, <2>3, EachCovers
<1>11. Context(b) \in Nat
  BY SumParts
<1> HIDE DEF x, y, z, u, v, w
<1>12. Covers(Grouped!Plus(y, z), 0 + i, Context(b)) /\ Covers(Grouped!Plus(v, w), 0 + i, Context(b))
  BY <1>2, <1>6, <1>7, <1>9, <1>10, <1>11, PlusCovers
<1>13. 0 + i \in Nat
  BY <1>2
<1> QED
  BY <1>1, <1>2, <1>5, <1>8, <1>11, <1>12, <1>13, PlusCovers

LEMMA LatentPromptRead ==
  ASSUME NEW b, BatchOk(b), Tokens(b) # 0, NEW p \in Processors
  PROVE  LET i == (QkHeadDim * NumHeads) * Precision
             j == (HeadDim * NumHeads) * Precision
         IN  Covers(MLASum(p, FALSE, b), i + (0 + j), Context(b))
<1> DEFINE i == (QkHeadDim * NumHeads) * Precision
           j == (HeadDim * NumHeads) * Precision
           x == PerSeq(b, MLASumScoring)
           y == PerSeq(b, MLASumSoftmax)
           z == PerSeq(b, MLASumContext)
<1> SUFFICES Covers(MLASum(p, FALSE, b), i + (0 + j), Context(b))
  OBVIOUS
<1>1. MLASum(p, FALSE, b) = Plus(x, Plus(y, z))
  BY DEF MLASum, IfPrompted, MLASumStandard, Processors, MLASumScoringGPU,
     MLASumSoftmaxGPU, MLASumContextGPU, MLASumScoringLogic, MLASumSoftmaxLogic,
     MLASumContextLogic, MLASumScoringPIM, MLASumSoftmaxPIM, MLASumContextPIM
<1>2. i \in Nat /\ j \in Nat /\ 0 * Precision = 0
  BY Dims
<1>3. ASSUME NEW s \in DOMAIN b
      PROVE  /\ Covers(MLASumScoring(b[s]), i, b[s].n)
             /\ Covers(MLASumSoftmax(b[s]), 0, b[s].n)
             /\ Covers(MLASumContext(b[s]), j, b[s].n)
  <2> DEFINE m == b[s].m
             n == b[s].n
             c == QkHeadDim * NumHeads
             d == HeadDim * NumHeads
             q == m * QkHeadDim * NumHeads
             o == m * HeadDim * NumHeads
             a == m * n * NumHeads
             e1 == NumHeads * (m * QkHeadDim + QkHeadDim * n + m * n)
             e3 == NumHeads * (m * n + n * HeadDim + m * HeadDim)
             r1 == q + QkHeadDim * n * NumKvHeads
             r3 == a + n * HeadDim * NumKvHeads
  <2>1. m \in Nat /\ n \in Nat
    BY DEF BatchOk
  <2>2. /\ c * n \in Nat /\ c \in Nat /\ d * n \in Nat /\ d \in Nat /\ q \in Nat
        /\ o \in Nat /\ a \in Nat /\ 2 * a \in Nat
        /\ QkHeadDim * n * NumKvHeads = c * n /\ n * HeadDim * NumKvHeads = d * n
    BY <2>1, Dims, Elements
  <2>3. e1 = q + c * n + a /\ e3 = a + d * n + o
    <3> DEFINE u1 == m * QkHeadDim
               u2 == QkHeadDim * n
               u3 == m * n
               u4 == n * HeadDim
               u5 == m * HeadDim
    <3>1. u1 \in Nat /\ u2 \in Nat /\ u3 \in Nat /\ u4 \in Nat /\ u5 \in Nat
      BY <2>1, Dims
    <3>2. /\ NumHeads * u1 = q /\ NumHeads * u2 = c * n
          /\ NumHeads * u3 = a /\ NumHeads * u4 = d * n
          /\ NumHeads * u5 = o
      BY <2>1, Dims, Elements
    <3>3. e1 = NumHeads * (u1 + u2 + u3) /\ e3 = NumHeads * (u3 + u4 + u5)
      OBVIOUS
    <3> HIDE DEF u1, u2, u3, u4, u5, q, c, d, a, o, e1, e3
    <3>4. /\ NumHeads * (u1 + u2 + u3) = NumHeads * u1 + NumHeads * u2 + NumHeads * u3
          /\ NumHeads * (u3 + u4 + u5) = NumHeads * u3 + NumHeads * u4 + NumHeads * u5
      BY <3>1, Dims, Thrice
    <3> QED
      BY <3>2, <3>3, <3>4
  <2>4. /\ MLASumScoring(b[s])
             = Roofline("GPU", 2 * m * QkHeadDim * n * NumHeads, e1, r1, a)
        /\ MLASumSoftmax(b[s])
             = Roofline("GPU", 7 * m * n * NumHeads, 2 * m * n * NumHeads, a, a)
        /\ MLASumContext(b[s])
             = Roofline("GPU", 2 * m * HeadDim * n * NumHeads, e3, r3, o)
    BY DEF MLASumScoring, MLASumSoftmax, MLASumContext
  <2>5. 2 * m * n * NumHeads \in Nat
    BY <2>1, Dims
  <2> DEFINE t == 2 * m * n * NumHeads
  <2>6. r1 = q + c * n /\ r3 = a + d * n /\ i = c * Precision /\ j = d * Precision
    BY <2>2
  <2> HIDE DEF m, n, c, d, q, o, a, e1, e3, r1, r3, t
  <2>7. /\ c * n <= e1 /\ e1 \in Nat /\ d * n <= e3 /\ e3 \in Nat
        /\ c * n <= r1 /\ r1 \in Nat /\ d * n <= r3 /\ r3 \in Nat
        /\ t \in Nat /\ 0 * n = 0 /\ 0 * n <= t /\ 0 * n <= a
    BY <2>1, <2>2, <2>3, <2>5, <2>6 DEF t
  <2> HIDE DEF i, j
  <2>8. /\ Covers(MLASumScoring(b[s]), c * Precision, n)
        /\ Covers(MLASumContext(b[s]), d * Precision, n)
    BY <2>1, <2>2, <2>4, <2>7, RooflineCovers
  <2>9. Covers(MLASumSoftmax(b[s]), 0 * Precision, n)
    BY <2>1, <2>2, <2>4, <2>7, RooflineCovers DEF t
  <2> QED
    BY <1>2, <2>6, <2>8, <2>9 DEF n
<1> HIDE DEF i, j
<1>4. Covers(x, i, Context(b))
  <2> DEFINE r == [s \in DOMAIN b |-> MLASumScoring(b[s])]
             f == [s \in DOMAIN b |-> MLASumScoring(b[s]).bytes]
             g == [s \in DOMAIN b |-> MLASumScoring(b[s]).reads]
  <2>1. DOMAIN x = Fields /\ x.bytes = SumFunction(f) /\ x.reads = SumFunction(g)
    BY DEF PerSeq, Nothing, Total, Fields
  <2>2. \A s \in DOMAIN b : Covers(r[s], i, b[s].n) /\ f[s] = r[s].bytes /\ g[s] = r[s].reads
    BY <1>3
  <2>3. DOMAIN f = DOMAIN b /\ DOMAIN g = DOMAIN b
    OBVIOUS
  <2> HIDE DEF r, f, g, x
  <2> QED
    BY <1>2, <2>1, <2>2, <2>3, EachCovers
<1>5. Covers(y, 0, Context(b))
  <2> DEFINE r == [s \in DOMAIN b |-> MLASumSoftmax(b[s])]
             f == [s \in DOMAIN b |-> MLASumSoftmax(b[s]).bytes]
             g == [s \in DOMAIN b |-> MLASumSoftmax(b[s]).reads]
  <2>1. DOMAIN y = Fields /\ y.bytes = SumFunction(f) /\ y.reads = SumFunction(g)
    BY DEF PerSeq, Nothing, Total, Fields
  <2>2. \A s \in DOMAIN b : Covers(r[s], 0, b[s].n) /\ f[s] = r[s].bytes /\ g[s] = r[s].reads
    BY <1>3
  <2>3. DOMAIN f = DOMAIN b /\ DOMAIN g = DOMAIN b
    OBVIOUS
  <2> HIDE DEF r, f, g, y
  <2> QED
    BY <1>2, <2>1, <2>2, <2>3, EachCovers
<1>6. Covers(z, j, Context(b))
  <2> DEFINE r == [s \in DOMAIN b |-> MLASumContext(b[s])]
             f == [s \in DOMAIN b |-> MLASumContext(b[s]).bytes]
             g == [s \in DOMAIN b |-> MLASumContext(b[s]).reads]
  <2>1. DOMAIN z = Fields /\ z.bytes = SumFunction(f) /\ z.reads = SumFunction(g)
    BY DEF PerSeq, Nothing, Total, Fields
  <2>2. \A s \in DOMAIN b : Covers(r[s], j, b[s].n) /\ f[s] = r[s].bytes /\ g[s] = r[s].reads
    BY <1>3
  <2>3. DOMAIN f = DOMAIN b /\ DOMAIN g = DOMAIN b
    OBVIOUS
  <2> HIDE DEF r, f, g, z
  <2> QED
    BY <1>2, <2>1, <2>2, <2>3, EachCovers
<1>7. Context(b) \in Nat
  BY SumParts
<1>9. 0 + j \in Nat
  BY <1>2
<1> HIDE DEF x, y, z
<1>8. Covers(Plus(y, z), 0 + j, Context(b))
  BY <1>2, <1>5, <1>6, <1>7, PlusCovers
<1> QED
  BY <1>1, <1>2, <1>4, <1>7, <1>8, <1>9, PlusCovers

\* Not on the PIM units, whose requests have one column.
LEMMA AbsorbedPromptRead ==
  ASSUME NEW b, BatchOk(b), Tokens(b) # 0, NEW p \in {"GPU", "LOGIC"}
  PROVE  LET i == KvLoraRank * Precision
             j == QkRopeHeadDim * Precision
         IN  Covers(AbsorbMLASum(p, b), i + (j + (0 + 0)), Context(b))
<1> DEFINE i == KvLoraRank * Precision
           j == QkRopeHeadDim * Precision
           x == AbsorbMLASum(p, b)
<1> SUFFICES Covers(x, i + (j + (0 + 0)), Context(b))
  OBVIOUS
<1>1. x = PerSeq(b, LAMBDA s : AbsorbSumOf(p, s))
  BY DEF AbsorbMLASum, IfPrompted
<1>2. i \in Nat /\ j \in Nat /\ 0 * Precision = 0 /\ i + (j + (0 + 0)) \in Nat
      /\ j + (0 + 0) \in Nat /\ 0 + 0 \in Nat
  BY Dims
<1>3. ASSUME NEW s \in DOMAIN b
      PROVE  Covers(AbsorbSumOf(p, b[s]), i + (j + (0 + 0)), b[s].n)
  <2> DEFINE m == b[s].m
             n == b[s].n
             q == m * KvLoraRank * NumHeads
             o == m * QkRopeHeadDim * NumHeads
             a == m * n * NumHeads
             k == KvLoraRank * n
             g == QkRopeHeadDim * n
             h == n * KvLoraRank
             w == 2 * m * KvLoraRank * n * NumHeads
             v == 2 * m * QkRopeHeadDim * n * NumHeads
             c1 == IF p = "GPU" THEN AbsorbSumNoPEGPU(b[s]) ELSE AbsorbSumNoPELogic(b[s])
             c2 == IF p = "GPU" THEN AbsorbSumRoPEGPU(b[s]) ELSE AbsorbSumRoPELogic(b[s])
             c3 == IF p = "GPU" THEN AbsorbSumSoftmaxGPU(b[s]) ELSE AbsorbSumSoftmaxLogic(b[s])
             c4 == IF p = "GPU" THEN AbsorbSumContextGPU(b[s]) ELSE AbsorbSumContextLogic(b[s])
  <2>1. m \in Nat /\ n \in Nat
    BY DEF BatchOk
  <2>2. q \in Nat /\ o \in Nat /\ a \in Nat /\ k \in Nat /\ g \in Nat /\ h \in Nat
        /\ 2 * a \in Nat
    BY <2>1, Dims
  <2>3. AbsorbSumOf(p, b[s]) = Plus(c1, Plus(c2, Plus(c3, c4)))
    BY DEF AbsorbSumOf
  <2>4. \E e : c1 = Roofline(p, w, q + k + a, q + k, e)
    BY DEF AbsorbSumNoPEGPU, AbsorbSumNoPELogic, AbsorbSumScoring, ScoringReads
  <2>5. \E e : c2 = Roofline(p, v, o + g + a, o + g, e)
    BY DEF AbsorbSumRoPEGPU, AbsorbSumRoPELogic, AbsorbSumScoring, ScoringReads
  <2>6. \E e : c4 = Roofline(p, w, a + h + q, a + h, e)
    BY DEF AbsorbSumContextGPU, AbsorbSumContextLogic, AbsorbSumContext, Scores
  <2>7. /\ DOMAIN c3 = Fields /\ c3.bytes = 2 * a * Precision
        /\ c3.reads = a * Precision \/ c3.reads = 0 * Precision
    BY DEF AbsorbSumSoftmaxGPU, AbsorbSumSoftmaxLogic, Scores, Compute, Roofline, Fields
  <2>8. i = KvLoraRank * Precision /\ j = QkRopeHeadDim * Precision
        /\ KvLoraRank \in Nat /\ QkRopeHeadDim \in Nat
    BY Dims
  <2>9. /\ KvLoraRank * n <= q + k + a /\ KvLoraRank * n <= q + k
        /\ QkRopeHeadDim * n <= o + g + a /\ QkRopeHeadDim * n <= o + g
    BY <2>2
  <2>10. 0 * n = 0 /\ 2 * a * Precision \in Nat /\ a * Precision \in Nat
    <3> HIDE DEF a, n
    <3> QED
      BY <2>1, <2>2, Dims
  <2>11. a + h + q \in Nat /\ a + h \in Nat /\ 0 <= a + h + q /\ 0 <= a + h
         /\ q + k + a \in Nat /\ q + k \in Nat /\ o + g + a \in Nat /\ o + g \in Nat
    BY <2>2
  <2> HIDE DEF m, n, q, o, a, k, g, h, w, v, c1, c2, c3, c4
  <2>12. Covers(c1, KvLoraRank * Precision, n) /\ Covers(c2, QkRopeHeadDim * Precision, n)
    BY <2>1, <2>4, <2>5, <2>8, <2>9, <2>11, RooflineCovers
  <2>13. Covers(c4, 0 * Precision, n)
    BY <2>1, <2>6, <2>10, <2>11, RooflineCovers
  <2>14. Covers(c3, 0, n)
    BY <1>2, <2>7, <2>10 DEF Covers
  <2> HIDE DEF i, j
  <2>15. Covers(Plus(c3, c4), 0 + 0, n)
    BY <1>2, <2>1, <2>13, <2>14, PlusCovers
  <2>16. Covers(Plus(c2, Plus(c3, c4)), j + (0 + 0), n)
    BY <1>2, <2>1, <2>8, <2>12, <2>15, PlusCovers
  <2>17. Covers(Plus(c1, Plus(c2, Plus(c3, c4))), i + (j + (0 + 0)), n)
    BY <1>2, <2>1, <2>8, <2>12, <2>16, PlusCovers
  <2> QED
    BY <2>3, <2>17 DEF n
<1> DEFINE l == i + (j + (0 + 0))
<1>4. l \in Nat /\ \A s \in DOMAIN b : Covers(AbsorbSumOf(p, b[s]), l, b[s].n)
  BY <1>2, <1>3
<1> HIDE DEF l
<1>5. Covers(x, l, Context(b))
  <2> DEFINE r == [s \in DOMAIN b |-> AbsorbSumOf(p, b[s])]
             f == [s \in DOMAIN b |-> AbsorbSumOf(p, b[s]).bytes]
             g == [s \in DOMAIN b |-> AbsorbSumOf(p, b[s]).reads]
  <2>1. DOMAIN x = Fields /\ x.bytes = SumFunction(f) /\ x.reads = SumFunction(g)
    BY <1>1 DEF PerSeq, Nothing, Total, Fields
  <2>2. \A s \in DOMAIN b : Covers(r[s], l, b[s].n) /\ f[s] = r[s].bytes /\ g[s] = r[s].reads
    BY <1>4
  <2>3. DOMAIN f = DOMAIN b /\ DOMAIN g = DOMAIN b
    OBVIOUS
  <2> HIDE DEF r, f, g, x
  <2> QED
    BY <1>4, <2>1, <2>2, <2>3, EachCovers
<1> QED
  BY <1>5 DEF l

-----------------------------------------------------------------------------
(* Traffic charged for outputs *)

\* Rows of d for c keys in h heads are among what is moved for t tokens.
LEMMA Moved ==
  ASSUME NEW h \in Nat, NEW d \in Nat, NEW t \in Nat, NEW c \in Nat, NEW p \in Nat,
         NEW e \in Nat
  PROVE  /\ h * d * (t + c) \in Nat /\ (d * h) * c <= h * d * (t + c)
         /\ h * (d * (t + c) + p) \in Nat /\ (d * h) * c <= h * (d * (t + c) + p)
         /\ h * (t * e + c * d) \in Nat /\ (d * h) * c <= h * (t * e + c * d)
         /\ h * c * (1 + d) \in Nat /\ (d * h) * c <= h * c * (1 + d)
<1>1. h * d * (t + c) = h * d * t + (d * h) * c
  OBVIOUS
<1>2. h * (d * (t + c) + p) = h * d * t + (d * h) * c + h * p
  <2>1. d * (t + c) + p = d * t + d * c + p /\ d * t \in Nat /\ d * c \in Nat
    OBVIOUS
  <2>2. h * (d * t + d * c + p) = h * (d * t) + h * (d * c) + h * p
    BY <2>1, Thrice
  <2>3. h * (d * t) = h * d * t /\ h * (d * c) = (d * h) * c
    OBVIOUS
  <2> QED
    BY <2>1, <2>2, <2>3
<1>3. h * (t * e + c * d) = h * (t * e) + (d * h) * c
  OBVIOUS
<1>4. h * c * (1 + d) = h * c + (d * h) * c
  OBVIOUS
<1>5. /\ h * d * t \in Nat /\ (d * h) * c \in Nat /\ h * p \in Nat /\ h * (t * e) \in Nat
      /\ h * c \in Nat
  OBVIOUS
<1> QED
  BY <1>1, <1>2, <1>3, <1>4, <1>5

\* Rows padded to a multiple of four are no fewer.
LEMMA PaddedRows ==
  ASSUME NEW b, BatchOk(b)
  PROVE  Grouped!Padded(b) \in Nat /\ Context(b) <= Grouped!Padded(b)
<1> DEFINE f == [s \in DOMAIN b |-> b[s].n]
           h == [s \in DOMAIN b |-> 4 * ((b[s].n + 3) \div 4)]
<1>1. NatOn(f, DOMAIN b) /\ Context(b) = SumFunction(f)
  BY SumParts
<1>2. Grouped!Padded(b) = SumFunction(h)
  BY GroupedSum DEF Grouped!Padded, Grouped!Total
<1>3. \A s \in DOMAIN b : h[s] \in Nat /\ f[s] <= h[s]
  BY DEF BatchOk
<1>4. NatOn(h, DOMAIN b) /\ BelowOn(f, h, DOMAIN b)
  BY <1>3 DEF NatOn, BelowOn, BatchOk
<1> HIDE DEF f, h
<1> QED
  BY <1>1, <1>2, <1>4, SumAtMost, NatSum

LEMMA GroupedGenRead ==
  ASSUME NEW b, BatchOk(b), Tokens(b) # 0, NEW l \in Nat
  PROVE  LET i == (HeadDim * GroupedKvHeads) * Precision
         IN  /\ Covers(Grouped!AttentionGenGPU(l, TRUE, b), i + i, Context(Clamped(l, b)))
             /\ Covers(Grouped!AttentionGenLogic(b), i + i, Context(b))
             /\ Covers(Grouped!AttentionGenPIM(b), i + i, Context(b))
<1> DEFINE c == Clamped(l, b)
           k == HeadDim * GroupedKvHeads
           i == k * Precision
           st == 2 * HeadDim * GroupedKvHeads
           to == 2 * HeadDim * NumHeads
           n == Context(c)
           t == Total(c, LAMBDA s : s.m * to + s.m * s.n * 0)
           x == Grouped!AttentionGenGPU(l, TRUE, b)
<1> SUFFICES /\ Covers(x, i + i, n)
             /\ Covers(Grouped!AttentionGenLogic(b), i + i, Context(b))
             /\ Covers(Grouped!AttentionGenPIM(b), i + i, Context(b))
  OBVIOUS
<1>1. k \in Nat /\ st \in Nat /\ to \in Nat /\ Precision \in Nat /\ st = k + k
  BY Dims
<1>2. BatchOk(c) /\ Grouped!Clamped(l, b) = c
  BY ClampedIs
<1>3. n \in Nat /\ Context(b) \in Nat
  BY <1>2, SumParts
<1>4. t \in Nat
  <2> DEFINE f == [s \in DOMAIN c |-> c[s].m * to + c[s].m * c[s].n * 0]
  <2>1. t = SumFunction(f)
    BY DEF Total
  <2> HIDE DEF c, to
  <2>2. \A s \in DOMAIN c : f[s] \in Nat
    BY <1>1, <1>2 DEF BatchOk
  <2>3. NatOn(f, DOMAIN c)
    BY <1>2, <2>2 DEF NatOn, BatchOk
  <2> HIDE DEF f
  <2> QED
    BY <2>1, <2>3, NatSum
<1>5. DOMAIN x = Fields /\ x.bytes = (n * st + t) * Precision /\ x.reads = n * st * Precision
  BY <1>2, GroupedSums, GroupedSum DEF Grouped!AttentionGenGPU, Grouped!IfGenerating,
     Grouped!GenFlashGPU, Grouped!CachePhase, Grouped!Total, Total, Fields
<1>6. Covers(x, i + i, n)
  <2>1. i + i = st * Precision /\ i + i \in Nat
    <3> HIDE DEF k, st
    <3> QED
      BY <1>1, Distribute
  <2> HIDE DEF i, st, n, t, x
  <2>2. (st * Precision) * n = n * st * Precision /\ n * st * Precision \in Nat
    BY <1>1, <1>3
  <2>3. (n * st + t) * Precision = n * st * Precision + t * Precision /\ t * Precision \in Nat
    BY <1>1, <1>3, <1>4
  <2> QED
    BY <1>5, <2>1, <2>2, <2>3 DEF Covers
<1> DEFINE q == Context(b)
           d == Grouped!Padded(b)
           w == 2 * HeadDim * NumHeads * Pairs(b)
           y == Grouped!Roofline("LOGIC", w, q * HeadDim * GroupedKvHeads,
                                 d * HeadDim * GroupedKvHeads, 0)
           z == Grouped!GenScoringPIM(b)
           v == Grouped!GenContextPIM(b)
<1>7. /\ Grouped!AttentionGenLogic(b) = Grouped!Plus(y, y)
      /\ Grouped!AttentionGenPIM(b) = Grouped!Plus(z, v)
  BY GroupedSums DEF Grouped!AttentionGenLogic, Grouped!AttentionGenPIM, Grouped!IfGenerating,
     Grouped!GenScoringLogic, Grouped!GenContextLogic
<1>8. Covers(y, i, q)
  <2>1. d \in Nat /\ q <= d /\ q \in Nat
    BY <1>3, PaddedRows
  <2>2. q * HeadDim * GroupedKvHeads = k * q /\ d * HeadDim * GroupedKvHeads = k * d
    <3> HIDE DEF q, d
    <3> QED
      BY <2>1, Dims, Elements
  <2> HIDE DEF q, d, k, w
  <2>3. k * q <= k * d /\ k * q \in Nat /\ k * d \in Nat
    BY <1>1, <2>1, MoreForMore
  <2> QED
    BY <1>1, <2>1, <2>2, <2>3, RooflineCovers DEF i
<1>9. /\ DOMAIN z = DOMAIN y /\ z.bytes = y.bytes /\ z.reads = y.reads
      /\ DOMAIN v = DOMAIN y /\ v.bytes = y.bytes /\ v.reads = y.reads
  <2>1. /\ z = [y EXCEPT !.time = w * ByteTime["PIM"]]
        /\ v = [y EXCEPT !.time = w * ByteTime["PIM"]]
    BY GroupedSums DEF Grouped!GenScoringPIM, Grouped!GenContextPIM, Grouped!GenScoringLogic,
       Grouped!GenContextLogic
  <2> HIDE DEF y, z, v, w
  <2> QED
    BY <2>1
<1>10. i \in Nat
  BY <1>1
<1> HIDE DEF y, z, v, i, q
<1>11. Covers(z, i, q) /\ Covers(v, i, q)
  BY <1>8, <1>9 DEF Covers
<1> QED
  BY <1>3, <1>6, <1>7, <1>8, <1>10, <1>11, PlusCovers DEF q

LEMMA LatentGenRead ==
  ASSUME NEW b, BatchOk(b), Tokens(b) # 0, NEW p \in Processors
  PROVE  LET i == (QkHeadDim * NumHeads) * Precision
             j == (HeadDim * NumHeads) * Precision
         IN  /\ Covers(MLAGen(p, FALSE, b), i + (0 + j), Context(b))
             /\ Covers(MLAGen(p, TRUE, b), ((QkHeadDim + HeadDim) * NumHeads) * Precision,
                       Context(b))
<1> DEFINE c == QkHeadDim * NumHeads
           d == HeadDim * NumHeads
           row == QkHeadDim + HeadDim
           i == c * Precision
           j == d * Precision
           n == Context(b)
           t == Tokens(b)
           q == Pairs(b)
           u == Size(b)
           x == MLAScoring(p, b)
           y == MLASoftmax(p, b)
           z == MLAContext(p, b)
<1> SUFFICES /\ Covers(MLAGen(p, FALSE, b), i + (0 + j), n)
             /\ Covers(MLAGen(p, TRUE, b), (row * NumHeads) * Precision, n)
  OBVIOUS
<1>1. MLAGen(p, TRUE, b) = MLAFlash(p, b)
  BY DEF MLAGen, IfGenerating, MLAGenFlash, Processors, MLAGenFlashGPU, MLAGenFlashLogic,
     MLAGenFlashPIM
<1>2. MLAGen(p, FALSE, b) = Plus(x, Plus(y, z))
  BY DEF MLAGen, IfGenerating, MLAGenStandard, Processors, MLAGenScoringGPU,
     MLAGenSoftmaxGPU, MLAGenContextGPU, MLAGenScoringLogic, MLAGenSoftmaxLogic,
     MLAGenContextLogic, MLAGenScoringPIM, MLAGenSoftmaxPIM, MLAGenContextPIM
<1>3. n \in Nat /\ t \in Nat /\ q \in Nat /\ u \in Nat
  BY SumParts
<1>4. c \in Nat /\ d \in Nat /\ row \in Nat /\ row * NumHeads \in Nat /\ Precision \in Nat
      /\ i \in Nat /\ j \in Nat /\ 0 * Precision = 0 /\ 0 + j = j
  BY Dims
<1>5. /\ x = Roofline(p, 2 * QkHeadDim * NumHeads * q,
                      NumHeads * (QkHeadDim * (t + n) + q), NumHeads * QkHeadDim * (u + n),
                      NumHeads * n)
      /\ z = Roofline(p, 2 * HeadDim * NumHeads * q,
                      NumHeads * (HeadDim * (t + n) + q), NumHeads * n * (1 + HeadDim),
                      NumHeads * u * HeadDim)
      /\ MLAFlash(p, b) = Roofline(p, 2 * row * NumHeads * q, NumHeads * row * (t + n),
                                   NumHeads * (u * QkHeadDim + n * row), NumHeads * u * HeadDim)
  BY DEF MLAScoring, MLAContext, MLAFlash
<1> HIDE DEF n, t, q, u
<1>6. Covers(MLAFlash(p, b), (row * NumHeads) * Precision, n)
  <2> DEFINE k == row * NumHeads
             e == NumHeads * row * (t + n)
             r == NumHeads * (u * QkHeadDim + n * row)
  <2>1. MLAFlash(p, b) = Roofline(p, 2 * row * NumHeads * q, e, r, NumHeads * u * HeadDim)
    BY <1>5
  <2> HIDE DEF row
  <2>2. e \in Nat /\ r \in Nat /\ k * n <= e /\ k * n <= r /\ k \in Nat
    BY <1>3, <1>4, Dims, Moved
  <2> HIDE DEF k, e, r
  <2>3. Covers(MLAFlash(p, b), k * Precision, n)
    BY <1>3, <2>1, <2>2, RooflineCovers
  <2> QED
    BY <2>3 DEF k
<1>7. Covers(x, i, n)
  <2>1. /\ NumHeads * (QkHeadDim * (t + n) + q) \in Nat
        /\ NumHeads * QkHeadDim * (u + n) \in Nat
        /\ c * n <= NumHeads * (QkHeadDim * (t + n) + q)
        /\ c * n <= NumHeads * QkHeadDim * (u + n)
    BY <1>3, Dims, Moved
  <2> HIDE DEF c
  <2> QED
    BY <1>3, <1>4, <1>5, <2>1, RooflineCovers
<1>8. Covers(z, j, n)
  <2>1. /\ NumHeads * (HeadDim * (t + n) + q) \in Nat /\ NumHeads * n * (1 + HeadDim) \in Nat
        /\ d * n <= NumHeads * (HeadDim * (t + n) + q)
        /\ d * n <= NumHeads * n * (1 + HeadDim)
    BY <1>3, Dims, Moved
  <2> HIDE DEF d
  <2> QED
    BY <1>3, <1>4, <1>5, <2>1, RooflineCovers
<1>9. Covers(y, 0, Context(b))
  <2> DEFINE S(s) == [Roofline(p, 7 * s.m * s.n * NumHeads, 2 * s.m * s.n * NumHeads,
                               s.m * s.n * NumHeads, s.m * s.n * NumHeads)
                        EXCEPT !.bytes = 0]
             r == [s \in DOMAIN b |-> S(b[s])]
             f == [s \in DOMAIN b |-> S(b[s]).bytes]
             g == [s \in DOMAIN b |-> S(b[s]).reads]
  <2>1. DOMAIN y = Fields /\ y.bytes = SumFunction(f) /\ y.reads = SumFunction(g)
    BY DEF MLASoftmax, PerSeq, Nothing, Total, Fields
  <2>2. ASSUME NEW s \in DOMAIN b PROVE Covers(r[s], 0, b[s].n)
    <3> DEFINE a == b[s].m * b[s].n * NumHeads
    <3>1. a \in Nat /\ b[s].n \in Nat
      BY Dims DEF BatchOk
    <3>2. DOMAIN r[s] = Fields /\ r[s].bytes = 0 /\ r[s].reads = a * Precision
      BY DEF Roofline, Fields
    <3>3. 0 * b[s].n = 0
      BY <3>1
    <3> HIDE DEF a, r
    <3>4. a * Precision \in Nat
      BY <1>4, <3>1
    <3> QED
      BY <3>2, <3>3, <3>4 DEF Covers
  <2>3. /\ DOMAIN f = DOMAIN b /\ DOMAIN g = DOMAIN b
        /\ \A s \in DOMAIN b : f[s] = r[s].bytes /\ g[s] = r[s].reads
    OBVIOUS
  <2> HIDE DEF r, f, g, y
  <2> QED
    BY <2>1, <2>2, <2>3, EachCovers
<1> HIDE DEF x, y, z, i, j
<1>10. Covers(Plus(y, z), 0 + j, n)
  BY <1>3, <1>4, <1>8, <1>9, PlusCovers DEF n
<1>11. Covers(Plus(x, Plus(y, z)), i + (0 + j), n)
  BY <1>3, <1>4, <1>7, <1>10, PlusCovers
<1> QED
  BY <1>1, <1>2, <1>6, <1>11

LEMMA AbsorbedGenRead ==
  ASSUME NEW b, BatchOk(b), Tokens(b) # 0, NEW p \in Processors
  PROVE  LET i == KvLoraRank * Precision
             j == QkRopeHeadDim * Precision
         IN  /\ Covers(AbsorbMLAGen(p, FALSE, b), i + (j + (0 + 0)), Context(b))
             /\ Covers(AbsorbMLAGen(p, TRUE, b), LatentDim * Precision, Context(b))
<1> DEFINE i == KvLoraRank * Precision
           j == QkRopeHeadDim * Precision
           n == Context(b)
           t == Tokens(b)
           q == Pairs(b)
           u == Size(b)
           w == AbsorbScoring(p, KvLoraRank, b)
           x == AbsorbScoring(p, QkRopeHeadDim, b)
           y == AbsorbSoftmax(p, b)
           z == AbsorbContext(p, b)
<1> SUFFICES /\ Covers(AbsorbMLAGen(p, FALSE, b), i + (j + (0 + 0)), n)
             /\ Covers(AbsorbMLAGen(p, TRUE, b), LatentDim * Precision, n)
  OBVIOUS
<1>1. AbsorbMLAGen(p, TRUE, b) = AbsorbFlash(p, b)
  BY DEF AbsorbMLAGen, IfGenerating, AbsorbGenFlash, Processors, AbsorbGenFlashGPU,
     AbsorbGenFlashLogic, AbsorbGenFlashPIM
<1>2. AbsorbMLAGen(p, FALSE, b) = Plus(w, Plus(x, Plus(y, z)))
  BY DEF AbsorbMLAGen, IfGenerating, AbsorbGenStandard, Processors, AbsorbGenNoPEGPU,
     AbsorbGenRoPEGPU, AbsorbGenSoftmaxGPU, AbsorbGenContextGPU, AbsorbGenNoPELogic,
     AbsorbGenRoPELogic, AbsorbGenSoftmaxLogic, AbsorbGenContextLogic, AbsorbGenNoPEPIM,
     AbsorbGenRoPEPIM, AbsorbGenSoftmaxPIM, AbsorbGenContextPIM
<1>3. n \in Nat /\ t \in Nat /\ q \in Nat /\ u \in Nat
  BY SumParts
<1>4. i \in Nat /\ j \in Nat /\ Precision \in Nat /\ 0 * Precision = 0 /\ 0 * n = 0
      /\ LatentDim \in Nat /\ KvLoraRank \in Nat /\ QkRopeHeadDim \in Nat
      /\ 0 + 0 \in Nat /\ j + (0 + 0) \in Nat
  BY <1>3, Dims
<1>5. ASSUME NEW k \in Nat
      PROVE  Covers(AbsorbScoring(p, k, b), k * Precision, n)
  <2> DEFINE e == t * k * NumHeads
             r == u * k * NumHeads
             h == q * NumHeads
             c == k * n
  <2>1. AbsorbScoring(p, k, b)
          = Roofline(p, 2 * k * NumHeads * q, e + c + h, r + c, NumHeads * n)
    BY DEF AbsorbScoring
  <2>2. e \in Nat /\ r \in Nat /\ h \in Nat /\ c \in Nat
    BY <1>3, Dims
  <2> HIDE DEF e, r, h, n, q
  <2>3. k * n <= e + c + h /\ k * n <= r + c /\ e + c + h \in Nat /\ r + c \in Nat
    BY <2>2
  <2> HIDE DEF c
  <2> QED
    BY <1>3, <2>1, <2>3, RooflineCovers
<1>6. Covers(w, i, n) /\ Covers(x, j, n)
  BY <1>4, <1>5
<1>7. Covers(AbsorbFlash(p, b), LatentDim * Precision, n)
  <2> DEFINE e == u * NumHeads * (LatentDim + KvLoraRank)
             r == u * NumHeads * LatentDim
             c == n * LatentDim
  <2>1. \E f, o : AbsorbFlash(p, b) = Roofline(p, f, e + c, r + c, o)
    BY DEF AbsorbFlash
  <2>2. e \in Nat /\ r \in Nat /\ c \in Nat /\ c = LatentDim * n
    BY <1>3, Dims
  <2> HIDE DEF e, r, c, n
  <2>3. LatentDim * n <= e + c /\ LatentDim * n <= r + c /\ e + c \in Nat /\ r + c \in Nat
    BY <2>2
  <2> QED
    BY <1>3, <1>4, <2>1, <2>3, RooflineCovers
<1>8. Covers(z, 0, n)
  <2> DEFINE e == q * NumHeads + n * KvLoraRank + t * KvLoraRank * NumHeads
             r == NumHeads * n + n * KvLoraRank
  <2>1. \E f, o : z = Roofline(p, f, e, r, o)
    BY DEF AbsorbContext
  <2>2. e \in Nat /\ r \in Nat
    <3> HIDE DEF n, t, q
    <3>1. /\ q * NumHeads \in Nat /\ n * KvLoraRank \in Nat /\ NumHeads * n \in Nat
          /\ t * KvLoraRank * NumHeads \in Nat
      BY <1>3, Dims
    <3> QED
      BY <3>1
  <2> HIDE DEF e, r, n, z
  <2>3. Covers(z, 0 * Precision, n)
    BY <1>3, <1>4, <2>1, <2>2, RooflineCovers
  <2> QED
    BY <1>4, <2>3
<1>9. Covers(y, 0, Context(b))
  <2> DEFINE S(s) == Roofline(p, 7 * s.m * s.n * NumHeads, 2 * s.m * s.n * NumHeads,
                              s.m * s.n * NumHeads, s.m * s.n * NumHeads)
             r == [s \in DOMAIN b |-> S(b[s])]
             f == [s \in DOMAIN b |-> S(b[s]).bytes]
             g == [s \in DOMAIN b |-> S(b[s]).reads]
  <2>1. DOMAIN y = Fields /\ y.bytes = SumFunction(f) /\ y.reads = SumFunction(g)
    BY DEF AbsorbSoftmax, PerSeq, Nothing, Total, Fields
  <2>2. ASSUME NEW s \in DOMAIN b PROVE Covers(r[s], 0, b[s].n)
    <3> DEFINE a == b[s].m * b[s].n * NumHeads
               e == 2 * b[s].m * b[s].n * NumHeads
               k == b[s].n
    <3>1. a \in Nat /\ e \in Nat /\ k \in Nat
      BY Dims DEF BatchOk
    <3>2. \E o : r[s] = Roofline(p, o, e, a, a)
      OBVIOUS
    <3>3. 0 * k = 0
      BY <3>1
    <3> HIDE DEF a, e, r, k
    <3>4. Covers(r[s], 0 * Precision, k)
      BY <3>1, <3>2, <3>3, RooflineCovers
    <3> QED
      BY <1>4, <3>4 DEF k
  <2>3. /\ DOMAIN f = DOMAIN b /\ DOMAIN g = DOMAIN b
        /\ \A s \in DOMAIN b : f[s] = r[s].bytes /\ g[s] = r[s].reads
    OBVIOUS
  <2> HIDE DEF r, f, g, y
  <2> QED
    BY <2>1, <2>2, <2>3, EachCovers
<1> HIDE DEF w, x, y, z, i, j
<1>10. Covers(Plus(y, z), 0 + 0, n)
  BY <1>3, <1>4, <1>8, <1>9, PlusCovers DEF n
<1>11. Covers(Plus(x, Plus(y, z)), j + (0 + 0), n)
  BY <1>3, <1>4, <1>6, <1>10, PlusCovers
<1>12. Covers(Plus(w, Plus(x, Plus(y, z))), i + (j + (0 + 0)), n)
  BY <1>3, <1>4, <1>6, <1>11, PlusCovers
<1> QED
  BY <1>1, <1>2, <1>7, <1>12

-----------------------------------------------------------------------------
(* The cache is read *)

\* The keys of the sequences that have a token.
Seen(b) == Total(b, LAMBDA s : IF s.m = 0 THEN 0 ELSE s.n)

LEMMA SeenBelow ==
  ASSUME NEW b, BatchOk(b)
  PROVE  Seen(b) \in Nat /\ Seen(b) <= Context(b) /\ (Tokens(b) = 0 => Seen(b) = 0)
         /\ Context(b) \in Nat
<1> DEFINE f == [s \in DOMAIN b |-> IF b[s].m = 0 THEN 0 ELSE b[s].n]
           h == [s \in DOMAIN b |-> b[s].n]
           g == [s \in DOMAIN b |-> b[s].m]
<1>1. /\ NatOn(h, DOMAIN b) /\ Context(b) = SumFunction(h)
      /\ NatOn(g, DOMAIN b) /\ Tokens(b) = SumFunction(g)
  BY SumParts
<1>2. Seen(b) = SumFunction(f)
  BY DEF Seen, Total
<1>3. NatOn(f, DOMAIN b) /\ BelowOn(f, h, DOMAIN b)
  BY DEF NatOn, BelowOn, BatchOk
<1>4. ASSUME Tokens(b) = 0 PROVE SumFunction(f) = 0
  <2>1. \A s \in DOMAIN b : g[s] = 0
    <3> HIDE DEF g
    <3> QED
      BY <1>1, <1>4, SumIsZero
  <2>2. \A s \in DOMAIN b : f[s] = 0
    BY <2>1
  <2>3. IsFiniteSet(DOMAIN b) /\ DOMAIN b = DOMAIN f
    BY DEF BatchOk
  <2> HIDE DEF f
  <2>4. SumFunction(f) = 0 * Cardinality(DOMAIN b)
    BY <2>2, <2>3, SumOfConstant
  <2> QED
    BY <2>3, <2>4, FS_CardinalityType
<1> HIDE DEF f, h
<1> QED
  BY <1>1, <1>2, <1>3, <1>4, SumAtMost, NatSum

\* What is charged reads the given keys.
ReadsKeys(x, keys) ==
  /\ x.bytes >= keys * CachedPerToken * Precision
  /\ x.reads >= keys * CachedPerToken * Precision

\* The traffic of n keys reads fewer.
LEMMA CoversFewer ==
  ASSUME NEW n \in Nat, NEW keys \in Nat, keys <= n, CachedPerToken \in Nat,
         NEW x, Covers(x, CachedPerToken * Precision, n)
  PROVE  ReadsKeys(x, keys)
<1> DEFINE c == CachedPerToken
           k == c * Precision
<1>1. k \in Nat /\ keys * c * Precision = k * keys
  <2> HIDE DEF c
  <2>1. c \in Nat
    BY DEF c
  <2> QED
    BY <2>1, Dims
<1> HIDE DEF k
<1>2. k * keys <= k * n /\ k * keys \in Nat /\ k * n \in Nat
  BY <1>1, MoreForMore
<1>3. k * n <= x.bytes /\ k * n <= x.reads /\ x.bytes \in Nat /\ x.reads \in Nat
  BY DEF Covers, k
<1> DEFINE a == keys * c * Precision
           b == k * n
<1>4. a <= b /\ a \in Nat /\ b \in Nat /\ b <= x.bytes /\ b <= x.reads
  BY <1>1, <1>2, <1>3
<1> HIDE DEF a, b
<1>5. x.bytes >= a /\ x.reads >= a
  BY <1>3, <1>4
<1> QED
  BY <1>5 DEF a, ReadsKeys

\* What the phases cover is what is cached of a token.
LEMMA CachedIs ==
  ASSUME net \in Nets
  PROVE  LET g == (HeadDim * GroupedKvHeads) * Precision
             q == (QkHeadDim * NumHeads) * Precision
             h == (HeadDim * NumHeads) * Precision
             v == KvLoraRank * Precision
             r == QkRopeHeadDim * Precision
             c == CachedPerToken
         IN  /\ c \in Nat
             /\ net.kind = "MHA" => g + (0 + g) = c * Precision /\ g + g = c * Precision
             /\ net.kind = "MLA" =>
                  /\ q + (0 + h) = c * Precision
                  /\ ((QkHeadDim + HeadDim) * NumHeads) * Precision = c * Precision
             /\ net.kind = "Absorbed" =>
                  v + (r + (0 + 0)) = c * Precision /\ LatentDim * Precision = c * Precision
<1>1. net.kind \in Kinds
  BY NetFields
<1>2. CASE net.kind = "MHA"
  <2> DEFINE k == HeadDim * GroupedKvHeads
  <2>1. k \in Nat /\ 2 * HeadDim * GroupedKvHeads = k + k /\ Precision \in Nat
    BY Dims
  <2>2. CachedPerToken = k + k
    BY <1>2, <2>1 DEF CachedPerToken
  <2> HIDE DEF k
  <2>3. (k + k) * Precision = k * Precision + k * Precision /\ k * Precision \in Nat /\ k + k \in Nat
    BY <2>1
  <2> QED
    BY <1>2, <2>2, <2>3 DEF k
<1>3. CASE net.kind = "MLA"
  <2> DEFINE k == QkHeadDim * NumHeads
             l == HeadDim * NumHeads
  <2>1. k \in Nat /\ l \in Nat /\ (QkHeadDim + HeadDim) * NumHeads = k + l /\ Precision \in Nat
    BY Dims
  <2>2. CachedPerToken = k + l
    BY <1>3, <2>1 DEF CachedPerToken
  <2> HIDE DEF k, l
  <2>3. (k + l) * Precision = k * Precision + l * Precision /\ k * Precision \in Nat
        /\ l * Precision \in Nat /\ k + l \in Nat
    BY <2>1
  <2> QED
    BY <1>3, <2>1, <2>2, <2>3 DEF k, l
<1>4. CASE net.kind = "Absorbed"
  <2>1. CachedPerToken = LatentDim /\ LatentDim = KvLoraRank + QkRopeHeadDim
        /\ KvLoraRank \in Nat /\ QkRopeHeadDim \in Nat /\ Precision \in Nat
    BY <1>4, Dims DEF CachedPerToken
  <2>2. (KvLoraRank + QkRopeHeadDim) * Precision = KvLoraRank * Precision + QkRopeHeadDim * Precision
        /\ KvLoraRank * Precision \in Nat /\ QkRopeHeadDim * Precision \in Nat
    BY <2>1
  <2> QED
    BY <1>4, <2>1, <2>2
<1> QED
  BY <1>1, <1>2, <1>3, <1>4 DEF Kinds

SumExempt ==
  CASE net.kind = "MHA" -> "PIM" \in Range(net.procs)
    [] net.kind = "MLA" -> net.flashAttention
    [] OTHER -> FALSE

GenKeys(l) == IF net.kind = "MHA" THEN Seen(Clamped(l, Gens)) ELSE Seen(Gens)

LEMMA NothingRead ==
  ASSUME net \in Nets, NEW x, x.bytes = 0, x.reads = 0
  PROVE  ReadsKeys(x, 0)
<1>1. CachedPerToken \in Nat /\ Precision \in Nat
  BY CachedIs, Dims
<1>2. 0 * CachedPerToken = 0 /\ 0 * Precision = 0
  BY <1>1
<1> QED
  BY <1>2 DEF ReadsKeys

LEMMA SumReads ==
  ASSUME TypeOk, ~SumExempt, NEW p \in Processors, p \in Range(Candidates("attention_sum"))
  PROVE  ReadsKeys(ExecuteOn(p, "attention_sum"), Seen(Sums))
<1> DEFINE x == ExecuteOn(p, "attention_sum")
<1>1. net \in Nets /\ net.kind \in Kinds /\ net.procs \in Systems /\ net.flashAttention \in BOOLEAN
  BY NetFields DEF TypeOk
<1>2. BatchOk(Sums)
  BY Batches
<1>3. x = ExecuteAttention(p, "attention_sum")
  BY DEF ExecuteOn, AttentionParallel, Range
<1>4. Seen(Sums) \in Nat /\ Seen(Sums) <= Context(Sums) /\ (Tokens(Sums) = 0 => Seen(Sums) = 0)
      /\ Context(Sums) \in Nat /\ CachedPerToken \in Nat
  BY <1>1, <1>2, SeenBelow, CachedIs
<1>5. CASE net.kind = "MHA"
  <2>1. x = SelfAttentionSum(p)
    BY <1>3, <1>5 DEF ExecuteAttention, SelfAttentionParallel
  <2>2. p \in {"GPU", "LOGIC"}
    <3>1. Candidates("attention_sum") = net.procs
      BY <1>5 DEF Candidates, AttentionParallel, Range
    <3> QED
      BY <1>5, <3>1 DEF SumExempt, Processors
  <2>3. x = IF p = "GPU" THEN Grouped!AttentionSumGPU(Sums) ELSE Grouped!AttentionSumLogic(Sums)
    BY <2>1, <2>2 DEF SelfAttentionSum
  <2>4. CASE Tokens(Sums) = 0
    <3>1. x.bytes = 0 /\ x.reads = 0
      BY <2>3, <2>4, GroupedSums DEF Grouped!AttentionSumGPU, Grouped!AttentionSumLogic,
         Grouped!IfPrompted, Grouped!Nothing
    <3> QED
      BY <1>1, <1>4, <2>4, <3>1, NothingRead
  <2>5. CASE Tokens(Sums) # 0
    <3> DEFINE i == (HeadDim * GroupedKvHeads) * Precision
    <3>1. i + (0 + i) = CachedPerToken * Precision
      BY <1>1, <1>5, CachedIs
    <3>2. Covers(x, i + (0 + i), Context(Sums))
      BY <1>2, <2>3, <2>5, GroupedPromptRead
    <3> HIDE DEF i, x
    <3>3. ReadsKeys(x, Seen(Sums))
      BY <1>4, <3>1, <3>2, CoversFewer
    <3> QED
      BY <3>3 DEF x
  <2> QED
    BY <2>4, <2>5
<1>6. CASE net.kind = "MLA"
  <2>1. x = MLASum(p, FALSE, Sums)
    BY <1>1, <1>3, <1>6 DEF ExecuteAttention, MultiLatentAttentionParallel,
       MultiLatentAttentionSum, SumExempt
  <2>2. CASE Tokens(Sums) = 0
    <3>1. x.bytes = 0 /\ x.reads = 0
      BY <2>1, <2>2 DEF MLASum, IfPrompted, Nothing
    <3> QED
      BY <1>1, <1>4, <2>2, <3>1, NothingRead
  <2>3. CASE Tokens(Sums) # 0
    <3> DEFINE i == (QkHeadDim * NumHeads) * Precision
               j == (HeadDim * NumHeads) * Precision
    <3>1. i + (0 + j) = CachedPerToken * Precision
      BY <1>1, <1>6, CachedIs
    <3>2. Covers(x, i + (0 + j), Context(Sums))
      BY <1>2, <2>1, <2>3, LatentPromptRead
    <3> HIDE DEF i, j, x
    <3>3. ReadsKeys(x, Seen(Sums))
      BY <1>4, <3>1, <3>2, CoversFewer
    <3> QED
      BY <3>3 DEF x
  <2> QED
    BY <2>2, <2>3
<1>7. CASE net.kind = "Absorbed"
  <2>1. x = AbsorbMLASum(p, Sums)
    BY <1>3, <1>7 DEF ExecuteAttention, AbsorbMLAParallel, AbsorbedAttentionSum
  <2>2. p \in {"GPU", "LOGIC"}
    <3>1. Candidates("attention_sum") = <<Head(net.procs)>>
      BY <1>7 DEF Candidates
    <3>2. Head(net.procs) \in {"GPU", "LOGIC"}
      BY <1>1 DEF Systems
    <3> QED
      BY <3>1, <3>2 DEF Range
  <2>3. CASE Tokens(Sums) = 0
    <3>1. x.bytes = 0 /\ x.reads = 0
      BY <2>1, <2>3 DEF AbsorbMLASum, IfPrompted, Nothing
    <3> QED
      BY <1>1, <1>4, <2>3, <3>1, NothingRead
  <2>4. CASE Tokens(Sums) # 0
    <3> DEFINE i == KvLoraRank * Precision
               j == QkRopeHeadDim * Precision
    <3>1. i + (j + (0 + 0)) = CachedPerToken * Precision
      BY <1>1, <1>7, CachedIs
    <3>2. Covers(x, i + (j + (0 + 0)), Context(Sums))
      BY <1>2, <2>1, <2>2, <2>4, AbsorbedPromptRead
    <3> HIDE DEF i, j, x
    <3>3. ReadsKeys(x, Seen(Sums))
      BY <1>4, <3>1, <3>2, CoversFewer
    <3> QED
      BY <3>3 DEF x
  <2> QED
    BY <2>3, <2>4
<1> QED
  BY <1>1, <1>5, <1>6, <1>7 DEF Kinds

\* A window leaves no more keys than there are.
LEMMA ClampedContext ==
  ASSUME NEW b, BatchOk(b), NEW l \in Nat
  PROVE  Context(Clamped(l, b)) <= Context(b) /\ Context(Clamped(l, b)) \in Nat
<1> DEFINE c == Clamped(l, b)
           f == [s \in DOMAIN c |-> c[s].n]
           h == [s \in DOMAIN b |-> b[s].n]
<1>1. /\ BatchOk(c) /\ DOMAIN c = DOMAIN b
      /\ \A s \in DOMAIN b : c[s].n <= b[s].n
  BY ClampedIs
<1> HIDE DEF c
<1>2. /\ NatOn(f, DOMAIN c) /\ Context(c) = SumFunction(f)
      /\ NatOn(h, DOMAIN b) /\ Context(b) = SumFunction(h)
  BY <1>1, SumParts
<1>3. BelowOn(f, h, DOMAIN b)
  BY <1>1 DEF BelowOn
<1> HIDE DEF f, h
<1>4. Context(c) <= Context(b) /\ Context(c) \in Nat
  BY <1>1, <1>2, <1>3, SumAtMost, NatSum
<1> QED
  BY <1>4 DEF c

LEMMA GenReads ==
  ASSUME TypeOk, NEW p \in Processors
  PROVE  ReadsKeys(ExecuteOn(p, "attention_gen"), GenKeys(layer))
<1> DEFINE x == ExecuteOn(p, "attention_gen")
           c == Clamped(layer, Gens)
<1>1. net \in Nets /\ net.kind \in Kinds /\ net.flashMla \in BOOLEAN /\ layer \in Nat
  BY NetFields DEF TypeOk
<1>2. BatchOk(Gens) /\ BatchOk(c) /\ Tokens(c) = Tokens(Gens)
  BY <1>1, Batches, ClampedIs
<1>3. x = ExecuteAttention(p, "attention_gen")
  BY DEF ExecuteOn, AttentionParallel, Range
<1>4. /\ Seen(Gens) \in Nat /\ Seen(Gens) <= Context(Gens) /\ (Tokens(Gens) = 0 => Seen(Gens) = 0)
      /\ Seen(c) \in Nat /\ Seen(c) <= Context(c) /\ (Tokens(Gens) = 0 => Seen(c) = 0)
      /\ Context(Gens) \in Nat /\ Context(c) \in Nat /\ CachedPerToken \in Nat
  BY <1>1, <1>2, SeenBelow, CachedIs
<1>5. CASE net.kind = "MHA"
  <2>1. x = SelfAttentionGen(p) /\ GenKeys(layer) = Seen(c)
    BY <1>3, <1>5 DEF ExecuteAttention, SelfAttentionParallel, GenKeys
  <2>2. CASE Tokens(Gens) = 0
    <3>1. x.bytes = 0 /\ x.reads = 0
      BY <2>1, <2>2, GroupedSums DEF SelfAttentionGen, Processors, Grouped!AttentionGenGPU,
         Grouped!AttentionGenLogic, Grouped!AttentionGenPIM, Grouped!IfGenerating, Grouped!Nothing
    <3> QED
      BY <1>1, <1>4, <2>1, <2>2, <3>1, NothingRead
  <2>3. CASE Tokens(Gens) # 0
    <3> DEFINE i == (HeadDim * GroupedKvHeads) * Precision
    <3>1. i + i = CachedPerToken * Precision
      BY <1>1, <1>5, CachedIs
    <3>2. Covers(x, i + i, Context(c)) \/ Covers(x, i + i, Context(Gens))
      <4>1. CASE p = "GPU"
        BY <1>1, <1>2, <2>1, <2>3, <4>1, GroupedGenRead DEF SelfAttentionGen
      <4>2. CASE p \in {"LOGIC", "PIM"}
        BY <1>1, <1>2, <2>1, <2>3, <4>2, GroupedGenRead DEF SelfAttentionGen
      <4> QED
        BY <4>1, <4>2 DEF Processors
    <3>3. Seen(c) <= Context(Gens)
      BY <1>1, <1>2, <1>4, ClampedContext
    <3> HIDE DEF i, x, c
    <3>4. ReadsKeys(x, Seen(c))
      BY <1>4, <3>1, <3>2, <3>3, CoversFewer
    <3> QED
      BY <2>1, <3>4 DEF x
  <2> QED
    BY <2>2, <2>3
<1>6. CASE net.kind = "MLA"
  <2>1. x = MLAGen(p, net.flashMla, Gens) /\ GenKeys(layer) = Seen(Gens)
    BY <1>3, <1>6 DEF ExecuteAttention, MultiLatentAttentionParallel, MultiLatentAttentionGen,
       GenKeys
  <2>2. CASE Tokens(Gens) = 0
    <3>1. x.bytes = 0 /\ x.reads = 0
      BY <2>1, <2>2 DEF MLAGen, IfGenerating, Nothing
    <3> QED
      BY <1>1, <1>4, <2>1, <2>2, <3>1, NothingRead
  <2>3. CASE Tokens(Gens) # 0
    <3>1. Covers(x, CachedPerToken * Precision, Context(Gens))
      BY <1>1, <1>2, <1>6, <2>1, <2>3, LatentGenRead, CachedIs
    <3> HIDE DEF x
    <3>2. ReadsKeys(x, Seen(Gens))
      BY <1>4, <3>1, CoversFewer
    <3> QED
      BY <2>1, <3>2 DEF x
  <2> QED
    BY <2>2, <2>3
<1>7. CASE net.kind = "Absorbed"
  <2>1. x = AbsorbMLAGen(p, net.flashMla, Gens) /\ GenKeys(layer) = Seen(Gens)
    BY <1>3, <1>7 DEF ExecuteAttention, AbsorbMLAParallel, AbsorbedAttentionGen, GenKeys
  <2>2. CASE Tokens(Gens) = 0
    <3>1. x.bytes = 0 /\ x.reads = 0
      BY <2>1, <2>2 DEF AbsorbMLAGen, IfGenerating, Nothing
    <3> QED
      BY <1>1, <1>4, <2>1, <2>2, <3>1, NothingRead
  <2>3. CASE Tokens(Gens) # 0
    <3>1. Covers(x, CachedPerToken * Precision, Context(Gens))
      BY <1>1, <1>2, <1>7, <2>1, <2>3, AbsorbedGenRead, CachedIs
    <3> HIDE DEF x
    <3>2. ReadsKeys(x, Seen(Gens))
      BY <1>4, <3>1, CoversFewer
    <3> QED
      BY <2>1, <3>2 DEF x
  <2> QED
    BY <2>2, <2>3
<1> QED
  BY <1>1, <1>5, <1>6, <1>7 DEF Kinds

\* What was last charged reads the keys of the tokens it attends to.
CacheSoFar ==
  /\ executed.layer \in Nat
  /\ executed.name = "attention_sum" /\ ~SumExempt => ReadsKeys(executed.kept, Seen(Sums))
  /\ executed.name = "attention_gen" => ReadsKeys(executed.kept, GenKeys(executed.layer))

LEMMA CacheInit == Init => CacheSoFar
BY DEF Init, NoModule, CacheSoFar

\* A step that leaves the batch alone changes no number of keys.
LEMMA CacheSame ==
  ASSUME UNCHANGED <<net, current, tokens>>,
         executed'.layer \in Nat,
         executed'.name = "attention_sum" /\ ~SumExempt => ReadsKeys(executed'.kept, Seen(Sums)),
         executed'.name = "attention_gen" => ReadsKeys(executed'.kept, GenKeys(executed'.layer))
  PROVE  CacheSoFar'
<1>1. Sums' = Sums /\ Gens' = Gens /\ net' = net
  BY BatchSame
<1>2. SumExempt' = SumExempt /\ CachedPerToken' = CachedPerToken
  BY <1>1 DEF SumExempt, CachedPerToken
<1>3. Seen(Sums)' = Seen(Sums)
  BY <1>1 DEF Seen, Total
<1>4. GenKeys(executed.layer)' = GenKeys(executed'.layer)
  BY <1>1 DEF GenKeys, Seen, Total, Clamped
<1>5. ASSUME SumExempt' = SumExempt, executed'.name = "attention_sum", ~SumExempt'
      PROVE  ReadsKeys(executed.kept, Seen(Sums))'
  <2>1. ReadsKeys(executed'.kept, Seen(Sums))
    BY <1>5
  <2> QED
    BY <1>2, <1>3, <2>1 DEF ReadsKeys
<1>6. ASSUME executed'.name = "attention_gen"
      PROVE  ReadsKeys(executed.kept, GenKeys(executed.layer))'
  <2>1. ReadsKeys(executed'.kept, GenKeys(executed'.layer))
    BY <1>6
  <2> QED
    BY <1>2, <1>4, <2>1 DEF ReadsKeys
<1> QED
  BY <1>2, <1>5, <1>6 DEF CacheSoFar

LEMMA CacheRun ==
  ASSUME TypeOk, Places, Execution
  PROVE  CacheSoFar'
<1> DEFINE module == Modules[pc]
           procs == Candidates(module)
           kept == Optimal([i \in DOMAIN procs |-> ExecuteOn(procs[i], module)])
<1>1. /\ executed' = [name |-> module, layer |-> layer, kept |-> kept]
      /\ UNCHANGED <<net, current, tokens>>
  BY DEF Execution, Executed
<1>2. layer \in Nat /\ net \in Nets
  BY DEF TypeOk
<1> HIDE DEF module
<1>3. PICK p \in Processors : p \in Range(procs) /\ kept = ExecuteOn(p, module)
  BY <1>2, KeptIsOne
<1> HIDE DEF kept
<1>4. ASSUME module = "attention_sum", ~SumExempt
      PROVE  ReadsKeys(kept, Seen(Sums))
  BY <1>3, <1>4, SumReads
<1>5. ASSUME module = "attention_gen"
      PROVE  ReadsKeys(kept, GenKeys(layer))
  BY <1>3, <1>5, GenReads
<1>6. executed'.layer = layer /\ executed'.name = module /\ executed'.kept = kept
  BY <1>1
<1> HIDE DEF procs
<1> QED
  BY <1>1, <1>2, <1>4, <1>5, <1>6, CacheSame

LEMMA CacheNext ==
  LayerInductive /\ CacheSoFar /\ [Next]_vars => CacheSoFar'
<1> SUFFICES ASSUME LayerInductive, CacheSoFar, [Next]_vars PROVE CacheSoFar'
  OBVIOUS
<1>1. CASE StartPass \/ EndPass
  <2>1. executed' = NoModule
    BY <1>1 DEF StartPass, EndPass
  <2> QED
    BY <2>1 DEF CacheSoFar, NoModule
<1>2. CASE DecodeKVWrite \/ AddTime \/ UNCHANGED vars
  <2>1. UNCHANGED <<net, current, tokens, executed>>
    BY <1>2 DEF DecodeKVWrite, AddTime, vars
  <2>2. UNCHANGED <<net, current, tokens>> /\ executed' = executed
    BY <2>1
  <2>3. /\ executed.layer \in Nat
        /\ executed.name = "attention_sum" /\ ~SumExempt => ReadsKeys(executed.kept, Seen(Sums))
        /\ executed.name = "attention_gen" => ReadsKeys(executed.kept, GenKeys(executed.layer))
    BY DEF CacheSoFar
  <2> QED
    BY <2>2, <2>3, CacheSame
<1>3. CASE Execution
  BY <1>3, CacheRun DEF LayerInductive
<1> QED
  BY <1>1, <1>2, <1>3 DEF Next

LEMMA CacheFinal == LayerInductive /\ CacheSoFar => CacheIsRead
<1> SUFFICES ASSUME LayerInductive, CacheSoFar PROVE CacheIsRead
  OBVIOUS
<1> DEFINE sum == executed.name = "attention_sum"
           gen == executed.name = "attention_gen"
           b == IF sum THEN Sums ELSE Gens
           keys == Total(b, LAMBDA s :
                     IF s.m = 0 THEN 0
                     ELSE IF net.kind = "MHA" /\ gen THEN EffectiveKvLen(executed.layer, s.n)
                     ELSE s.n)
           exempt == sum /\ SumExempt
<1>1. /\ executed.layer \in Nat
      /\ sum /\ ~SumExempt => ReadsKeys(executed.kept, Seen(Sums))
      /\ gen => ReadsKeys(executed.kept, GenKeys(executed.layer))
  BY DEF CacheSoFar
<1>2. BatchOk(Gens)
  BY Batches DEF LayerInductive
<1>3. sum => ~gen /\ keys = Seen(Sums)
  BY DEF Seen, Total
<1>4. gen => keys = GenKeys(executed.layer)
  <2>1. ASSUME gen, net.kind # "MHA" PROVE keys = GenKeys(executed.layer)
    BY <2>1 DEF GenKeys, Seen, Total
  <2>2. ASSUME gen, net.kind = "MHA" PROVE keys = GenKeys(executed.layer)
    <3> DEFINE c == Clamped(executed.layer, Gens)
               f == [s \in DOMAIN Gens |->
                       IF Gens[s].m = 0 THEN 0 ELSE EffectiveKvLen(executed.layer, Gens[s].n)]
               g == [s \in DOMAIN c |-> IF c[s].m = 0 THEN 0 ELSE c[s].n]
    <3>1. keys = SumFunction(f)
      BY <2>2 DEF Total
    <3>2. GenKeys(executed.layer) = SumFunction(g)
      BY <2>2 DEF GenKeys, Seen, Total
    <3>3. DOMAIN c = DOMAIN Gens
          /\ \A s \in DOMAIN Gens : c[s].m = Gens[s].m
                                    /\ c[s].n = EffectiveKvLen(executed.layer, Gens[s].n)
      BY <1>1, <1>2, ClampedIs
    <3> HIDE DEF c
    <3>4. f = g
      BY <3>3
    <3> QED
      BY <3>1, <3>2, <3>4
  <2> QED
    BY <2>1, <2>2
<1>5. exempt <=> sum /\ CASE net.kind = "MHA" -> "PIM" \in Range(net.procs)
                          [] net.kind = "MLA" -> net.flashAttention
                          [] OTHER -> FALSE
  BY DEF SumExempt
<1> HIDE DEF keys
<1>6. ASSUME sum \/ gen, ~exempt
      PROVE  ReadsKeys(executed.kept, keys)
  BY <1>1, <1>3, <1>4, <1>6
<1>7. ASSUME sum \/ gen, ~exempt
      PROVE  /\ executed.kept.bytes >= keys * CachedPerToken * Precision
             /\ executed.kept.reads >= keys * CachedPerToken * Precision
  BY <1>6, <1>7 DEF ReadsKeys
<1> HIDE DEF exempt
<1> QED
  BY <1>5, <1>7 DEF CacheIsRead, keys

-----------------------------------------------------------------------------
(* What the runs check, for every network, system and batch *)

\* Attention to prompts is charged, whatever chunks the budget makes of them
\* (setMetadata, attention_sum_impl.cpp), for every pair of a token and one
\* before it or itself, and at most for every pair with its whole input, if no
\* chunk can overflow the int products of the logic die and the PIM units.
THEOREM PromptWorkCorrect == Spec => []PromptWork
BY LayerStates, PromptFinal, PTL

\* Attention to outputs (attention_gen_impl.cpp) is charged for every key that
\* a token sees, no less whatever passes a sequence waits in, and for nothing
\* else by the copies that leave out the sequences that wait.
THEOREM DecodeWorkCorrect == Spec => []DecodeWork
BY LayerStates, DecodeFinal, PTL

\* Every key and value is written to the memory once: in bulk with the first
\* pass of a sequence that was prefilled elsewhere (decode_kv_write.cpp), then
\* by the projection of each pass (linear_impl.cpp).
THEOREM KvWrittenOnceCorrect == Spec => []KvWrittenOnce
BY LayerStates, KvFinal, PTL

\* The copies of a layer function for the three processors charge the same
\* operations for the same tokens (linear_impl.cpp, attention_gen_impl.cpp,
\* attention_sum_impl.cpp), but for those that CopiesAgree leaves out.
THEOREM CopiesAgreeCorrect == Spec => []CopiesAgree
BY LayerStates, CopiesFinal, PTL

\* The traffic and the read requests charged for attention cover the keys and
\* values that its tokens see (the cost modules of attention), whichever
\* processor the executor keeps (executor.cpp).
THEOREM CacheIsReadCorrect == Spec => []CacheIsRead
<1>1. LayerInductive /\ CacheSoFar /\ [Next]_vars => LayerInductive' /\ CacheSoFar'
  BY LayerNext, CacheNext
<1>2. Init => LayerInductive /\ CacheSoFar
  BY LayerInit, CacheInit
<1> QED
  BY <1>1, <1>2, CacheFinal, PTL DEF Spec

=============================================================================
