--------------------------- MODULE AttentionSumCost ---------------------------
(***************************************************************************)
(* The cost of attention over the prompts (hardware/attention_sum_impl.cpp)*)
(* Here every phase is repeated for each prompt of the batch; b holds the  *)
(* prompts, as for_each_sum has them.                                      *)
(***************************************************************************)
EXTENDS AttentionGenCost

CONSTANTS
    SharedMem,      \* shared_mem_size
    IntRange        \* 2^31: an int is at least -IntRange and less than IntRange

ASSUME IntRangeAssumption == IntRange \in Nat \ {0}

\* What the build makes of an int product, whose overflow C++ leaves open: it
\* wraps around.  Of the ints here only the operations of grouped-query prompts
\* are multiplied out as such; sizes in bytes are taken to fit.
AsInt(x) == ((x + IntRange) % (2 * IntRange)) - IntRange

\* A function returns an empty status when its input has no row: Tokens(b)
\* is the number of rows AttentionSplit gave it.
IfPrompted(b, cost) == IF Tokens(b) = 0 THEN Nothing ELSE cost

----------------------------------------------------------------------------
(* Grouped-query attention.                                                *)

\* Mutant: the keys of earlier chunks are forgotten.
ThisChunkMutant(s) ==
    Roofline("GPU", 2 * s.m * HeadDim * s.m * NumHeads,
             s.m * HeadDim * NumHeads + HeadDim * s.n * NumKvHeads + s.m * s.n * NumHeads,
             s.m * HeadDim * NumHeads + HeadDim * s.n * NumKvHeads, s.m * s.n * NumHeads)

SumScoringGPU(s) ==
    LET elements == s.m * HeadDim * NumHeads + HeadDim * s.n * NumKvHeads + s.m * s.n * NumHeads
    IN  Roofline("GPU", 2 * s.m * HeadDim * s.n * NumHeads, elements,
                 s.m * HeadDim * NumHeads + HeadDim * s.n * NumKvHeads, s.m * s.n * NumHeads)

\* The requests of the softmax are issued, its bytes and their time are not
\* counted.
SumSoftmaxGPU(s) ==
    Roofline("GPU", 7 * s.m * s.n * NumHeads, 0, s.m * s.n * NumHeads, s.m * s.n * NumHeads)

SumContextGPU(s) ==
    LET elements == s.m * s.n * NumHeads + s.n * HeadDim * NumKvHeads + s.m * HeadDim * NumHeads
    IN  Roofline("GPU", 2 * s.m * HeadDim * s.n * NumHeads, elements,
                 s.m * s.n * NumHeads + s.n * HeadDim * NumKvHeads, s.m * HeadDim * NumHeads)

AttentionSumGPU(b) ==
    IfPrompted(b, Plus(PerSeq(b, SumScoringGPU),
                       Plus(PerSeq(b, SumSoftmaxGPU), PerSeq(b, SumContextGPU))))

\* The copies for the logic die and the PIM units multiply a chunk's tokens,
\* the width of a head and the keys as ints, the GPU's copy as doubles.
ChunkProduct(s) == s.m * HeadDim * s.n

SumScoringLogic(s) ==
    LET elements == s.m * HeadDim * NumHeads + HeadDim * s.n * NumKvHeads
    IN  Roofline("LOGIC", 2 * AsInt(ChunkProduct(s)) * NumHeads, elements, elements, 0)

SumSoftmaxLogic(s) == Compute("LOGIC", 7 * s.m * s.n * NumHeads)

SumContextLogic(s) ==
    LET elements == s.n * HeadDim * NumKvHeads
    IN  Roofline("LOGIC", 2 * AsInt(ChunkProduct(s)) * NumHeads, elements, elements, 0)

AttentionSumLogic(b) ==
    IfPrompted(b, Plus(PerSeq(b, SumScoringLogic),
                       Plus(PerSeq(b, SumSoftmaxLogic), PerSeq(b, SumContextLogic))))

\* The PIM copy sets the rows of its input only: the columns are the ones
\* the GPU, which is tried before, left there.
StaleWidth == HeadDim * NumHeads

SumScoringPIM(s) ==
    Roofline("PIM", 2 * AsInt(ChunkProduct(s)) * NumHeads,
             s.m * HeadDim * NumHeads + HeadDim * s.n * NumKvHeads, s.m * StaleWidth, 0)

SumSoftmaxPIM(s) == Compute("PIM", 7 * s.m * s.n * NumHeads)

SumContextPIM(s) ==
    Roofline("PIM", 2 * AsInt(ChunkProduct(s)) * NumHeads,
             s.n * HeadDim * NumKvHeads, s.n * StaleWidth, 0)

AttentionSumPIM(b) ==
    IfPrompted(b, Plus(PerSeq(b, SumScoringPIM),
                       Plus(PerSeq(b, SumSoftmaxPIM), PerSeq(b, SumContextPIM))))

----------------------------------------------------------------------------
(* Multi-head latent attention.  The copies for the logic die and the PIM  *)
(* units run at the rates of the GPU; only their tiles differ.             *)

TileRows == SharedMem \div (4 * QkHeadDim * Precision)

\* Tiles of br rows of queries by bc rows of keys.  Both counts come from m:
\* the keys of the chunks before this one get no tile.
MLASumTiles(br, bc, s) ==
    LET tr == (s.m + br - 1) \div br
        tc == (s.m + bc - 1) \div bc
        query == br * QkHeadDim * tr * tc
        keyValue == bc * (QkHeadDim + HeadDim) * tc
        output == br * HeadDim * tr * tc
        stats == 2 * br * tr * tc
    IN  Roofline("GPU", tr * tc * 2 * br * bc * (QkHeadDim + HeadDim) * NumHeads,
                 NumHeads * (query + keyValue + 2 * output + 2 * stats),
                 NumHeads * (query + keyValue + output + stats),
                 NumHeads * (output + stats))

MLASumFlashGPU(s)   == MLASumTiles(Smaller(TileRows, QkHeadDim), TileRows, s)
MLASumFlashLogic(s) == MLASumTiles(TileRows, QkHeadDim, s)
MLASumFlashPIM(s)   == MLASumTiles(TileRows, QkHeadDim, s)

MLASumScoring(s) ==
    Roofline("GPU", 2 * s.m * QkHeadDim * s.n * NumHeads,
             NumHeads * (s.m * QkHeadDim + QkHeadDim * s.n + s.m * s.n),
             s.m * QkHeadDim * NumHeads + QkHeadDim * s.n * NumKvHeads, s.m * s.n * NumHeads)

MLASumSoftmax(s) ==
    Roofline("GPU", 7 * s.m * s.n * NumHeads, 2 * s.m * s.n * NumHeads,
             s.m * s.n * NumHeads, s.m * s.n * NumHeads)

MLASumContext(s) ==
    Roofline("GPU", 2 * s.m * HeadDim * s.n * NumHeads,
             NumHeads * (s.m * s.n + s.n * HeadDim + s.m * HeadDim),
             s.m * s.n * NumHeads + s.n * HeadDim * NumKvHeads, s.m * HeadDim * NumHeads)

MLASumScoringGPU(b) == PerSeq(b, MLASumScoring)
MLASumSoftmaxGPU(b) == PerSeq(b, MLASumSoftmax)
MLASumContextGPU(b) == PerSeq(b, MLASumContext)

MLASumScoringLogic(b) == PerSeq(b, MLASumScoring)
MLASumSoftmaxLogic(b) == PerSeq(b, MLASumSoftmax)
MLASumContextLogic(b) == PerSeq(b, MLASumContext)

MLASumScoringPIM(b) == PerSeq(b, MLASumScoring)
MLASumSoftmaxPIM(b) == PerSeq(b, MLASumSoftmax)
MLASumContextPIM(b) == PerSeq(b, MLASumContext)

MLASumStandard(p, b) ==
    CASE p = "GPU"   -> Plus(MLASumScoringGPU(b), Plus(MLASumSoftmaxGPU(b), MLASumContextGPU(b)))
      [] p = "LOGIC" -> Plus(MLASumScoringLogic(b), Plus(MLASumSoftmaxLogic(b), MLASumContextLogic(b)))
      [] p = "PIM"   -> Plus(MLASumScoringPIM(b), Plus(MLASumSoftmaxPIM(b), MLASumContextPIM(b)))

MLASumFlash(p, b) ==
    CASE p = "GPU"   -> PerSeq(b, MLASumFlashGPU)
      [] p = "LOGIC" -> PerSeq(b, MLASumFlashLogic)
      [] p = "PIM"   -> PerSeq(b, MLASumFlashPIM)

MLASum(p, flash, b) ==
    IfPrompted(b, IF flash THEN MLASumFlash(p, b) ELSE MLASumStandard(p, b))

----------------------------------------------------------------------------
(* The absorbed form.  k columns of the latent rows are scored: KvLoraRank *)
(* without position encoding, QkRopeHeadDim with it.                       *)

AbsorbSumScoring(p, k, s, reads, writes) ==
    Roofline(p, 2 * s.m * k * s.n * NumHeads,
             s.m * k * NumHeads + k * s.n + s.m * s.n * NumHeads, reads, writes)

\* What the queries, the latent rows and the scores take.
ScoringReads(k, s) == s.m * k * NumHeads + k * s.n
Scores(s) == s.m * s.n * NumHeads

AbsorbSumContext(p, s, reads, writes) ==
    Roofline(p, 2 * s.m * KvLoraRank * s.n * NumHeads,
             Scores(s) + s.n * KvLoraRank + s.m * KvLoraRank * NumHeads, reads, writes)

AbsorbSumNoPEGPU(s) ==
    AbsorbSumScoring("GPU", KvLoraRank, s, ScoringReads(KvLoraRank, s), Scores(s))
AbsorbSumRoPEGPU(s) ==
    AbsorbSumScoring("GPU", QkRopeHeadDim, s, ScoringReads(QkRopeHeadDim, s), Scores(s))
AbsorbSumSoftmaxGPU(s) ==
    Roofline("GPU", 7 * Scores(s), 2 * Scores(s), Scores(s), Scores(s))
AbsorbSumContextGPU(s) ==
    AbsorbSumContext("GPU", s, Scores(s) + s.n * KvLoraRank, s.m * KvLoraRank * NumHeads)

\* Without position encoding the scores are not written.
AbsorbSumNoPELogic(s) ==
    AbsorbSumScoring("LOGIC", KvLoraRank, s, ScoringReads(KvLoraRank, s), 0)
AbsorbSumRoPELogic(s) ==
    AbsorbSumScoring("LOGIC", QkRopeHeadDim, s, ScoringReads(QkRopeHeadDim, s), Scores(s))
AbsorbSumSoftmaxLogic(s) ==
    [Compute("LOGIC", 7 * Scores(s)) EXCEPT !.bytes = 2 * Scores(s) * Precision]
AbsorbSumContextLogic(s) ==
    AbsorbSumContext("LOGIC", s, Scores(s) + s.n * KvLoraRank, s.m * KvLoraRank * NumHeads)

\* The requests of the PIM units have one column.
AbsorbSumNoPEPIM(s) == AbsorbSumScoring("PIM", KvLoraRank, s, s.m, 0)
AbsorbSumRoPEPIM(s) == AbsorbSumScoring("PIM", QkRopeHeadDim, s, s.m, 0)
AbsorbSumSoftmaxPIM(s) == Compute("PIM", 7 * Scores(s))
AbsorbSumContextPIM(s) == AbsorbSumContext("PIM", s, s.n, 0)

AbsorbSumOf(p, s) ==
    CASE p = "GPU" ->
            Plus(AbsorbSumNoPEGPU(s), Plus(AbsorbSumRoPEGPU(s),
                 Plus(AbsorbSumSoftmaxGPU(s), AbsorbSumContextGPU(s))))
      [] p = "LOGIC" ->
            Plus(AbsorbSumNoPELogic(s), Plus(AbsorbSumRoPELogic(s),
                 Plus(AbsorbSumSoftmaxLogic(s), AbsorbSumContextLogic(s))))
      [] p = "PIM" ->
            Plus(AbsorbSumNoPEPIM(s), Plus(AbsorbSumRoPEPIM(s),
                 Plus(AbsorbSumSoftmaxPIM(s), AbsorbSumContextPIM(s))))

\* The assertions that the input has a row per head, and the shape it is left
\* in, are not modelled: AttentionSplit sets the shape in each pass.
AbsorbMLASum(p, b) == IfPrompted(b, PerSeq(b, LAMBDA s : AbsorbSumOf(p, s)))
=============================================================================
