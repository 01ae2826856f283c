--------------------------- MODULE AttentionGenCost ---------------------------
(***************************************************************************)
(* The cost of attention over the sequences that generate                  *)
(* (hardware/attention_gen_impl.cpp): grouped-query attention, multi-head  *)
(* latent attention and its absorbed form, each with a copy for the GPU,   *)
(* the logic die and the PIM units.  b is the batch's generating sequences,*)
(* those that wait for their first decode slot (m = 0) included, as        *)
(* for_each_gen has them.  A phase of the code is a definition here; the   *)
(* copies that differ in the processor's rates only share it.              *)
(***************************************************************************)
EXTENDS LayerCost

CONSTANTS
    KvWindow,       \* chunked_attention_window
    FullStride      \* chunked_attention_full_stride; 1: every layer is full

QkHeadDim == HeadDim + QkRopeHeadDim
LatentDim == KvLoraRank + QkRopeHeadDim

\* Mutant: the window applies to the full layers too.
EveryLayerMutant(layer, n) == Smaller(n, KvWindow)

\* Only one layer in FullStride keeps all the keys and values.
EffectiveKvLen(layer, n) ==
    IF layer % FullStride = 0 THEN n ELSE Smaller(n, KvWindow)

Clamped(layer, b) ==
    [i \in DOMAIN b |-> [b[i] EXCEPT !.n = EffectiveKvLen(layer, b[i].n)]]

\* A function returns an empty status when no token is generated.
IfGenerating(b, cost) == IF Tokens(b) = 0 THEN Nothing ELSE cost

----------------------------------------------------------------------------
(* Grouped-query attention on the GPU: the caches are read from the stored *)
(* tier, queries, scores and outputs move in the intermediate one.         *)

\* stored: elements read for each key; token and score: elements moved for
\* each token, and for each pair of a token and a key.
CachePhase(b, flops, stored, token, score) ==
    LET moved(s) == s.m * token + s.m * s.n * score
        bytes(s) == MemoryDuration(s.n * stored * Precision * ReadTime, 0,
                                   moved(s) * Precision * IntermTime)
    IN  [flops  |-> flops,
         bytes  |-> (Context(b) * stored + Total(b, moved)) * Precision,
         time   |-> Larger(flops * FlopTime["GPU"], Total(b, bytes)),
         reads  |-> Context(b) * stored * Precision,
         writes |-> 0]

\* Mutant: keys and values are read as one cache.
OneCacheMutant(b) ==
    CachePhase(b, 4 * HeadDim * NumHeads * Pairs(b),
               HeadDim * NumKvHeads, 2 * HeadDim * NumHeads, 0)

GenFlashGPU(b) ==
    CachePhase(b, 4 * HeadDim * NumHeads * Pairs(b),
               2 * HeadDim * NumKvHeads, 2 * HeadDim * NumHeads, 0)

GenScoringGPU(b) ==
    CachePhase(b, 2 * HeadDim * NumHeads * Pairs(b),
               HeadDim * NumKvHeads, HeadDim * NumHeads, NumHeads)

GenSoftmaxGPU(b) == Compute("GPU", 7 * NumHeads * Pairs(b))

GenContextGPU(b) == GenScoringGPU(b)

AttentionGenGPU(layer, flash, b) ==
    LET c == Clamped(layer, b)
    IN  IfGenerating(b,
            IF flash THEN GenFlashGPU(c)
            ELSE Plus(GenScoringGPU(c), Plus(GenSoftmaxGPU(c), GenContextGPU(c))))

(* On the logic die and the PIM units: one matrix-vector product for the   *)
(* scores, one for the context, over rows padded to a multiple of four.    *)

Padded(b) == Total(b, LAMBDA s : 4 * ((s.n + 3) \div 4))

GenScoringLogic(b) ==
    Roofline("LOGIC", 2 * HeadDim * NumHeads * Pairs(b),
             Context(b) * HeadDim * NumKvHeads, Padded(b) * HeadDim * NumKvHeads, 0)

\* Mutant: the context is computed once for each head of keys and values.
KvHeadsMutant(b) ==
    Roofline("LOGIC", 2 * HeadDim * NumKvHeads * Pairs(b),
             Context(b) * HeadDim * NumKvHeads, Padded(b) * HeadDim * NumKvHeads, 0)

GenContextLogic(b) ==
    Roofline("LOGIC", 2 * HeadDim * NumHeads * Pairs(b),
             Context(b) * HeadDim * NumKvHeads, Padded(b) * HeadDim * NumKvHeads, 0)

AttentionGenLogic(b) ==
    IfGenerating(b, Plus(GenScoringLogic(b), GenContextLogic(b)))

\* PIM time is the memory time multiplied by the operations per byte.
GenScoringPIM(b) ==
    [GenScoringLogic(b) EXCEPT
        !.time = 2 * HeadDim * NumHeads * Pairs(b) * ByteTime["PIM"]]

GenContextPIM(b) ==
    [GenContextLogic(b) EXCEPT
        !.time = 2 * HeadDim * NumHeads * Pairs(b) * ByteTime["PIM"]]

AttentionGenPIM(b) == IfGenerating(b, Plus(GenScoringPIM(b), GenContextPIM(b)))

----------------------------------------------------------------------------
(* Multi-head latent attention over decompressed keys and values, one set  *)
(* per head.                                                               *)

MLAFlash(p, b) ==
    LET row == QkHeadDim + HeadDim
    IN  Roofline(p, 2 * row * NumHeads * Pairs(b),
                 NumHeads * row * (Tokens(b) + Context(b)),
                 NumHeads * (Size(b) * QkHeadDim + Context(b) * row),
                 NumHeads * Size(b) * HeadDim)

MLAScoring(p, b) ==
    Roofline(p, 2 * QkHeadDim * NumHeads * Pairs(b),
             NumHeads * (QkHeadDim * (Tokens(b) + Context(b)) + Pairs(b)),
             NumHeads * QkHeadDim * (Size(b) + Context(b)),
             NumHeads * Context(b))

\* The memory time of the softmax counts, its bytes do not.
MLASoftmax(p, b) ==
    PerSeq(b, LAMBDA s :
        [Roofline(p, 7 * s.m * s.n * NumHeads, 2 * s.m * s.n * NumHeads,
                  s.m * s.n * NumHeads, s.m * s.n * NumHeads)
            EXCEPT !.bytes = 0])

MLAContext(p, b) ==
    Roofline(p, 2 * HeadDim * NumHeads * Pairs(b),
             NumHeads * (HeadDim * (Tokens(b) + Context(b)) + Pairs(b)),
             NumHeads * Context(b) * (1 + HeadDim),
             NumHeads * Size(b) * HeadDim)

MLAGenFlashGPU(b)   == MLAFlash("GPU", b)
MLAGenScoringGPU(b) == MLAScoring("GPU", b)
MLAGenSoftmaxGPU(b) == MLASoftmax("GPU", b)
MLAGenContextGPU(b) == MLAContext("GPU", b)

MLAGenFlashLogic(b)   == MLAFlash("LOGIC", b)
MLAGenScoringLogic(b) == MLAScoring("LOGIC", b)
MLAGenSoftmaxLogic(b) == MLASoftmax("LOGIC", b)
MLAGenContextLogic(b) == MLAContext("LOGIC", b)

MLAGenFlashPIM(b)   == MLAFlash("PIM", b)
MLAGenScoringPIM(b) == MLAScoring("PIM", b)
MLAGenSoftmaxPIM(b) == MLASoftmax("PIM", b)
MLAGenContextPIM(b) == MLAContext("PIM", b)

MLAGenStandard(p, b) ==
    CASE p = "GPU"   -> Plus(MLAGenScoringGPU(b), Plus(MLAGenSoftmaxGPU(b), MLAGenContextGPU(b)))
      [] p = "LOGIC" -> Plus(MLAGenScoringLogic(b), Plus(MLAGenSoftmaxLogic(b), MLAGenContextLogic(b)))
      [] p = "PIM"   -> Plus(MLAGenScoringPIM(b), Plus(MLAGenSoftmaxPIM(b), MLAGenContextPIM(b)))

MLAGenFlash(p, b) ==
    CASE p = "GPU"   -> MLAGenFlashGPU(b)
      [] p = "LOGIC" -> MLAGenFlashLogic(b)
      [] p = "PIM"   -> MLAGenFlashPIM(b)

MLAGen(p, flash, b) ==
    IfGenerating(b, IF flash THEN MLAGenFlash(p, b) ELSE MLAGenStandard(p, b))

----------------------------------------------------------------------------
(* The absorbed form: every head works on the shared latent rows.          *)

\* The operations are counted for one token, whatever m is.
AbsorbFlash(p, b) ==
    Roofline(p, 2 * NumHeads * (LatentDim + KvLoraRank) * Context(b),
             Size(b) * NumHeads * (LatentDim + KvLoraRank) + Context(b) * LatentDim,
             Size(b) * NumHeads * LatentDim + Context(b) * LatentDim,
             Size(b) * NumHeads * KvLoraRank)

\* Scores against k columns of the latent rows: KvLoraRank without position
\* encoding, QkRopeHeadDim with it.
AbsorbScoring(p, k, b) ==
    Roofline(p, 2 * k * NumHeads * Pairs(b),
             Tokens(b) * k * NumHeads + k * Context(b) + Pairs(b) * NumHeads,
             Size(b) * k * NumHeads + k * Context(b),
             NumHeads * Context(b))

AbsorbSoftmax(p, b) ==
    PerSeq(b, LAMBDA s :
        Roofline(p, 7 * s.m * s.n * NumHeads, 2 * s.m * s.n * NumHeads,
                 s.m * s.n * NumHeads, s.m * s.n * NumHeads))

AbsorbContext(p, b) ==
    Roofline(p, 2 * KvLoraRank * NumHeads * Pairs(b),
             Pairs(b) * NumHeads + Context(b) * KvLoraRank + Tokens(b) * KvLoraRank * NumHeads,
             NumHeads * Context(b) + Context(b) * KvLoraRank,
             Size(b) * KvLoraRank * NumHeads)

AbsorbGenFlashGPU(b)   == AbsorbFlash("GPU", b)
AbsorbGenNoPEGPU(b)    == AbsorbScoring("GPU", KvLoraRank, b)
AbsorbGenRoPEGPU(b)    == AbsorbScoring("GPU", QkRopeHeadDim, b)
AbsorbGenSoftmaxGPU(b) == AbsorbSoftmax("GPU", b)
AbsorbGenContextGPU(b) == AbsorbContext("GPU", b)

AbsorbGenFlashLogic(b)   == AbsorbFlash("LOGIC", b)
AbsorbGenNoPELogic(b)    == AbsorbScoring("LOGIC", KvLoraRank, b)
AbsorbGenRoPELogic(b)    == AbsorbScoring("LOGIC", QkRopeHeadDim, b)
AbsorbGenSoftmaxLogic(b) == AbsorbSoftmax("LOGIC", b)
AbsorbGenContextLogic(b) == AbsorbContext("LOGIC", b)

AbsorbGenFlashPIM(b)   == AbsorbFlash("PIM", b)
AbsorbGenNoPEPIM(b)    == AbsorbScoring("PIM", KvLoraRank, b)
AbsorbGenRoPEPIM(b)    == AbsorbScoring("PIM", QkRopeHeadDim, b)
AbsorbGenSoftmaxPIM(b) == AbsorbSoftmax("PIM", b)
AbsorbGenContextPIM(b) == AbsorbContext("PIM", b)

AbsorbGenStandard(p, b) ==
    CASE p = "GPU" ->
            Plus(AbsorbGenNoPEGPU(b), Plus(AbsorbGenRoPEGPU(b),
                 Plus(AbsorbGenSoftmaxGPU(b), AbsorbGenContextGPU(b))))
      [] p = "LOGIC" ->
            Plus(AbsorbGenNoPELogic(b), Plus(AbsorbGenRoPELogic(b),
                 Plus(AbsorbGenSoftmaxLogic(b), AbsorbGenContextLogic(b))))
      [] p = "PIM" ->
            Plus(AbsorbGenNoPEPIM(b), Plus(AbsorbGenRoPEPIM(b),
                 Plus(AbsorbGenSoftmaxPIM(b), AbsorbGenContextPIM(b))))

AbsorbGenFlash(p, b) ==
    CASE p = "GPU"   -> AbsorbGenFlashGPU(b)
      [] p = "LOGIC" -> AbsorbGenFlashLogic(b)
      [] p = "PIM"   -> AbsorbGenFlashPIM(b)

AbsorbMLAGen(p, flash, b) ==
    IfGenerating(b, IF flash THEN AbsorbGenFlash(p, b) ELSE AbsorbGenStandard(p, b))
=============================================================================
