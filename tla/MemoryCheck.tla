---------------------------- MODULE MemoryCheck ----------------------------
(***************************************************************************)
(* The memory of a configuration: how the layers are dealt to the pipeline *)
(* stages (get_stage_layer_counts), what a device of each stage has to     *)
(* hold (evaluateStageMemory), and what Cluster::checkMemorySize decides:  *)
(* to run, to run with a smaller batch, or to stop.                        *)
(*                                                                         *)
(* One device per stage is looked at, as in the code.  Sizes are whole     *)
(* numbers of bytes; the dimensions are divided by the degree of tensor    *)
(* parallelism without a remainder.                                        *)
(*                                                                         *)
(* A definition named ...Mutant is the one after it with a plausible bug.  *)
(***************************************************************************)
EXTENDS Integers, FiniteSets, FiniteSetsExt, SequencesExt

CONSTANTS
  Configurations,            \* bound: the configurations to check
  NeTp, ETp,                 \* ne_tp_dg, e_tp_dg
  HiddenDim, HeadDim, NumHeads, NumKvHeads,
  QLoraRank, KvLoraRank, QkRopeHeadDim,
  IntermediateDim, ExpertIntermediateDim, FfnWay, NVocab,
  NumRoutedExpert, NumSharedExpert, TopK,
  PrecisionByte,
  InputLen, OutputLen,
  FullStride, Window,        \* chunked_attention_full_stride and _window
  LayerWeight, VocabWeight,  \* bytes of the weights of a layer, of an end stage
  TracedActivation           \* bytes of a layer's activation tensors

Attentions == {"standard", "latent", "absorbed"}
Configuration ==
  [layers : Nat \ {0}, pp : Nat \ {0}, dp : Nat \ {0}, batch : Nat \ {0},
   attention : Attentions, compressed : BOOLEAN, chunked : BOOLEAN,
   experts : BOOLEAN,         \* expert_freq is not 0
   decode : BOOLEAN,          \* decode_mode
   disagg : BOOLEAN,          \* disagg_system with use_flash_attention
   hbf : BOOLEAN,             \* gpu_gen starts with "HBF"
   capacity : Nat, buffer : Nat,  \* memory_capacity, intermediate_buffer
   ignoreBuffer : BOOLEAN, exit : BOOLEAN, capLimit : BOOLEAN]

ASSUME MemoryAssumption ==
  /\ Configurations \subseteq Configuration
  /\ \A c \in Configurations :
       /\ c.batch >= c.dp                                   \* Scheduler::Scheduler
       /\ c.layers >= c.pp
       /\ c.chunked \/ c.experts => c.layers % c.pp = 0     \* get_stage_layer_counts
       /\ c.chunked => (c.layers \div c.pp) % FullStride = 0
       /\ c.chunked => c.attention = "standard"
       /\ c.attention # "standard" => QkRopeHeadDim # 0     \* Decoder::Decoder
  /\ {NeTp, ETp, NumHeads, NumKvHeads, HeadDim, PrecisionByte, InputLen, OutputLen,
      FullStride, Window, NumRoutedExpert, TopK, FfnWay} \subseteq Nat \ {0}
  /\ {HiddenDim, QLoraRank, KvLoraRank, QkRopeHeadDim, IntermediateDim,
      ExpertIntermediateDim, NVocab, NumSharedExpert, LayerWeight, VocabWeight,
      TracedActivation} \subseteq Nat
  /\ NumHeads % NeTp = 0 /\ NumKvHeads % NeTp = 0

VARIABLES
  c,           \* the configuration
  priority,    \* the stages in the order std::sort leaves them in
  stats,       \* stage_stats
  outcome,     \* what checkMemorySize and main go on to do
  outOfMemory, \* out_of_memory
  totalBatch, batchPerDp   \* total_batch_size and batch_size_per_dp

memoryVars == <<c, priority, stats, outcome, outOfMemory, totalBatch, batchPerDp>>

-----------------------------------------------------------------------------
(* Layers of the stages *)

AbsDiff(a, b) == IF a >= b THEN a - b ELSE b - a
\* Twice the distance of a stage from the middle.
FromCentre(pp, stage) == AbsDiff(2 * stage, pp - 1)

\* With the stages sorted from the ends inwards.
EndsFirstMutant(pp) ==
  {p \in [1 .. pp -> 0 .. pp - 1] :
     /\ IsInjective(p)
     /\ \A i, j \in 1 .. pp : i < j => FromCentre(pp, p[i]) >= FromCentre(pp, p[j])}

\* The orders std::sort may leave, which does not keep equal stages in order.
Priorities(pp) ==
  {p \in [1 .. pp -> 0 .. pp - 1] :
     /\ IsInjective(p)
     /\ \A i, j \in 1 .. pp : i < j => FromCentre(pp, p[i]) <= FromCentre(pp, p[j])}

LayerCount(stage) ==
  c.layers \div c.pp +
    (IF stage \in {priority[i] : i \in 1 .. c.layers % c.pp} THEN 1 ELSE 0)

StageStart(stage) == MapThenSumSet(LayerCount, 0 .. stage - 1)
StageLayers(stage) == StageStart(stage) .. StageStart(stage) + LayerCount(stage) - 1

-----------------------------------------------------------------------------
(* What a stage holds *)

TotalLen == InputLen + OutputLen

EffectiveKvLen(layer, len) ==
  IF ~c.chunked \/ layer % FullStride = 0 THEN len
  ELSE IF len <= Window THEN len ELSE Window

OfLayers(stage, F(_)) == MapThenSumSet(F, StageLayers(stage))

\* The caches that attention on heads, and on latent rows, registers for len
\* tokens of each sequence of a batch.
HeadCache(len, batch) == batch * (NumKvHeads \div NeTp) * 2 * len * HeadDim * PrecisionByte
LatentRowsCache(len, batch) == batch * (len * KvLoraRank + len * QkRopeHeadDim) * PrecisionByte

\* The cache of a layer: latent attention keeps heads or compressed rows, its
\* absorbed form always the rows; only grouped-query attention has windows.
CacheBytes(layer, batch) ==
  CASE c.attention = "standard" -> HeadCache(EffectiveKvLen(layer, TotalLen), batch)
    [] c.attention = "latent"   -> IF c.compressed THEN LatentRowsCache(TotalLen, batch)
                                                   ELSE HeadCache(TotalLen, batch)
    [] c.attention = "absorbed" -> LatentRowsCache(TotalLen, batch)

\* The check counts rows where the flag asks for them and keys are rotated.
CountsRows == c.attention # "standard" /\ c.compressed

\* With the window taken for the layers that keep everything as well.
WindowOnlyMutant(stage) ==
  IF CountsRows
    THEN TotalLen * (KvLoraRank + QkRopeHeadDim) * LayerCount(stage) * PrecisionByte
    ELSE 2 * OfLayers(stage, LAMBDA l : EffectiveKvLen(1, TotalLen))
           * HeadDim * (NumKvHeads \div NeTp) * PrecisionByte

\* computeStageKvPerSeq: what one more sequence needs.
KvPerSeq(stage) ==
  IF CountsRows
    THEN TotalLen * (KvLoraRank + QkRopeHeadDim) * LayerCount(stage) * PrecisionByte
    ELSE 2 * OfLayers(stage, LAMBDA l : EffectiveKvLen(l, TotalLen))
           * HeadDim * (NumKvHeads \div NeTp) * PrecisionByte

\* The batch whose activations are held at one time: a replica's microbatch.
ActBatch == (batchPerDp + c.pp - 1) \div c.pp
ExpertBatch == IF c.experts THEN (ActBatch * c.dp * TopK) \div NumRoutedExpert ELSE 0
ExpertsPerDevice == (NumRoutedExpert * ETp) \div (NeTp * c.dp)

Larger(a, b) == IF a >= b THEN a ELSE b

LoraRank(rank) == IF c.attention = "standard" THEN 0 ELSE rank

\* Activations of a layer as evaluateStageMemory adds them up: a row per
\* sequence in decode mode, a row per token of the prompt otherwise.
LayerActivation ==
  LET rows == ActBatch * (IF c.decode THEN 1 ELSE InputLen)
      expertRows == ExpertBatch * (IF c.decode THEN 1 ELSE InputLen)
      context == IF c.decode THEN TotalLen ELSE InputLen
      keysAndValues ==
        CASE c.attention = "absorbed" -> 2 * (NumHeads \div NeTp) * KvLoraRank
          [] c.attention # "absorbed" /\ c.decode /\ c.compressed ->
               2 * TotalLen * HeadDim * (NumHeads \div NeTp)
          [] OTHER -> 2 * HeadDim * (NumHeads \div NeTp)
  IN  PrecisionByte *
        (rows * (2 * HiddenDim + LoraRank(QLoraRank) + LoraRank(KvLoraRank)
                 + LoraRank(QkRopeHeadDim)
                 + (3 * LoraRank(QkRopeHeadDim) + HeadDim) * (NumHeads \div NeTp)
                 + (NumHeads \div NeTp) * HeadDim
                 + keysAndValues
                 + 2 * context * (NumHeads \div NeTp))
         + (ExpertsPerDevice + NumSharedExpert) * expertRows *
             (3 * ExpertIntermediateDim + HiddenDim))

\* A decode step of a disaggregated system with flash attention: the largest
\* of a dense block, an expert block and the vocabulary projection.
FlashDecodeActivation ==
  LET dense == ActBatch * (2 * HiddenDim + (IntermediateDim * (FfnWay - 1)) \div NeTp)
      expert == ExpertBatch * (2 * HiddenDim + (HiddenDim * (c.dp - 1)) \div c.dp
                               + (ExpertIntermediateDim * (FfnWay - 1)) \div ETp)
      lmHead == Larger(ActBatch * (HiddenDim + NVocab \div NeTp), ActBatch * NVocab)
  IN  PrecisionByte * Larger(Larger(dense, expert), lmHead)

Activation ==
  IF c.attention # "standard" THEN LayerActivation
  ELSE IF c.decode /\ c.disagg THEN FlashDecodeActivation
  ELSE TracedActivation

\* Module::get_size: the weights and caches below the model of the device.
Weight(stage) ==
  LayerWeight * LayerCount(stage)
    + (IF stage = 0 THEN VocabWeight ELSE 0) + (IF stage = c.pp - 1 THEN VocabWeight ELSE 0)
Cache(stage, batch) == OfLayers(stage, LAMBDA l : CacheBytes(l, batch))

StageMemory(stage) ==
  LET act == IF c.hbf THEN 0 ELSE Activation
  IN  [total |-> act + Weight(stage) + Cache(stage, batchPerDp),
       fixed |-> act + Weight(stage),
       kvPerSeq |-> KvPerSeq(stage),
       bufferExceeded |-> c.hbf /\ Activation > c.buffer]

-----------------------------------------------------------------------------
(* checkMemorySize *)

MemoryInit ==
  /\ c \in Configurations
  /\ priority \in Priorities(c.pp)
  /\ stats = << >>
  /\ outcome = "checking"
  /\ outOfMemory = FALSE
  /\ totalBatch = c.batch
  /\ batchPerDp = c.batch \div c.dp

EvaluateStage ==
  /\ outcome = "checking"
  /\ Len(stats) < c.pp
  /\ stats' = Append(stats, StageMemory(Len(stats)))
  /\ UNCHANGED <<c, priority, outcome, outOfMemory, totalBatch, batchPerDp>>

Evaluated == outcome = "checking" /\ Len(stats) = c.pp
Exceeded(stat) == stat.total > c.capacity
CapacityOom == \E i \in 1 .. Len(stats) : Exceeded(stats[i])
BufferOom == ~c.ignoreBuffer /\ \E i \in 1 .. Len(stats) : stats[i].bufferExceeded

Fits ==
  /\ Evaluated
  /\ ~CapacityOom /\ ~BufferOom
  /\ outcome' = "run"
  /\ UNCHANGED <<c, priority, stats, outOfMemory, totalBatch, batchPerDp>>

\* computeMemCapLimitedBatch
CapLimitedBatch ==
  Min({c.dp * ((c.capacity - stats[i].fixed) \div stats[i].kvPerSeq) :
         i \in 1 .. Len(stats)}) - 1

\* Division of integers, rounded towards zero.
Quotient(a, b) == IF a >= 0 THEN a \div b ELSE -((-a) \div b)

\* The run goes on with a smaller batch, and the queues are cleared.
Capped ==
  /\ Evaluated
  /\ CapacityOom /\ ~BufferOom /\ ~c.exit /\ c.capLimit
  /\ \A i \in 1 .. Len(stats) : c.capacity >= stats[i].fixed
  /\ outOfMemory' = TRUE
  /\ totalBatch' = CapLimitedBatch
  /\ batchPerDp' = Quotient(CapLimitedBatch, c.dp)
  /\ outcome' = "run"
  /\ UNCHANGED <<c, priority, stats>>

\* The weights alone do not fit: the program stops.
TooSmall ==
  /\ Evaluated
  /\ CapacityOom /\ ~BufferOom /\ ~c.exit /\ c.capLimit
  /\ \E i \in 1 .. Len(stats) : c.capacity < stats[i].fixed
  /\ outOfMemory' = TRUE
  /\ outcome' = "fail"
  /\ UNCHANGED <<c, priority, stats, totalBatch, batchPerDp>>

\* Out of memory, and either left there or run all the same.
OutOfMemory ==
  /\ Evaluated
  /\ CapacityOom \/ BufferOom
  /\ c.exit \/ BufferOom \/ ~c.capLimit
  /\ outOfMemory' = TRUE
  /\ outcome' = IF c.exit THEN "exit" ELSE "run"
  /\ UNCHANGED <<c, priority, stats, totalBatch, batchPerDp>>

MemoryNext == EvaluateStage \/ Fits \/ Capped \/ TooSmall \/ OutOfMemory

-----------------------------------------------------------------------------
(* Properties *)

\* The stages' ranges of layers follow one another and cover the model, none
\* is empty, and a stage nearer to the middle never has fewer layers than one
\* farther out, whichever way equal distances are sorted.
LayersPartitioned ==
  LET stages == 0 .. c.pp - 1
  IN  /\ UNION {StageLayers(s) : s \in stages} = 0 .. c.layers - 1
      /\ \A s, t \in stages :
           /\ StageLayers(s) # {}
           /\ s < t => \A l \in StageLayers(s), m \in StageLayers(t) : l < m
           /\ FromCentre(c.pp, s) < FromCentre(c.pp, t) => LayerCount(s) >= LayerCount(t)

\* After the batch has been capped, what the modules of every stage would
\* register for the new batch fits, and two more sequences per replica would
\* not: the formula of the check agrees with the caches of the model, layer by
\* layer and stage by stage, up to the one sequence it keeps in reserve.  Left
\* out: absorbed attention without the flag of compressed rows, which keeps
\* rows all the same while the check counts heads.
CappedBatchFits ==
  outcome = "run" /\ outOfMemory /\ totalBatch # c.batch
      /\ (c.attention = "absorbed" => c.compressed) =>
    LET need(s, batch) == stats[s + 1].fixed + Cache(s, batch)
    IN  /\ \A s \in 0 .. c.pp - 1 : need(s, batchPerDp) <= c.capacity
        /\ \E s \in 0 .. c.pp - 1 : need(s, batchPerDp + 2) > c.capacity
=============================================================================
