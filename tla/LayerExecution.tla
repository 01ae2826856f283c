---------------------------- MODULE LayerExecution ----------------------------
(***************************************************************************)
(* The passes of one device through the decoder layers it hosts: the       *)
(* tokens the scheduler plans for its batch, the modules of Decoder,       *)
(* Attention and MultiLatentAttention in the order of their forward        *)
(* functions (module/decoder.cpp, layer.cpp, parallel.cpp), what the       *)
(* executor charges for each (hardware/executor.cpp, the cost modules),    *)
(* and the bytes of keys and values written to the memory (linear_impl.cpp,*)
(* module/decode_kv_write.cpp).                                            *)
(*                                                                         *)
(* The device is one of TpDegree that share the heads of a layer, the width*)
(* of its feed-forward and the vocabulary: NumHeads and NumKvHeads are the *)
(* heads of a device.  Dense layers of one stage, without the all-reduces  *)
(* between the devices, which take no part in the costs looked at here;    *)
(* ModuleGraph and ExpertExchange have collectives, stages and experts.    *)
(* Prompts and outputs of the batch are given, and a sequence that ends is *)
(* not replaced; Scheduler has admission.  The memory is of an HBF         *)
(* generation, the only ones whose written bytes the code counts.          *)
(***************************************************************************)
EXTENDS AttentionSumCost, LinearCost

CONSTANTS
    Nets,                       \* the networks and systems examined
    NumLayers,
    TpDegree,                   \* ne_tp_dg
    HiddenDim, QLoraRank, IntermediateDim, NVocab,
    GroupedKvHeads,             \* NumKvHeads of grouped-query attention
    NumSeqs,
    InputLen, OutputLen,        \* of each sequence
    MaxProcessToken

\* A network of grouped-query attention has fewer heads of keys and values
\* and rotates nothing; one of latent attention has as many as of queries.
Grouped == INSTANCE AttentionSumCost
               WITH NumKvHeads <- GroupedKvHeads, QkRopeHeadDim <- 0
GroupedLinear == INSTANCE LinearCost
               WITH NumKvHeads <- GroupedKvHeads, QkRopeHeadDim <- 0

Seqs == 1 .. NumSeqs

\* kind: grouped-query attention, multi-head latent attention, or its
\* absorbed form.  decode: disaggregated decode, which gets its prompts
\* prefilled; compressed: the latent rows are what is cached.
Net == [kind : {"MHA", "MLA", "Absorbed"}, flashMla : BOOLEAN, flashAttention : BOOLEAN,
        compressed : BOOLEAN, decode : BOOLEAN, ffnWay : {2, 3}, procs : Seq(Processors)]

ASSUME LayerExecutionAssumption ==
    /\ Nets \subseteq Net
    /\ \A net \in Nets : net.procs \in {<<"GPU">>, <<"LOGIC">>, <<"GPU", "LOGIC">>, <<"GPU", "PIM">>}
    /\ {NumLayers, TpDegree, HiddenDim, QLoraRank, IntermediateDim, NVocab, NumSeqs}
          \subseteq Nat \ {0}
    /\ IntermediateDim % TpDegree = 0 /\ HiddenDim % TpDegree = 0 /\ NVocab % TpDegree = 0
    /\ InputLen \in [Seqs -> Nat \ {0}]
    /\ OutputLen \in [Seqs -> Nat \ {0}]
    /\ MaxProcessToken \in Nat /\ MaxProcessToken >= NumSeqs \* a share of 0 ends no prompt
    /\ GroupedKvHeads \in Nat \ {0} /\ NumHeads % GroupedKvHeads = 0
    /\ QkRopeHeadDim > 0 /\ NumKvHeads = NumHeads
    /\ FullStride \in Nat \ {0} /\ KvWindow \in Nat

\* The operations of an output and its keys are int products too
\* (attention_gen_impl.cpp), taken to fit: one token against a whole context.
ASSUME OneTokenFits == \A s \in Seqs : QkHeadDim * (InputLen[s] + OutputLen[s]) < IntRange

\* num_heads of the network
AllHeads == NumHeads * TpDegree

TotalLen(s) == InputLen[s] + OutputLen[s] - 1

VARIABLES
    net,
    reused,         \* prompt_reused_len, or the prompt's part found in the cache
    start,          \* current_len at first
    current,        \* current_len
    tokens,         \* num_process_token
    bulkWritten,    \* sequences with this device in prompt_kv_written_devices
    layer, pc,      \* the module that comes next; pc = 0: between two passes
    deviceTime,
    kvWritten,      \* cumulative_kv_write_bytes
    work,           \* operations charged for attention to prompts and outputs
    executed        \* the last module executed and what it was charged

vars == <<net, reused, start, current, tokens, bulkWritten, layer, pc, deviceTime,
          kvWritten, work, executed>>

----------------------------------------------------------------------------
(* The batch.                                                              *)

Present == {s \in Seqs : current[s] < TotalLen(s)}
InSum(s) == current[s] < InputLen[s]

\* Those of the batch in S, with the tokens and the keys of each.
Select(S) == [s \in Present \intersect S |-> [m |-> tokens[s], n |-> current[s] + tokens[s]]]

Sums == Select({s \in Seqs : InSum(s)})
Gens == Select({s \in Seqs : ~InSum(s)})
Batch == Select(Seqs)
Rows == Tokens(Batch)

\* setMetadata: prompts share the budget; elsewhere says that another replica
\* holds a prompt, started which sequences may decode.
Planned(elsewhere, started) ==
    LET sums == {s \in Present : InSum(s)}
        share == MaxProcessToken \div Cardinality(sums)
        decodes == net.decode \/ (sums = {} /\ ~elsewhere)
    IN  [s \in Seqs |->
            IF s \in sums THEN Smaller(share, InputLen[s] - current[s])
            ELSE IF s \in Present /\ decodes /\ s \in started THEN 1 ELSE 0]

----------------------------------------------------------------------------
(* The modules of a layer.                                                 *)

\* Prompts and outputs are split, attended to one after the other on the
\* device's heads, and merged.
AttentionParallel == <<"attention_sum", "attention_gen">>

Attention == <<"attn_qkv_proj">> \o AttentionParallel \o <<"attn_o_proj">>

LatentModules == <<"attn_q_down_proj", "attn_kv_down_proj", "attn_kr_proj", "k_rope",
                   "latent_q_layer_norm", "latent_kv_layer_norm">>

MultiLatentAttention ==
    LatentModules \o <<"attn_q_up_proj", "attn_qr_proj", "attn_kv_up_proj">>
    \o AttentionParallel \o <<"attn_o_proj">>

AbsorbedAttention ==
    LatentModules \o <<"attn_q_up_proj", "attn_qr_proj", "q_rope", "attn_tr_k_up_proj">>
    \o AttentionParallel \o <<"attn_v_up_proj", "attn_o_proj">>

FeedForward2Way == <<"ffn_up_proj", "activation", "ffn_down_proj">>
FeedForward3Way == <<"gate_proj", "activation", "up_proj", "down_proj">>

Decoder ==
    <<"input_layer_norm">>
    \o (CASE net.kind = "MHA" -> Attention
          [] net.kind = "MLA" -> MultiLatentAttention
          [] net.kind = "Absorbed" -> AbsorbedAttention)
    \o <<"residual_1", "post_attn_layer_norm">>
    \o (IF net.ffnWay = 2 THEN FeedForward2Way ELSE FeedForward3Way)
    \o <<"residual_2">>

LmHead == <<"lm_head_col_linear">>

\* The layers, then the vocabulary.
Modules == IF layer < NumLayers THEN Decoder ELSE LmHead

SplitRows == [sum |-> Tokens(Sums), gen |-> Tokens(Gens)]
MergedRows == SplitRows.sum + SplitRows.gen

\* Rows of latent keys and values that are decompressed.
RestoredRows ==
    IF net.compressed
    THEN Tokens(Sums) + Total(Gens, LAMBDA s : s.n - s.m) + Size(Gens)
    ELSE Rows

\* The sines and cosines are sized by the last sequence of the batch.
RotatedLen == IF Present = {} THEN 0 ELSE Batch[Max(Present)].n

\* Modules that add to the clock themselves.
OwnTime(module) ==
    CASE module \in {"input_layer_norm", "post_attn_layer_norm"} -> LayerNorm(Rows, HiddenDim)
      [] module \in {"residual_1", "residual_2"} -> Residual(Rows, HiddenDim)
      [] module = "latent_q_layer_norm" -> LayerNorm(Rows, QLoraRank)
      [] module = "latent_kv_layer_norm" -> LayerNorm(Rows, KvLoraRank)
      [] module = "k_rope" -> RoPE(1, Rows, QkRopeHeadDim, RotatedLen)
      [] module = "q_rope" -> RoPE(NumHeads, Rows, QkRopeHeadDim, RotatedLen)

HasOwnTime == {"input_layer_norm", "post_attn_layer_norm", "residual_1", "residual_2",
               "latent_q_layer_norm", "latent_kv_layer_norm", "k_rope", "q_rope"}

----------------------------------------------------------------------------
(* What a module is charged on a processor.                                *)

\* use_flash_attention stays at its default where grouped-query attention
\* generates.
SelfAttentionGen(p) ==
    CASE p = "GPU"   -> Grouped!AttentionGenGPU(layer, TRUE, Gens)
      [] p = "LOGIC" -> Grouped!AttentionGenLogic(Gens)
      [] p = "PIM"   -> Grouped!AttentionGenPIM(Gens)

MultiLatentAttentionGen(p) == MLAGen(p, net.flashMla, Gens)
AbsorbedAttentionGen(p) == AbsorbMLAGen(p, net.flashMla, Gens)

SelfAttentionSum(p) ==
    CASE p = "GPU"   -> Grouped!AttentionSumGPU(Sums)
      [] p = "LOGIC" -> Grouped!AttentionSumLogic(Sums)
      [] p = "PIM"   -> Grouped!AttentionSumPIM(Sums)

MultiLatentAttentionSum(p) == MLASum(p, net.flashAttention, Sums)
AbsorbedAttentionSum(p) == AbsorbMLASum(p, Sums)

SelfAttentionParallel(p, module) ==
    IF module = "attention_sum" THEN SelfAttentionSum(p) ELSE SelfAttentionGen(p)

MultiLatentAttentionParallel(p, module) ==
    IF module = "attention_sum" THEN MultiLatentAttentionSum(p) ELSE MultiLatentAttentionGen(p)

AbsorbMLAParallel(p, module) ==
    IF module = "attention_sum" THEN AbsorbedAttentionSum(p) ELSE AbsorbedAttentionGen(p)

ExecuteAttention(p, module) ==
    CASE net.kind = "MHA"      -> SelfAttentionParallel(p, module)
      [] net.kind = "MLA"      -> MultiLatentAttentionParallel(p, module)
      [] net.kind = "Absorbed" -> AbsorbMLAParallel(p, module)

\* A k x n layer of the network, of which a device has some columns or rows.
ColumnParallelLinear(p, m, k, n) == Linear(p, m, k, n \div TpDegree)
RowParallelLinear(p, m, k, n)    == Linear(p, m, k \div TpDegree, n)

\* BatchedLinear::forward; a plain one is a single product for all heads.
BatchedModule(p, plain, duplicated, m, k, n) ==
    IF plain THEN Linear(p, m, k, n)
             ELSE BatchedLinear(p, duplicated, AllHeads \div TpDegree, m, k, n)

BatchedColumnParallelLinear(p, duplicated, m, k, n) ==
    BatchedModule(p, FALSE, duplicated, m, k, n \div AllHeads)

BatchedRowParallelLinear(p, plain, m, k, n) ==
    BatchedModule(p, plain, FALSE, m, IF plain THEN k \div TpDegree ELSE k \div AllHeads, n)

AttentionProjections(p, module) ==
    CASE module = "attn_qkv_proj" -> GroupedLinear!QKVLinear(p, Rows, HiddenDim)
      [] module = "attn_o_proj"   ->
            RowParallelLinear(p, MergedRows, HeadDim * AllHeads, HiddenDim)

LatentProjections(p, module) ==
    CASE module = "attn_q_down_proj"  -> Linear(p, Rows, HiddenDim, QLoraRank)
      [] module = "attn_kv_down_proj" -> Linear(p, Rows, HiddenDim, KvLoraRank)
      [] module = "attn_kr_proj"      -> Linear(p, Rows, HiddenDim, QkRopeHeadDim)
      [] module = "attn_kv_up_proj"   ->
            ColumnParallelLinear(p, RestoredRows, KvLoraRank, AllHeads * 2 * HeadDim)
      [] module \in {"attn_q_up_proj", "attn_qr_proj"} ->
            LET n == AllHeads * IF module = "attn_q_up_proj" THEN HeadDim ELSE QkRopeHeadDim
            IN  IF net.kind = "Absorbed"
                THEN BatchedColumnParallelLinear(p, TRUE, Rows, QLoraRank, n)
                ELSE ColumnParallelLinear(p, Rows, QLoraRank, n)
      [] module = "attn_tr_k_up_proj" ->
            BatchedRowParallelLinear(p, FALSE, Rows, HeadDim * AllHeads, KvLoraRank)
      [] module = "attn_v_up_proj" ->
            BatchedColumnParallelLinear(p, FALSE, MergedRows, KvLoraRank, AllHeads * HeadDim)
      [] module = "attn_o_proj" ->
            IF net.kind = "Absorbed"
            THEN BatchedRowParallelLinear(p, TRUE, MergedRows, AllHeads * HeadDim, HiddenDim)
            ELSE RowParallelLinear(p, MergedRows, HeadDim * AllHeads, HiddenDim)

FeedForward2WayProjections(p, module) ==
    IF module = "ffn_up_proj"
    THEN ColumnParallelLinear(p, Rows, HiddenDim, IntermediateDim)
    ELSE RowParallelLinear(p, Rows, IntermediateDim, HiddenDim)

FeedForward3WayProjections(p, module) ==
    IF module \in {"gate_proj", "up_proj"}
    THEN ColumnParallelLinear(p, Rows, HiddenDim, IntermediateDim)
    ELSE RowParallelLinear(p, Rows, IntermediateDim, HiddenDim)

\* The activation is computed on the width its input has on the device.
ActivationModule(p) == Activation(p, Rows, IntermediateDim \div TpDegree)

\* executePType
ExecuteOn(p, module) ==
    CASE module \in Range(AttentionParallel) -> ExecuteAttention(p, module)
      [] module = "activation" -> ActivationModule(p)
      [] module \in {"ffn_up_proj", "ffn_down_proj"} -> FeedForward2WayProjections(p, module)
      [] module \in {"gate_proj", "up_proj", "down_proj"} ->
            FeedForward3WayProjections(p, module)
      [] module = "lm_head_col_linear" -> ColumnParallelLinear(p, Rows, HiddenDim, NVocab)
      [] OTHER -> IF net.kind = "MHA" THEN AttentionProjections(p, module)
                                      ELSE LatentProjections(p, module)

\* Only grouped-query attention is tried on all the processors; everything
\* else runs on the first, the high one.
Candidates(module) ==
    IF net.kind = "MHA" /\ module \in Range(AttentionParallel)
    THEN net.procs
    ELSE <<Head(net.procs)>>

\* The shortest status is kept; a duration of 0 stands for none so far.
Optimal(statuses) ==
    FoldLeft(LAMBDA best, status :
                IF best.time = 0 \/ best.time > status.time THEN status ELSE best,
             Nothing, statuses)

----------------------------------------------------------------------------
(* Keys and values written once for a prompt that was prefilled elsewhere. *)

\* Mutant: what was found in the cache before the window counts as kept.
NoWindowMutant(l, len, reusedLen) == Smaller(reusedLen, len)

\* effective_reused_kv_len
EffectiveReusedKvLen(l, len, reusedLen) ==
    IF l % FullStride = 0
    THEN Smaller(reusedLen, len)
    ELSE Larger(0, Smaller(reusedLen, len) - Larger(0, len - KvWindow))

\* num_kv_heads of the network
KvHeads == TpDegree * IF net.kind = "MHA" THEN GroupedKvHeads ELSE NumKvHeads

NewKvTokens(l, s) ==
    Larger(0, EffectiveKvLen(l, current[s]) - EffectiveReusedKvLen(l, current[s], reused[s]))

BulkBytes(s) ==
    SumFunction([l \in 0 .. NumLayers - 1 |->
        ((2 * NewKvTokens(l, s) * HeadDim * KvHeads) \div TpDegree) * Precision])

FirstVisits == {s \in Present \ bulkWritten : tokens[s] # 0}

BulkWrite == SumFunction([s \in FirstVisits |-> BulkBytes(s)])

----------------------------------------------------------------------------
NoModule == [name |-> "none", layer |-> 0, kept |-> Nothing]

\* A prompt may be partly found in the cache; the disaggregated decode starts
\* after the prompt, the seeded one further on.
Init ==
    /\ net \in Nets
    /\ \E kept \in BOOLEAN : reused = [s \in Seqs |-> IF kept THEN InputLen[s] \div 2 ELSE 0]
    /\ IF net.decode
       THEN \E seeded \in BOOLEAN :
                start = [s \in Seqs |->
                            InputLen[s] + IF seeded THEN Larger(0, OutputLen[s] - 2) ELSE 0]
       ELSE start = reused
    /\ current = start
    /\ tokens = [s \in Seqs |-> 0]
    /\ bulkWritten = {}
    /\ layer = 0 /\ pc = 0
    /\ deviceTime = 0 /\ kvWritten = 0
    /\ work = [sum |-> 0, gen |-> 0]
    /\ executed = NoModule

\* An iteration resets the device's status, plans tokens and starts a pass.
\* In a disaggregated system the first module writes the prompts of the sequences it has not seen.
StartPass ==
    /\ pc = 0 /\ Present # {}
    /\ \E elsewhere \in BOOLEAN, started \in SUBSET Present :
        /\ net.decode => ~elsewhere /\ started # {}
        /\ ~net.decode => started = Present
        /\ tokens' = Planned(elsewhere, started)
    /\ pc' = IF net.decode THEN -1 ELSE 1
    /\ layer' = 0
    /\ executed' = NoModule
    /\ deviceTime' = 0
    /\ UNCHANGED <<net, reused, start, current, bulkWritten, kvWritten, work>>

DecodeKVWrite ==
    /\ pc = -1
    /\ bulkWritten' = bulkWritten \union FirstVisits
    /\ kvWritten' = kvWritten + BulkWrite
    /\ deviceTime' = deviceTime + BulkWrite * WriteTime
    /\ pc' = 1
    /\ UNCHANGED <<net, reused, start, current, tokens, layer, work, executed>>

\* The module after this one, in this layer or the next.
NextModule ==
    IF pc < Len(Modules) THEN pc' = pc + 1 /\ layer' = layer
                         ELSE pc' = 1 /\ layer' = layer + 1

InPass == pc > 0 /\ layer <= NumLayers

AddTime ==
    /\ InPass /\ Modules[pc] \in HasOwnTime
    /\ deviceTime' = deviceTime + OwnTime(Modules[pc])
    /\ NextModule
    /\ UNCHANGED <<net, reused, start, current, tokens, bulkWritten, kvWritten, work, executed>>

Executed(costs) ==
    LET module == Modules[pc]
        kept == Optimal(costs)
    IN  /\ executed' = [name |-> module, layer |-> layer, kept |-> kept]
        /\ deviceTime' = deviceTime + kept.time
        /\ work' = CASE module = "attention_sum" -> [work EXCEPT !.sum = @ + kept.flops]
                     [] module = "attention_gen" -> [work EXCEPT !.gen = @ + kept.flops]
                     [] OTHER -> work
        /\ kvWritten' = IF module = "attn_qkv_proj" /\ "GPU" \in Range(Candidates(module))
                        THEN kvWritten + GroupedLinear!KVWriteBytes(Rows) ELSE kvWritten

Execution ==
    /\ InPass /\ Modules[pc] \notin HasOwnTime
    /\ LET procs == Candidates(Modules[pc])
       IN  Executed([i \in DOMAIN procs |-> ExecuteOn(procs[i], Modules[pc])])
    /\ NextModule
    /\ UNCHANGED <<net, reused, start, current, tokens, bulkWritten>>

\* Sequence::update, for every sequence of the batch.
EndPass ==
    /\ pc > 0 /\ layer > NumLayers
    /\ current' = [s \in Seqs |-> current[s] + tokens[s]]
    /\ tokens' = [s \in Seqs |-> 0]
    /\ pc' = 0
    /\ executed' = NoModule
    /\ UNCHANGED <<net, reused, start, bulkWritten, layer, deviceTime, kvWritten, work>>

Next == StartPass \/ DecodeKVWrite \/ AddTime \/ Execution \/ EndPass

Spec == Init /\ [][Next]_vars

----------------------------------------------------------------------------
(* Properties.                                                             *)

\* Operations of attention for one query and one key.
PerPair ==
    CASE net.kind = "MHA" -> 4 * HeadDim * NumHeads
      [] net.kind = "MLA" -> 2 * (QkHeadDim + HeadDim) * NumHeads
      [] net.kind = "Absorbed" -> 2 * (LatentDim + KvLoraRank) * NumHeads

\* The query and key pairs of the tokens at positions from + 1 to to, where a
\* token sees at most `window' keys.
CausalPairs(from, to, window) ==
    SumFunction([i \in from + 1 .. to |-> Smaller(i, window)])

OverSeqs(F(_)) == SumFunction([s \in Seqs |-> F(s)])

PromptEnd(s) == Smaller(current[s], InputLen[s])

\* The softmax of a query and a key, where a copy has one.
SoftmaxPerPair == 7 * NumHeads

\* The int products of the prompts at hand are in range.
ProductsFit == \A s \in DOMAIN Sums : ChunkProduct(Sums[s]) < IntRange

\* No chunk that the budget allows has an int product out of range, or only
\* the GPU's copy, which has none, is tried.
ChunksFit ==
    net.kind = "MHA" /\ net.procs # <<"GPU">> =>
        \A s \in Seqs : start[s] < InputLen[s] =>
            ChunkProduct([m |-> Smaller(MaxProcessToken, InputLen[s] - start[s]),
                          n |-> InputLen[s]]) < IntRange

\* A prompt in chunks is charged for every pair of a token and one before it
\* or itself, and at most for every pair with its whole input, whatever
\* chunks the budget made (attention_sum_impl.cpp, setMetadata).  Left out:
\* the tiles of the flash copy, which forget the earlier chunks, and chunks so
\* large that the int products of the logic die's and the PIM units' copies
\* overflow.
PromptWork ==
    (pc = 0 /\ ~(net.kind = "MLA" /\ net.flashAttention) /\ ChunksFit) =>
        /\ work.sum >= NumLayers * (PerPair + SoftmaxPerPair) *
               OverSeqs(LAMBDA s : CausalPairs(start[s], PromptEnd(s), InputLen[s]))
        /\ work.sum <= NumLayers * (PerPair + SoftmaxPerPair) *
               OverSeqs(LAMBDA s : (PromptEnd(s) - Smaller(start[s], PromptEnd(s))) * InputLen[s])

FirstDecoded(s) == Larger(start[s], InputLen[s])

\* Decode is charged for every key a token sees, which on a chunked layer of
\* grouped-query attention may be a window of them, and for nothing else: not
\* for passes in which a sequence waits (attention_gen_impl.cpp).  The
\* absorbed flash copy does count the keys of sequences that wait.
DecodeWork ==
    pc = 0 =>
        LET pairs(w) == OverSeqs(LAMBDA s : CausalPairs(FirstDecoded(s), current[s], w))
            all == NumLayers * pairs(OverSeqs(TotalLen))
            clamped == SumFunction([l \in 0 .. NumLayers - 1 |->
                           pairs(IF l % FullStride = 0 THEN OverSeqs(TotalLen) ELSE KvWindow)])
            softmax == IF net.kind # "MHA" /\ ~net.flashMla THEN SoftmaxPerPair ELSE 0
        IN  /\ work.gen >= (PerPair + softmax) * IF net.kind = "MHA" THEN clamped ELSE all
            /\ ~(net.kind = "Absorbed" /\ net.flashMla) =>
                    work.gen <= (PerPair + softmax) * all

\* Elements cached for a token.
CachedPerToken ==
    CASE net.kind = "MHA" -> 2 * HeadDim * GroupedKvHeads
      [] net.kind = "MLA" -> (QkHeadDim + HeadDim) * NumHeads
      [] net.kind = "Absorbed" -> LatentDim

\* What attention is charged in traffic and in read requests covers the keys
\* and values that its tokens see (all cost modules).  Left out: the tiles of
\* the flash prompt copy, which leave earlier chunks out, and the requests of
\* prompts on the PIM units, which have the shape of something else.
CacheIsRead ==
    LET b == IF executed.name = "attention_sum" THEN Sums ELSE Gens
        keys == Total(b, LAMBDA s :
                    IF s.m = 0 THEN 0
                    ELSE IF net.kind = "MHA" /\ executed.name = "attention_gen"
                    THEN EffectiveKvLen(executed.layer, s.n) ELSE s.n)
        exempt == executed.name = "attention_sum" /\
                    CASE net.kind = "MHA" -> "PIM" \in Range(net.procs)
                      [] net.kind = "MLA" -> net.flashAttention
                      [] OTHER -> FALSE
    IN  (executed.name \in {"attention_sum", "attention_gen"} /\ ~exempt) =>
            /\ executed.kept.bytes >= keys * CachedPerToken * Precision
            /\ executed.kept.reads >= keys * CachedPerToken * Precision

\* The copies of a layer function for the three processors charge the same
\* operations for the same tokens; left out are those that are known not to:
\* the chunked window, which only the GPU applies, grouped-query prompts whose
\* operations only the GPU's copy keeps out of an int, the tiles of the flash
\* prompt copy, batched products, and the activation.
CopiesAgree ==
    LET module == Modules[pc]
        agree == \A p \in Processors :
                    ExecuteOn(p, module).flops = ExecuteOn("GPU", module).flops
        known == CASE module = "attention_gen" -> net.kind = "MHA" => layer % FullStride = 0
                   [] module = "attention_sum" ->
                        /\ ~(net.kind = "MLA" /\ net.flashAttention)
                        /\ net.kind = "MHA" => ProductsFit
                   [] module = "activation"    -> FALSE
                   [] OTHER -> net.kind = "Absorbed" =>
                                   module \notin {"attn_q_up_proj", "attn_qr_proj",
                                                  "attn_tr_k_up_proj", "attn_v_up_proj"}
    IN  InPass /\ module \notin HasOwnTime /\ known => agree

\* Positions of a prompt whose keys and values a layer keeps and did not find
\* in the cache.
KeptPositions(l, s) ==
    {i \in 1 .. start[s] : i > reused[s] /\ (l % FullStride = 0 \/ i > start[s] - KvWindow)}

\* Every key and value is written to the memory once: with the first pass of
\* its sequence what was prefilled elsewhere, with each pass what the pass
\* adds (decode_kv_write.cpp, linear_impl.cpp).  For grouped-query attention,
\* and a device whose GPU runs the projection.
KvWrittenOnce ==
    (pc = 0 /\ net.kind = "MHA" /\ Head(net.procs) = "GPU") =>
        kvWritten = 2 * HeadDim * GroupedKvHeads * Precision *
            OverSeqs(LAMBDA s :
                NumLayers * (current[s] - start[s])
                + IF net.decode /\ current[s] > start[s]
                  THEN SumFunction([l \in 0 .. NumLayers - 1 |-> Cardinality(KeptPositions(l, s))])
                  ELSE 0)
=============================================================================
