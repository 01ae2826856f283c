# A verification model of LLMSimulator_HBF

LLMSimulator_HBF simulates how a cluster serves a language model: it keeps a
queue of requests, plans the tokens of every iteration, runs the modules of the
network on simulated devices to find out how long the iteration takes, and
moves the requests on. These TLA+ modules model the parts of it that have state
and order. TLC checks them on small instances, TLAPS proves the central
properties for every value of the constants.

Paths below are relative to the root of the repository, where the program is
`src/src/` and its entry point `src/eval/test.cpp`.

## 1. The system

| part | state it keeps | operations | correct when |
|---|---|---|---|
| **Scheduler** (`scheduler/`) | `sequence_queue` (FIFO), `running_queue` (a batch for each replica), fields of each sequence, `rotate`, `microbatches` | `fillSequenceQueue`, `fillRunningQueue`, `setMetadata`, `updateScheduler` and its variants, `hittingQueue`, `seedSteadyState...`, `...Microbatch...` | each sequence in one place, capacity and token budget kept, progress lands exactly on the ends of prompt and sequence, everyone is served |
| **Loops** (`hardware/cluster.cpp`) | `total_time`, `sum_machine_time`, `seeded_remaining` | `runIterationMixed`, `runIterationSumGenSplit`, `runIterationPipelineDecode` | prefill and decode are ordered as the mode demands, clocks agree, no iteration is wasted for ever |
| **Microbatches** (scheduler and `cluster.cpp`) | lanes, `next_decode_ready_time`, device times kept across rounds | launch, pass through the stages, complete, refill | lanes and batches hold the same sequences, a token waits for the one before it, lanes stay balanced |
| **Module graph** (`module/module_graph.cpp`, `hardware/node.cpp`, `device.cpp`) | `current_module` of each device, `ready` and `timeboard_synced` of each tensor, `device_time` | `Cluster::run`'s sweep, `check_ready`, `sync_devices`, the restarts | collectives agree on one time, no flag is left over, every pass ends |
| **Expert layers** (`module/route.cpp`, `expert.cpp`, `communication.cpp`, `scheduler/sequence.cpp`) | token counts of the experts and `cur_layer` in the batches | gate, scatter, experts, gather, reductions, transfer between stages | tokens go to the devices that host their experts, what is sent is received, the trace is read at its own layer |
| **Layers of the network** (`module/attention.cpp`, `decoder.cpp`, ...) | shapes of tensors, `prompt_kv_written_devices` | the modules of a decoder layer, in order | each key and value written once, the cache that is seen is read |
| **Cost models** (`hardware/*_impl.cpp`, `executor.cpp`) | none | operations, bytes and requests of each phase of a layer on each processor, roofline, choice of the fastest | charges follow the tokens and keys, however prompts are chunked and on whatever processor |
| **DRAM side** (`dram/`, the PIM controller and HBM3 device inside the vendored Ramulator2) | request buffers, write mode, open rows, timing, memory objects | placing tensors, kernels, enqueue, schedule, refresh, drain | every command served once and in time, no row lost, no overlap, requests end |
| **Memory check** (`cluster.cpp`, `model/util.h`) | batch sizes | `checkMemorySize`, `evaluateStageMemory`, `computeMemCapLimitedBatch`, `get_stage_layer_counts` | layers dealt without gap, a capped batch fits |
| **Flash wear** (`cluster.cpp`) | baseline, counters of each device | baseline at the first decode row, rows, reset | a row states the wear of the worst device in this run |
| **Time board, reports, configuration** | stamps, rows | see `PROJECT.json` | not modelled |

How they interact: a loop calls the scheduler for the plan of an iteration
(`setMetadata`), `Cluster::run` or `runOneMicrobatch` for its duration, the
scheduler again for the progress (`updateScheduler`, `completeMicrobatch`) and
for the refill. The module graph reads the plan through the batch it is given
and writes the token counts of the experts into it; its modules ask the executor
for their duration, and the executor the cost models or the DRAM interface.
Before all of that, `main` has the memory checked, which may lower the batch.
Everything runs in **one thread**: the concurrency is simulated. What is hard is not data races but

* two machine clocks in one loop (`sum_machine_time` and `total_time`);
* devices that run one after the other but stand for parallel ones, each with
  its own clock, and collectives in which the first to pass decides for all;
* microbatches whose passes overlap in simulated time though they are
  simulated one after the other;
* the same fact kept in several places (the stage of a sequence, the members of
  a lane, the number of seeded sequences);
* phases that end at an equality, budgets that are divided, batches that do not
  divide evenly; and loops whose only way on is that something changes;
* work that is charged in pieces (chunks of prompts, passes, layers) by several
  copies of one function, and quantities worked out in two places that have to
  agree: which device hosts an expert, which layer a trace is read at, which
  caches a batch needs, where a tensor lies.

`PROJECT.json` lists every component with what is left out of it, and under
`hazards` the places where these bite, with the properties that watch them.

## 2. The modules

    ContinuousBatching        what a scheduler promises (abstract)
          ^ implemented by
    Scheduler                 queues, planning, progress, refill
      ^ extended by
      |-- MixedLoop           runIterationMixed
      |-- SumGenSplit         runIterationSumGenSplit, two clocks, seeding
      `-- PipelineDecode      runIterationPipelineDecode, microbatches, stages
    ModuleGraph               Cluster::run over the devices' modules
    ExpertExchange            routing, scatter and gather between the devices
    LayerCost <- AttentionGenCost <- AttentionSumCost \
                 LinearCost ---------------------------- LayerExecution
    AddressMapping <- HBM3 <- PimDramController
    MemoryCheck, FlashWear <- Sizing
    ...Proofs, NaturalFacts   theorems (those of MixedLoop in SchedulerProofs, those
                              of SumGenSplit and Sizing in SplitSizingProofs)
    MC...                     values for TLC

**Scheduler.** A variable for each field of the class, and `pc` for the place in
the loop. One action is one step of a loop in the code where the order matters
(one `pushSeq`, one admission of `fillRunningQueue`) and a whole function
elsewhere (`SetMetadata`, `HitUpdate`). A batch is a set: the operations do not
depend on its order, except for microbatches and seeding, where the order is
chosen arbitrarily (`Rankings`). Absolute times are reduced to how far
`gen_start_time` lies ahead of `total_time`, the only comparison that steers
anything. A finished sequence's identity is used again, so runs of any length
need few identities. The number of iterations the user asks for is left out:
the loops go on for ever.

**MixedLoop** and **SumGenSplit** add the body of their loops, an action for
each branch, the early `continue` of an idle iteration included. In
`SumGenSplit` an iteration takes any duration of `IterTimes`; `prefill_ahead` is
a history variable, the end of each sequence's prefill.

**PipelineDecode** adds the lanes and the stage clocks, relative to the clock of
the first stage. `LaunchMicrobatch` and `CompleteMicrobatch` are the two halves
of an iteration over the microbatches, with `runOneMicrobatch` in the second. A
stage is one device with an arbitrary duration: how its devices find that
duration is `ModuleGraph`. `exit_time` is history: when a sequence's last token
left the last stage.

**ModuleGraph** builds the list of modules of every device as `LLM::forward`
traces it (`LLMForward`: embedding or receive, decoder or expert layers, send or
head) and runs the lists in the order of the nodes and devices: `RunModule`
executes the device's next module if it is ready, `NextDevice` leaves a blocked
or finished device, `SweepAgain` is the loop over `check_module_graph_remain`,
and the two restarts are those of an iteration (clocks reset) and of a
microbatch (clocks kept). `came` and `went` are history, cut down to the
collectives some member has yet to pass.

**ExpertExchange** takes the modules of an expert layer one after the other, an
action running a module on all devices of the stage (the barriers between them
are `ModuleGraph`'s): `GateUpdate` counts the tokens of each expert from the
trace or from a draw and moves `cur_layer`; `MoEScatter` and `MoEGather` work
out the bytes a device sends and receives inside and between nodes; `RunExperts`
computes the rows a device's own experts get; `Reduce` and `NextLayer` charge
the reductions and, after the last layer of a stage, the transfer to the next. A replica processes tokens of
one sequence in a pass, drawn experts come from `Picks`, and an expert's row
costs one unit.

**LayerExecution** is one of the `TpDegree` devices of a stage that takes a batch
through prompt chunks and decode: `StartPass` plans tokens as the scheduler does,
`DecodeKVWrite` writes prompts that were prefilled elsewhere, `Execution` runs
the next module with the cost of the fastest processor the configuration names,
`AddTime` the modules that move the clock themselves, and `EndPass` moves the
sequences on. The modules are those of the dense decoder (attention in three
forms, two- and three-way feed-forward) and of the vocabulary projection, with
the shards that the column- and row-parallel layers give a device. `work` adds up what attention
charged, `kvWritten` what was written to the memory; the memory is of an HBF
generation, as the code counts written bytes for no other
(`linear_impl.cpp:128`, `decode_kv_write.cpp:68`). The costs are operators, a phase of the C++ function
being a record of operations, bytes and requests: **LayerCost** has the roofline
and what is common, **AttentionGenCost** and **AttentionSumCost** the attention
of outputs and of prompts (grouped-query, latent and absorbed; plain and flash;
GPU, logic die and PIM), **LinearCost** the projections and batched products.
Numbers are as wide as they need to be, with one exception: the logic die's and
the PIM units' copies of grouped-query prompt attention multiply three ints
(`AsInt`, `ChunkProduct`), where the GPU's copy multiplies doubles, and that
decides whether the copies agree.

**PimDramController** is the DRAM side of a device. `SetNormal` places a tensor,
`HandleRequest` makes the commands of a kernel and hands them to the controller,
`Tick` is a turn of the controller: serve the access whose data has arrived,
refresh, choose a buffer and a command, issue it. **HBM3** is the device that is
driven: prerequisites, open rows, and a table of timing constraints kept as how
long each command still has to wait at each node. **AddressMapping** has the
two decoders of an address. Clocks are relative, so that the state is finite.

**Sizing** is `main`: the memory check (**MemoryCheck**: stages evaluated one by
one, then one action for each outcome), and a run that wears the memory
(**FlashWear**: passes that write, rows of the four types). The figure of a row
is kept as the bytes and the time it is made of.

**ContinuousBatching** is the abstract specification: requests wait in order of
arrival, the oldest takes a free slot, the active ones progress in any way, a
request leaves when it has no work left. `Scheduler!ImplementsBatching` maps
`left` to `total_len - current_len`; runs of the mixed and of the pipelined loop
check it.

In the proof modules each action has a lemma that it preserves the invariant.
Definitions named `...Mutant` are plausible bugs that the project uses to see
that its properties notice them; nothing in the model uses them.

## 3. What TLC checks

| run | instance | what it shows |
|---|---|---|
| `mixed_saturated` | 2 replicas x 2 slots, 4 sequences, prompts of 1 and 2 tokens, budget 3, 2 warm-up iterations | `SchedInv`: each sequence in one place, capacity, exact landing on the ends of the phases; no decode before all prompts are through; refinement of `ContinuousBatching` |
| `mixed_injected` | batch of 3 on 2 replicas (one slot is never usable), arrivals 0 or 1 per iteration, prompts partly cached, fair | no slot free while a sequence waits; all who wait get a slot and all who run finish |
| `split_prefill_decode` | both machines, durations 1 and 2, prompts of one and two iterations | `SplitInv`: the invariant and the order of the clocks; decode never before prefill's end on the other clock; an iteration of the sum machine moves no decode |
| `split_steady_decode` | seeded steady state, fair | the counter of seeded sequences is right, all finish |
| `pipeline_lanes` | 3 stages, batch of 5 (lanes of 1 and 2), injected load, stage times 1 and 2 | lanes stay balanced, tokens of a sequence do not overlap though stages do; refinement of `ContinuousBatching` |
| `pipeline_steady` | 2 replicas x 2 stages, lanes of two and of one, seeded, stage times 1, fair | `PipelineInv`: lanes and batches hold the same sequences, a lane launches as one, seeded counter; one token in a pass of one's own lane only; all finish |
| `graph` | 2 replicas x 2 stages x 2 devices, a layer of experts across replicas and a dense one in each stage, clocks kept or reset between passes | collectives agree on the latest arrival even where groups overlap and where two of them wait on a tensor that is ready long before; receivers wait for their senders; flags never outlive their collective; token counts are those of one's own layer and pass; every pass ends |
| `expert_exchange` | 3 replicas x 2 stages x 2 devices on 2 nodes, 6 experts on one device each or shared by two, tokens with and without a trace | the trace is read at the layer at hand; a replica's tokens reach every device outside that hosts their experts; what is sent is received; the gather returns what the scatter sent |
| `layer` | 3 sequences (prompts 7, 2, 1), 2 layers, budget 6, ints below 64, heads and widths shared by 2 devices; 10 grouped-query (two of them with a two-way feed-forward) and 48 latent networks on four mixes of processors | the operations charged lie between the pairs of tokens and keys and the whole input, however prompts are chunked; decode is charged for what it sees; the cache is read; copies for the processors agree where no int product overflows; each key and value is written once |
| `pim_dram` | 2 channels, 4 banks, 3 tensors, reads, writes and GEMVs, scaled-down timing, refresh every 20 ticks | each command issued and called back once; rows of active requests stay open but for a refresh; refreshes keep up; data leaves in order and in time; every request ends; the closed formula tracks the kernels; weights do not overlap |
| `sizing` | 8 models in 8 capacities, with and without flash, under 3 policies; 2 devices wearing | layers are dealt without a gap and the centre first; a capped batch fits with the caches the model registers and two more sequences per replica would not; a decode row states the wear of the worst device since this run's first decode row |

One violation run, a disagreement of the code with what the repository says
(quoted in `PROJECT.json`, `findings`):

* `split_idle_clock`: "if no reqeusts, add time" adds nothing. When every
  running sequence waits for its `gen_start_time`, the loop idles for ever.

**Bounds.** Two replicas are enough for round robin, uneven batches and
sequences in the wrong place (three for an exchange that is neither with the
next nor with oneself); three stages for a lane that is neither first nor last;
two prompts of different lengths for a division that leaves a rest and for
prefill of several iterations; two durations for clocks that drift apart either
way. `MaxArrivals`, `MaxLag`, `MaxPasses` and `HittingIters` bound counters that
grow without limit otherwise: arrivals in one iteration; how far the last stage
may fall behind (see section 6); passes until the clocks are reset; warm-up
iterations (10000 in the code). In `ModuleGraph`, `Uneven` names the modules
whose cost varies (the others take the least), so that devices of one group
arrive at different times at the reductions that follow the feed-forward and the
experts. In `ExpertExchange`, `Picks` bounds the sets of experts a token may
draw: one within a replica's devices, one across two, one on the far node. In
`Sizing`, `Configurations` are chosen so that each outcome of the check is
reached, with two or more stages that need different amounts, and `MaxBytes`
and `MaxTime` bound a run's writes and rows. In `LayerExecution`, `IntRange` is 64
instead of 2^31: a chunk of six tokens of the longest prompt then overflows, and
chunks cut smaller by the budget do not. In `PimDramController`, the
timing constants keep the order they have in the HBM3 preset, the tensors span
several bundles with a rest, and `NREFI` lets refreshes fall into every phase of
a request. Symmetry over identities is used in safety runs only.

**Fairness.** `WF(Next)`: one thread runs the loop and never blocks, so some
enabled step is taken; which one is not assumed. In `PimDramController` it is
`WF` of the steps that move the clock: `DRAMInterface::run` ticks until nothing
is left, and nobody has to place tensors or ask for anything. Two restrictions
of the liveness runs are stated by their constants: the token budget is at least
one token for each slot (with less the share is 0 and the loop idles for ever),
and outputs have at least two tokens in pipelined decode (a sequence that needs
none is never launched and keeps its slot).

## 4. What is proved

`tlapm` proves the following for every value of the constants that satisfies the
named assumptions of the modules (`SeqsFinite`, `SizesAssumption`,
`LengthsAssumption`, `ModesAssumption`; `SplitAssumption`; `PipelineAssumption`;
`WearAssumption`, `MemoryAssumption`; `GraphAssumption`; `LayerCostAssumption`,
`LayerExecutionAssumption`, `IntRangeAssumption`, `OneTokenFits`; `ExchangeAssumption`; `ConfigAssumption`,
`TimingAssumption`, `ControllerAssumption`). `PipelineAssumption` has a seeded pipelined run be a
disaggregated one (`test.cpp:326`) without warm-up iterations, which such a run
skips (`cluster.cpp:795`);
`ConfigAssumption` has four banks or more in a bank group, which the codec of
the logic die makes of two bits; `MemoryAssumption` has rotary dimensions in
every latent attention (`decoder.cpp:32` takes a network without them for
standard attention), without which a compressed sequence could need nothing.
`OneTokenFits` has the int product of an output and its keys in range, which
for heads of 192 are contexts of less than 11 million tokens.

| module | theorems | of the runs' properties |
|---|---|---|
| `SchedulerProofs` | `MixedInvariant`, `MixedTypeOK`, `MixedSlotCapacity`, `MixedOnePlace`, `MixedLandsOnBoundaries`, `MixedLeavesOnlyWhenDone`, `MixedDecodeWaits`, `MixedNoFreeSlot`, `MixedImplementsBatching` | `SchedInv`, `DecodeWaitsForPrefill`, `NoFreeSlotWhileWaiting`, `ImplementsBatching` |
| `SplitSizingProofs` | `SplitInvariant`, `SplitTypes`, `SplitLandsOnBoundaries`, `SplitDecodeAfterPrefill`, `SplitSumMachineOnlyPrefills`, `SplitSeededRemaining`, `SplitImplementsBatching`; `RowStatesWorstDevice`, `EveryLayerHasItsStage`, `CapIsTight` | `SplitInv`, `DecodeAfterPrefill`, `SumMachineOnlyPrefills`, `SeededRemainingCounts`; `RowOfWorstDevice`, `LayersPartitioned`, `CappedBatchFits` |
| `PipelineDecodeProofs` | `PipelineInvariant`, `PipelineAutoregressive`, `PipelineOneToken`, `PipelineLandsOnBoundaries`, `PipelineLaneBalance`, `PipelineImplementsBatching` | `PipelineInv`, `AutoregressiveOrder`, `OneTokenPerPass`, `LaneBalance`, `ImplementsBatching` |
| `ModuleGraphProofs` | `GraphInductive`, `GraphCorrect`, `CollectiveTimesCorrect`, `CountsCorrect` | `GraphInv`, `CollectiveTimes`, `CountsOfOwnLayer` |
| `LayerExecutionProofs` | `LayerStates`, `PromptWorkCorrect`, `DecodeWorkCorrect`, `CacheIsReadCorrect`, `CopiesAgreeCorrect`, `KvWrittenOnceCorrect` | `PromptWork`, `DecodeWork`, `CacheIsRead`, `CopiesAgree`, `KvWrittenOnce` |
| `ExpertExchangeProofs` | `TraceFollowed`, `HostsGetTheirTokens`, `BytesConserved`, `GatherUndoesScatter` | `TracedExperts`, `TokensReachHosts`, `ScatterConserves`, `GatherMirrorsScatter` |
| `PimDramProofs` | `AccessesDepartInTime`, `DramAccounts`, `ActiveRowsKept`, `ActiveRowsKeptOneRank`, `WeightsHaveTheirPlaces`, `IdealFollowsKernel` | `DepartsInTime`, `DramInv`, `ActiveKeepsItsRow`, `WeightsDoNotOverlap`, `IdealTracksKernel` |

*The scheduler.* `SchedInv` (in `Scheduler`, checked by TLC and proved) is the
conjunction of the types, the range of the refill's counters, the bounds of each
sequence, the capacity and the single place. The capacity alone is not
inductive: an admission adds one to a batch's cardinality only because its
sequence is not yet there, which is `OnePlace`; and `OnePlace` needs the counter
of admissions to stay within the queue. `LandsOnBoundaries` needs the bounds of
*all* sequences, because a waiting one becomes a running one, and needs that a
sequence not scheduled now has no more tokens left over from before than its
phase still has room for. *Decode waits for prefill* needs `PlannedInv`
besides: once planned, no decode token exists while a prompt is unfinished,
because `setMetadata` leaves the tokens of what it does not schedule untouched.

*Decode after prefill* rests on `ClockInv`, a part of `SplitInv`: for each
running sequence the end of its prefill is never further ahead than `gen_ahead`.
It is `SumGenStart` that makes this hold for reported sequences; unreported ones
have unfinished prompts, and their estimate is corrected before they can decode.

*The pipelined loop.* `PipelineInv` joins `SchedInv` to what the lanes need:
batches and lanes are two lists of the same sequences, the members of a lane are
ready at one time, what is in flight belongs to the lane of this step and has
one token, and `next_decode_ready_time` is the exit of the last token. The last
is what *autoregressive order* follows from. The exit of a pass is a recursion
over the stages, so its bounds are shown by the induction of the library over a
set of natural numbers instead of an operator (`NaturalFacts`). *Lane balance*
needs two arguments: the first division deals a replica's batch in turn, so that
a lane's members are the ranks of one remainder, whose number is bounded through
unique division; and a refill goes to the lane that holds least, which, while a
slot is free, holds less than its share by the pigeonhole principle.

*No free slot.* `NoFreeSlotWhileWaiting` speaks of the moment an iteration is
planned; the refill decides how many sequences it admits once, before it admits
any, and against the whole batch. `SlotsCovered` carries the fact through the
steps in between: while admissions are under way those still to come cover the
smaller of what waits and what is free, and afterwards every replica is full or
nothing waits. A round robin that skips a full replica keeps it.

*Continuous batching.* All three loops are shown to implement
`ContinuousBatching`, step by step: a lemma for each action says which abstract
step it is (`BatchingInit`, `BatchingPlan`, `BatchingRefill` are shared), the
refinement mapping being that of `Scheduler`. Arrivals append, an admission
moves the head of the queue, and an iteration or a finished microbatch is
progress of the sequences it moves with the departure of those that have no work
left. The mixed loop needs nothing else. In the other two a sequence leaves only
in the step that moves it: `completeMicrobatch` looks only at what it launched,
and the sum machine pops only what was in prefill. So they need that no sequence
begins without work (`HasWork`), carried along as `LaneWork` and `SplitWork`: a
sequence that has a slot or waits for one has a token to go, and one that is
seeded starts at the end of its prompt. Without `HasWork` the theorems
are false: in decode mode a one-token output is at its `total_len` at birth, is
never launched and keeps its place for ever. `test.cpp:276` demands an output of
more than one token, but of the configured length only, not of the lengths in a
trace; in prefill mode a prompt that is cached as a whole has no work either.

*The two machines.* `SplitSumMachineOnlyPrefills` is an action property: a
decoding sequence has no token during an iteration of the sum machine, although
metadata is set for the whole batch. `SplitSeededRemaining` needs `TurnoverInv`:
the sequences still counted hold a slot, are past their prompt and are as many as
`seeded_remaining`; what a gen iteration takes from the counter are those of them
that depart in it.

*The module graph.* `ModuleGraph` runs lists that no one wrote: they are built
for any layout and any network, so the first part of the proof says what
`LLMForward` builds. The lists of devices of a stage have the same modules at
the same places (`Alike`), groups lie within the stage, and every collective
either waits for what the module before it returns first (`PromptAt`) or stands
right after a barrier over all the devices it waits for (`AfterBarrierAt`). The
second case is `moe_all_reduce_for_e_tp`, which names the input of the whole block
and is ready at once: only `sync_2` keeps it in order. From this follows
`BehindOk`: nobody passes a collective before all members are at it, or at the
barrier before it. It needs `ReadyOk` (what is ready has been returned) and is
why a flag is never taken for that of another collective on the same tensor:
flags are raised for exactly those that somebody has passed and the device has
not (`FlagsAre`, `FlagsSet`). `GraphInv`, which TLC checks, is a consequence.

*Clocks.* `HInv` adds the times at which collectives were reached and left. Once
somebody has passed one, there is a time on which its members have *agreed*: those
still to pass have it on their clocks, those that left it left at it, and it is
the arrival of one of them. The clock of a device that waits is what it was on
arrival (`WaitingOk`). A barrier costs nothing, so members that are past it and
not past the collective after it keep the agreed time; without that clause the
invariant fails at the reduction after `sync_2`, whose first member sees others still at
the barrier. A receiver reads its sender's clock of the moment; that this is the
time of the send needs the sender to have ended its list (`SentOk`).

*Token counts.* All layers of all stages keep their counts in the same batches.
They are not overwritten too soon because a reader of a layer's counts keeps its
whole group from the next gate (`RoutingOk`, `NoOtherGate`): a collective over
the group follows each reader, and the stages run one after the other. This
needs `OneLeader`: no deepseekV3 on several replicas (section 6). On two replicas
of a pair of devices TLC finds `CountsOfOwnLayer` violated without it: a device reads
the counts that the other replica's gate has stored.
`GraphAssumption` demands that there is a cost at all (`WorkTimes # {}`), the
least of which the model takes where costs do not vary.

*Wear.* The invariant is that each device's history equals its counter less its
baseline once started; the maximum of the differences is then a maximum over the
history.

*Sums.* The model adds up with the folds of the community modules. Such a fold
is a recursive function that takes away a chosen element, so it is not obvious
that the order does not matter. `NaturalFacts` shows that the function exists
(`SumExists`) and that a sum can be taken apart at any element
(`SumTakenApart`), by an induction over the subsets of a finite set that is
itself stated with a set (`SubsetInduction`), and from it the sums of multiples,
of equal and of positive values, of rows and columns, and over groups. Batches
and costs are functions of the sequences for this reason: a sum over them needs
no order.

*The layers.* `PromptWork`, `DecodeWork` and `KvWrittenOnce` speak of the end of
a pass, so `LayerInductive` says what they become in the middle of one. A module
is at one place of each layer (`Layout`), so the layers that have run it are
`Done(p)`: those behind, and this one if `pc` is past it. Work charged for
prompts is then `NumLayers` times what the passes that ended were charged and
`Done` times what this one is charged, one pair of a token and a key at one rate
(`PromptSoFar`); decode the same, with a sum over the layers below, as chunked
layers count a window (`DecodeSoFar`); bytes written the sum of what each
sequence got added and in bulk, and of the rows of this pass (`KvSoFar`). What
the end of a pass has to show is that moving the sequences on adds the pairs of
this pass: for a chunk, `CausalPairs` grows by no more than its tokens times the
keys they see and the rectangle by no less (`ChunkPairs`); for an output, by
exactly the one token (`TokenPairs`). The bulk write is where two formulas meet:
the program subtracts two clamped lengths, the property counts positions, and
`KeptCount` shows them equal for any window. All of it rests on the plan
(`SeqOk`): no chunk crosses the end of a prompt, an output moves by one token,
and `tokens` is 0 between passes.

What a single execution is charged is independent of time. For the operations,
each phase of each copy is shown to be a constant times the pairs (`...GPU`,
`...Logic`, `...PIM`, `LatentPrompt` and the rest), so that the executor's choice
(`OptimalIsOne`: it keeps the status of a processor that was tried) does not
matter. Where the logic die's or the PIM units' copy is tried for grouped-query
prompts this needs that no int product overflows: `ProductsFit` of the chunks at
hand for `CopiesAgree`, and for `PromptWork`, which looks back over all passes,
`ChunksFit`: the largest chunk that the budget allows a prompt from where it
began, against its whole length. Either says of every chunk charged that its
product is in range (`ChunksInRange`). TLC finds both properties violated without
the condition. For the traffic, `Covers` says that a phase moves a number of bytes for
each key; phases add up (`PlusCovers`), repeated phases add up over the prompts
(`EachCovers`), and the sum is what a token takes in the cache (`CachedIs`).
`CacheSoFar` carries this for the module that ran last. The theorem has the
exceptions of the property: with a PIM unit, prompts of grouped-query attention
make requests of another shape, and the flash tiles leave keys out.

*The expert exchange.* `ExchangeInv` says what every device has sent and
received once the scatter has run, as sums over `Crossing`: the tokens of a
replica (row) that go to a device (column) over a link. A sender adds up the row
of its replica and a receiver its own column, so conservation is the exchange of
two sums (`TotalsExchanged`), and the factor `ne_tp_dg` the number of devices
that share a row (`TotalOverGroups`). That the copies reach the devices with the
experts is the same exchange between devices and experts (`CopiesPerHost`). Below
that lies the layout: `LocalRank` counts devices, and `LocalRankIs` shows that
the count is the place of the device in its stage, so that the list of a stage,
which is not contiguous, falls into whole tensor-parallel groups, each on one
node. A gather collects what the scatter sent because with `e_tp_dg` equal to
`ne_tp_dg` a replica's devices have the same experts, so the sum is a multiple of
their number and dividing twice loses nothing (`GroupsCrossTogether`).
Two hypotheses are needed, and TLC refutes the properties without them.
`HiddenBytes % NeTp = 0`: the program divides in floating point, the model in
whole bytes. Except for latent attention the program demands as much, as a
token is `head_dim * num_heads` wide (`model_config.h:55`) and the degree
divides the heads (`parallel.cpp:154`).
`NumExperts % (NeTp * DpDegree) = 0`, for `HostsGetTheirTokens` alone: six experts
on four devices, shared by two, pass every check of `expert.cpp:26`-`58`, but
`ExpertFFN` then creates three on each pair and the scatter addresses two.

*Layers of the stages.* `StageStart` adds the layers of the stages before. With
`StagesInOrder` the first n stages hold the layers below `StageStart(n)`;
`LastStageEnds` counts the stages that take a layer more, which are as many as
there are such layers because the sorted list names no stage twice. The order of
the middle needs that it names all of them.

*The capped batch.* `CapInv` keeps with each evaluated stage what one more
sequence needs there. `CachesScale` is the heart: what the modules of a stage
register for a batch, layer by layer, is the batch times what
`computeStageKvPerSeq` says of one sequence, for every kind of attention, window
and compression. The share of the most crowded stage then bounds the batch from
both sides; the sequence in reserve is what the last division by the number of
replicas may lose (`OneInReserve`, with the rounding of a capacity for none).

*The trace.* `cur_layer` is the number of expert layers the batch has passed,
modulo those of the network, and each action keeps it in step with the layer.
The theorem needs `expert_freq` to divide the number of layers; without it the
counter drifts, see section 6.

*Departures.* The pending accesses wait for different numbers of ticks, the
first for the fewest, because each is appended with the largest delay there is
and all get nearer together; so one that is due is first. An access is never
answered from the write buffer, because the interface takes a request only when
that buffer is empty.

*Accounts.* `AccountInv` says of all buffers, the accesses under way and the
request together: each command of the request is in one place, once, or has been
called back (`Kept`); a buffer holds what it is for; the status is that of the
request as soon as the interface is idle; and the device is in a state its node
tables allow. `DramInv` alone is not inductive: that a finished request was
answered for all its commands follows only if none was lost on its way from a
kernel's list through the buffers to the pending accesses, at every one of which
it is removed at one index and appended at another. Two things came of the proof.
The translation of `schedule_request` had overlapping cases for an empty
priority buffer (the order of the C++ `if`s is now in the guards); and the
commands of a request must be of the three kinds that the kernels make
(`ControllerAssumption`).

*Rows.* `ActiveKeepsItsRow` needs that a bank has at most one active request
(`OnePerBank`), since the guard would let a second take the row from the first.
It has: a request for a bank that is closed under an active one needs
the same command as that one and is ready when it is, and the active buffer is
asked first. Both the scheduler and the guard look at the first `BufferSize`
entries only (32), so the theorem says: as long as the active requests are not
more (`AllSeen`). Where there are no more banks than entries, as in the presets
with one rank, that is proved to hold for ever (`ActiveRowsKeptOneRank`); the
shipped `dram_config.yaml` has two ranks, 64 banks. TLC finds `AllSeen` true of
the run's eight banks even with four entries, and false with three: requests
leave soon after their row is open, but how soon is a matter of the timing.
Without `AllSeen`, `WindowKeepsRow` still covers the requests within the
window.

*Places.* Weights are appended, each from the end of the last rounded up to the
granule, so bundles of different tensors have different numbers; that different
numbers are different places is unique division, level by level of the codec.
The codec of the GPU has no upper end: its rows are not taken modulo their
number, and the assertion that they lie below it (`mmap_controller.cpp:69`),
which stops the program for a tensor beyond the memory, is left out; that of
the logic die is taken modulo its capacity at the highest level, so the theorem
says: as long as the weights fit it (`WeightsFit`), in all states. The memory
check compares sizes with the capacity, but `SetNormal` itself does not.

*The closed formula.* Kernels take the bundles on channel 0. `Hits` counts them
among the first n rounds of the interleaving, `Rounds` the bundles of a cube;
`KernelLength` shows by induction that a kernel makes `Hits` of the last bundle
less `Hits` of the first, wherever the tensor starts, and `IdealOfHits`
compares that with what `run_ideal` computes from the size alone. The two differ
by none, one or two, never less than none, if there are two channels or more (with one
channel, `AtMostTwo` would count a round twice; no preset has one).

The general lemmas (a batch's cardinality, the share of a budget, what `update`
does to the fields, what a refill creates, division, largest elements) are
stated once and cited by name.

**Only model-checked.**

* What holds under fairness (`RunningFinishes`, `WaitingIsServed`, `PassesEnd`,
  `RequestsEnd`): out of the prover's reach.
* `RefreshKeepsUp`: it holds by the numbers of a preset (how long the longest
  sequence of commands before a refresh may take) and not for every
  timing.

## 5. What is not modelled

* `Time board`, `Reports`, statistics, energy, CSV rows and Gantt output:
  nothing reads them back. Parsing of the configuration; its checks are
  assumptions on constants.
* Scheduler: `num_sum_iter`, getters, the stream of precomputed arrival times
  (an arrival count per iteration here).
* Cost models: the DRAM-timed mode (`use_ramulator`, off in the shipped
  configuration), the breakdown in `exec_status`, the doubled peak of the logic
  die and PIM at one byte; `parallel_execution`, `hetero_subbatch` and
  `use_low_unit_moe_only`, which the entry point never sets, and with them the
  two clocks of high and low units; `AttentionMixed` and `MLAMixed`, which nobody
  creates; `activation_factor` is 1.
* Layers: the embedding, which computes nothing; the inside of an expert has no
  shapes; the costs of `AllReduce`, `AllGather` and `PipelineSend` appear in
  `ExpertExchange` where they surround experts and are arbitrary in `ModuleGraph`.
* DRAM: of Ramulator2 only the HBM3 device under the PIM controller, without
  nFAW, nCCDS, auto-precharge and per-bank refresh (no command of the controller
  uses them), long and short variants of a constraint merged into the long;
  the trace recorder, a plugin that only logs. The encoders of the codec are never
  called. `kGEMV` is `kRead` on the GPU.
* Memory check: sums over the tensors of weights and traced activations are
  constants; `checkHeteroMemorySize`.
* Random draws of experts have no distribution.

`PROJECT.json` gives the reason for each component.

## 6. Observations

Behaviour met while modelling, for which no document says what should hold:

* `fillSequenceQueue` ignores what is already queued. When the batch is not a
  multiple of the number of replicas some slots are never usable, and without
  an injection rate each iteration queues sequences nobody will ever take.
* `max_process_token / num_sum_seq` is 0 when a replica has more prompts than
  budget: no prompt gets a token, and decode waits for the prompts.
* An idle iteration of the mixed loop skips the refill too: after a pause with
  an empty batch no later arrival is looked at.
* The sum branch of the disaggregated loop never refills: in prefill mode the
  first batch drains in it and all later iterations are idle.
* With a reuse rate of 100 % a sequence starts at the end of its prompt with
  `sum_stage` set and is never reported as having its first token.
* A sequence that `refillMicrobatches` assigns is ready at time 0, before the
  slot it takes was given up at the last stage. Sequences with short outputs
  let the first stage run ahead of the last without limit, hence `MaxLag`.
* `ModuleGraph::checkListReady` looks at the dependency list whatever list it is
  given: modules with several inputs never wait. The barriers of `ExpertFFN`
  make up for it.
* Seeding: with a trace of one output token `seedSteadyStateOutputProgress`
  starts sequences at `total_len` (`scheduler.cpp:783`; its comment at 775 keeps
  them short of it).
* Prefill mode does not shorten the sequences of a trace: `pushRealSeq` ignores
  `prefill_mode` (`scheduler.cpp:230`).
* The experts of deepseekV3 are created over the tensor-parallel group
  (`llm.cpp:95`), while those of other models span the stage of all replicas,
  as the comment at `llm.cpp:31` says. With several replicas each then has a
  leader of its own, although `route.cpp:154` speaks of "this MoE stage group's
  master device": every leader draws the counts of all batches anew and moves
  `cur_layer`, and devices read what the last one left. `ModuleGraph` has both
  groups (`DeepSeek`), its run the latter.
* `setStat` runs after `completeMicrobatch` has cleared `num_process_token`, so
  the row of a pipelined round counts no token (`cluster.cpp:1907`).

Expert exchange:

* `MoEScatter` and `MoEGather` return without any charge when one direction
  carries no bytes (`communication.cpp:196`, `261`): with one active replica the
  devices that send nothing exchange for free. `ScatterConserves` is therefore
  about exchanges in which no device returned early.
* The receiving side divides by `ne_tp_dg` once more than the sending side, so
  bytes sent are `ne_tp_dg` times the bytes received.
* With `e_tp_dg` unlike `ne_tp_dg` what a gather collects is not what the scatter
  sent; the doubling of results at one byte is on the collecting side only.
* `num_routed_expert / total_num_device` is a whole number: when devices do not
  divide experts the scatter sees fewer of them than `ExpertFFN` hosts, although
  the checks of `expert.cpp:26`-`58` may all hold (section 4).
* `cur_layer` counts passes through expert layers modulo
  `num_layer / expert_freq`. When a pass has another number of them
  (`expert_freq` not dividing the layers, leading dense layers), the trace is
  read at another layer from the second pass on.
* The trace reader keeps two experts of a token though `top_k` are read.

Costs:

* Passes in which a sequence waits are still charged full reads of its keys and
  values, in the absorbed flash copy operations too; with compressed keys and
  values a pass without tokens still pays `attn_kv_up_proj` for all contexts.
* With compressed keys and values a chunk of a prompt restores only its own
  latents, not those of earlier chunks.
* The window of a chunked layer is applied in the GPU copy only, and never to
  prompts. The column tiles of the flash prompt copy come from the chunk's own
  length, so earlier keys are left out. The copies of latent prompt attention for
  logic die and PIM run at the GPU's rates; `SelfAttentionGen` never passes
  `use_flash_attention` on.
* The PIM copy of prompt attention makes requests of the shape that an earlier
  phase left; batched products of logic die and PIM take three dimensions for
  two.
* The copies of grouped-query prompt attention for logic die and PIM multiply the
  tokens of a chunk, the width of a head and the keys as ints before anything is
  a double (`attention_sum_impl.cpp:347`, `436`, `524`, `587`); the GPU's copy
  starts with `1.0 *` (59, 208). With heads of 128 a prompt of 4096 tokens in one
  chunk gives 4096 * 128 * 4096 = 2^31, which wraps to a negative number, well
  within the default budget of `test.cpp:283`. `CopiesAgree` and `PromptWork` name
  the exception. Sizes in bytes are int sums in places, too (63, 212, 350, 439,
  527, 590); the model takes them to fit, and `CacheIsRead` holds as far as they do.
* `executor.cpp` takes a duration of 0 for "none yet": a first candidate that
  costs nothing is replaced by a later one.
* The write of keys and values is counted by the GPU copy of the projection only,
  even when another processor is chosen. `DecodeKVWrite` multiplies before it
  divides by the tensor-parallel degree; the projection truncates the heads.
* `RoPE` takes the length of the last sequence where the comment at
  `rope.cpp:24` speaks of the maximum.

DRAM:

* All requests carry `addr = -1`, so a read would match any queued write. It
  never does, because each request is drained before the next (`DramInv`).
* The guard of active requests compares the number of a command with
  `Request::Type`; all-bank refreshes and precharges are only checked at the
  channel; `ref_count` never counts; `run_ideal` counts up to two commands more
  than the kernel issues and leaves the status of the last request for a tensor
  of size 0.
* The logic-die codec decodes with `num_logic_cube` and encodes with `num_cube`;
  no one calls the encoder.

Memory check:

* `computeMemCapLimitedBatch` keeps one sequence in reserve and so returns 0 for
  a model that just fits one, or less than `dp_degree`, although the scheduler
  wants at least that (`scheduler.cpp:16`).
* `computeStageKvPerSeq` counts compressed rows if `compressed_kv` is set; absorbed
  attention keeps rows whether it is set or not (`layer.cpp:105`), and
  `test.cpp:243`-`246` reads the two flags independently. Without `compressed_kv`
  the batch is capped by what heads would take, which may be more or less. `CappedBatchFits` leaves this
  combination out; the run has it among its models and violates the property
  without the exception.

## 7. What is left

1. `TimeBoard`: stamps nest across a blocked module. `checkHeteroMemorySize`.
2. `LayerExecution` with experts, so that it supplies the
   durations of `ModuleGraph`.
