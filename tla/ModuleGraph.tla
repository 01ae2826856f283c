---------------------------- MODULE ModuleGraph ----------------------------
(***************************************************************************)
(* Cluster::run over the module graphs of the devices.  One thread sweeps  *)
(* over the devices; each runs its list of modules until one is not ready, *)
(* and a device's clock is the simulated time its modules have taken.      *)
(* Collectives agree on a time by sync_devices: the first device to pass   *)
(* moves the whole group to its latest clock and leaves a flag, in the     *)
(* input tensor of every other member, that the agreement has taken place. *)
(*                                                                         *)
(* A device's list is what LLM::forward traces for its pipeline stage.  A  *)
(* run of modules that only add to the clock is one module here, containers*)
(* and pops, which return true at once, are left out, and what a module    *)
(* costs is arbitrary.  A tensor is named by the module that returns it and*)
(* the layer.  No tensor is executed on high and low units in parallel:    *)
(* high_time and low_time then never pass device_time.                     *)
(*                                                                         *)
(* A definition named ...Mutant is the one after it with a plausible bug.  *)
(***************************************************************************)
EXTENDS Integers, FiniteSets, FiniteSetsExt, SequencesExt

CONSTANTS
  NeTp,         \* ne_tp_dg: devices that share the non-expert layers
  PpDegree,     \* pp_dg: pipeline stages
  DpDegree,     \* data-parallel replicas
  ETp,          \* e_tp_dg: devices that share one expert
  Layers,       \* decoder layers of a stage
  ExpertFreq,   \* expert_freq: every so many layers is a MoEDecoder; 0: none
  FirstKDense,  \* first_k_dense: the first layers without experts, of deepseekV3
  DeepSeek,     \* model_name = "deepseekV3"
  WorkTimes,    \* what a module that computes may cost
  Uneven,       \* bound: the modules whose cost varies; the others take the least
  LinkTimes,    \* what a module that communicates may cost
  MaxPasses     \* bound: passes before the clocks are reset

ASSUME GraphAssumption ==
  /\ {NeTp, PpDegree, DpDegree, ETp, Layers, MaxPasses} \subseteq Nat \ {0}
  /\ {ExpertFreq, FirstKDense} \subseteq Nat
  /\ DeepSeek \in BOOLEAN
  /\ WorkTimes \subseteq Nat /\ WorkTimes # {}
  /\ LinkTimes \subseteq Nat

NumDevices == NeTp * PpDegree * DpDegree
Devices == 0 .. NumDevices - 1

-----------------------------------------------------------------------------
(* The layout of the ranks: tensor parallel innermost, replicas outermost *)

PpRank(d) == (d \div NeTp) % PpDegree
PpPeer(d, direction) == d + direction * NeTp

TpGroup(d) == {e \in Devices : e \div NeTp = d \div NeTp}
StageGroup(d) == {e \in Devices : PpRank(e) = PpRank(d)}

\* Whether the l-th layer of the stage of d has experts.
IsMoE(d, l) ==
  LET layer == PpRank(d) * Layers + l - 1
  IN  IF DeepSeek THEN layer >= FirstKDense
                  ELSE ExpertFreq # 0 /\ layer % ExpertFreq = 0

\* The device_list a MoEDecoder is created with.
ExpertGroup(d) == IF DeepSeek THEN TpGroup(d) ELSE StageGroup(d)

LocalRank(d) == Cardinality({e \in ExpertGroup(d) : e < d})

\* The devices that share the experts of d: ETp ranks from the one found at
\* the start of its chunk of the group.
ExpertTpGroup(d) ==
  LET chunk == (LocalRank(d) \div ETp) * ETp
      offset == CHOOSE e \in ExpertGroup(d) : LocalRank(e) = chunk
  IN  offset .. offset + ETp - 1

ASSUME LayoutAssumption ==
  \A d \in Devices, l \in 1 .. Layers :
    IsMoE(d, l) =>
      /\ Cardinality(ExpertGroup(d)) % ETp = 0
      /\ ExpertTpGroup(d) \subseteq ExpertGroup(d)

-----------------------------------------------------------------------------
(* The modules of a device, in the order of its trace *)

Module(op, l, kind, in, group) ==
  [out |-> <<op, l>>, kind |-> kind, in |-> in, group |-> group]

\* A module that waits for its own input only.
Work(op, l, in) == Module(op, l, "work", in, {})
\* A module whose inputs are a TensorVec.
WorkVec(op, l) == Module(op, l, "vec", <<>>, {})
\* A module with sync set, over the devices of its list.
Collective(op, l, in, group) == Module(op, l, "sync", in, group)

\* Without the barrier between the experts and the reduction of their results.
NoSync2Mutant(op, l, in, group) ==
  IF op = "sync_2" THEN << >>
  ELSE << Module(op, l, "set", in, {}),
          Module(op, l, "barrier", <<op, l>>, group) >>

\* Sync: sync__set publishes a tensor of its own, on which sync__ waits.
Barrier(op, l, in, group) ==
  << Module(op, l, "set", in, {}),
     Module(op, l, "barrier", <<op, l>>, group) >>

Attention(d, l, in) ==
  << Work("attention", l, in),
     Collective("attention_all_reduce", l, <<"attention", l>>, TpGroup(d)) >>

DecoderModules(d, l, in) ==
  Attention(d, l, in) \o
  << Work("feedforward", l, <<"attention_all_reduce", l>>),
     Collective("result", l, <<"feedforward", l>>, TpGroup(d)) >>

ExpertFFN(d, l, in) ==
  LET all == ExpertGroup(d)
  IN  Barrier("sync_0", l, in, all) \o
      << Work("gate_update", l, in),
         Collective("moe_scatter", l, <<"gate_update", l>>, all) >> \o
      Barrier("sync_for_moe_scatter", l, in, all) \o
      << WorkVec("moe_route", l) >> \o
      Barrier("sync_2", l, in, all) \o
      << Collective("moe_all_reduce_for_e_tp", l, in, ExpertTpGroup(d)) >> \o
      Barrier("sync_3", l, in, all) \o
      << WorkVec("moe_gather", l) >> \o
      Barrier("sync_for_moe_gather", l, in, all) \o
      (IF ETp # NeTp
       THEN << Collective("moe_all_reduce_for_gather", l, in, TpGroup(d)) >>
       ELSE << >>) \o
      Barrier("sync_5", l, in, all) \o
      << Work("result", l, in) >> \o
      Barrier("sync_6", l, in, all)

MoEDecoderModules(d, l, in) ==
  Attention(d, l, in) \o
  << Work("post_attn_layer_norm", l, <<"attention_all_reduce", l>>) >> \o
  ExpertFFN(d, l, <<"post_attn_layer_norm", l>>)

SendTensor == <<"pipeline_send", Layers>>

FirstModules(d) ==
  IF PpRank(d) = 0
  THEN << Work("embedding", 0, <<"input", 0>>),
          Collective("result", 0, <<"embedding", 0>>, TpGroup(d)) >>
  ELSE << Module("result", 0, "recv", <<"input", 0>>, {}) >>

\* The stage before the last does not send.
NoSendMutant(d) ==
  IF PpRank(d) < PpDegree - 2
  THEN << Module("pipeline_send", Layers, "send", <<"result", Layers>>, {}) >>
  ELSE << Work("lm_head", Layers, <<"result", Layers>>),
          Collective("all_gather", Layers, <<"lm_head", Layers>>, TpGroup(d)) >>

LastModules(d) ==
  IF PpRank(d) < PpDegree - 1
  THEN << Module("pipeline_send", Layers, "send", <<"result", Layers>>, {}) >>
  ELSE << Work("lm_head", Layers, <<"result", Layers>>),
          Collective("all_gather", Layers, <<"lm_head", Layers>>, TpGroup(d)) >>

LLMForward(d) ==
  FirstModules(d) \o
  FlattenSeq([l \in 1 .. Layers |->
                IF IsMoE(d, l)
                  THEN MoEDecoderModules(d, l, <<"result", l - 1>>)
                  ELSE DecoderModules(d, l, <<"result", l - 1>>)]) \o
  LastModules(d)

ModuleGraph == [d \in Devices |-> LLMForward(d)]

Syncs(m) == m.kind \in {"sync", "barrier", "recv"}

\* dependency_tensor_list: the same tensor on every device of the list; for a
\* receiver, what its peer sends.
Dependencies(d, m) ==
  IF m.kind = "recv" THEN {<<PpPeer(d, -1), SendTensor>>}
                     ELSE m.group \X {m.in}

\* What a module may add to the clock of its device.
Costs(m) ==
  IF \/ m.kind \in {"set", "barrier", "recv"}
     \/ m.kind = "sync" /\ Cardinality(m.group) = 1
  THEN {0}
  ELSE IF m.kind \in {"sync", "send"} \/ m.out[1] = "moe_gather" THEN LinkTimes
  ELSE IF m.out[1] \in Uneven THEN WorkTimes ELSE {Min(WorkTimes)}

-----------------------------------------------------------------------------
VARIABLES
  current_module,   \* of each device: the index of the module it has come to
  ready,            \* the tensors that are ready, as <<device, name>>
  timeboard_synced, \* the tensors so flagged, as <<device, name>>
  device_time,      \* the clocks
  turn,             \* the device the sweep has come to
  routing,          \* whose gate the token counts of the batches come from
  pass,             \* counts the passes through the graph, from 1
  came, went        \* history: <<device, index, time>> of reaching, of leaving

graphVars == <<current_module, ready, timeboard_synced, device_time, routing>>
vars == <<graphVars, turn, pass, came, went>>

Inputs == Devices \X {<<"input", 0>>}
Done(d) == current_module[d] > Len(ModuleGraph[d])
Current(d) == ModuleGraph[d][current_module[d]]

Init ==
  /\ current_module = [d \in Devices |-> 1]
  /\ ready = Inputs
  /\ timeboard_synced = {}
  /\ device_time = [d \in Devices |-> 0]
  /\ turn = 0
  /\ routing = <<>>
  /\ pass = 1
  /\ came = {<<d, 1, 0>> : d \in Devices}
  /\ went = {}

CheckReady(d, m) ==
  \/ Syncs(m) /\ Dependencies(d, m) \subseteq ready
  \/ m.kind \in {"work", "set", "send"} /\ <<d, m.in>> \in ready
  \* checkListReady looks at dependency_tensor_list, empty here, not at
  \* its argument.
  \/ m.kind = "vec"

\* The clocks after sync_devices: agreed upon by the first device to pass.
SyncedTimes(d, m) ==
  LET members == {t[1] : t \in Dependencies(d, m)}
      time == Max({device_time[e] : e \in members})
  IN  IF Syncs(m) /\ <<d, m.in>> \notin timeboard_synced
      THEN [e \in Devices |-> IF e \in members THEN time ELSE device_time[e]]
      ELSE device_time

\* The first device to pass flags itself as well.
OwnFlagMutant(d, m) ==
  IF ~Syncs(m) THEN timeboard_synced
  ELSE IF <<d, m.in>> \in timeboard_synced
       THEN timeboard_synced \ {<<d, m.in>>}
       ELSE timeboard_synced \cup Dependencies(d, m)

\* The flags after sync_devices: set for the group, cleared for the device.
SyncedFlags(d, m) ==
  IF ~Syncs(m) THEN timeboard_synced
  ELSE (IF <<d, m.in>> \in timeboard_synced
        THEN timeboard_synced
        ELSE timeboard_synced \cup Dependencies(d, m)) \ {<<d, m.in>>}

\* The clock of d when the module starts: a receiver waits for its peer.
StartTime(d, m) ==
  LET time == SyncedTimes(d, m)
  IN  IF m.kind = "recv" THEN Max({time[d], time[PpPeer(d, -1)]}) ELSE time[d]

\* Device 0 leads whatever the stage.
MasterMutant(d) == 0

\* The device whose gate_update stores the token counts.
Leader(d) == Min(ExpertGroup(d))

Routing(d, m) ==
  IF m.out[1] = "gate_update" /\ d = Leader(d) THEN <<d, m.out[2], pass>>
                                               ELSE routing

\* The devices that meet in a module of d, with where they have come to.
Meeting(d, i) ==
  LET m == ModuleGraph[d][i]
  IN  IF m.kind = "recv"
      THEN {<<d, i>>, <<PpPeer(d, -1), Len(ModuleGraph[PpPeer(d, -1)]) + 1>>}
      ELSE m.group \X {i}

\* The part of the history that some device has yet to be compared with.
Unsettled(history) ==
  {h \in history :
     \/ h[2] > Len(ModuleGraph[h[1]])
     \/ /\ Syncs(ModuleGraph[h[1]][h[2]])
        /\ \E e \in Meeting(h[1], h[2]) : current_module[e[1]] <= e[2]}

CanRun(d) == ~Done(d) /\ CheckReady(d, Current(d))

\* ModuleGraph::run returns true: TopModuleGraph::run goes on to the next.
RunModule(d) ==
  /\ turn = d
  /\ CanRun(d)
  /\ LET m == Current(d)
         i == current_module[d]
     IN  /\ \E cost \in Costs(m) :
              device_time' =
                [SyncedTimes(d, m) EXCEPT ![d] = StartTime(d, m) + cost]
         /\ timeboard_synced' = SyncedFlags(d, m)
         /\ ready' = ready \cup {<<d, m.out>>}
         /\ routing' = Routing(d, m)
         /\ current_module' = [current_module EXCEPT ![d] = i + 1]
         /\ came' = Unsettled(came) \cup {<<d, i + 1, device_time'[d]>>}
         /\ went' = Unsettled(went) \cup {<<d, i, StartTime(d, m)>>}
  /\ UNCHANGED <<turn, pass>>

\* TopModuleGraph::run of a device breaks, or has reached the end.
NextDevice ==
  /\ turn \in Devices
  /\ ~CanRun(turn)
  /\ turn' = turn + 1
  /\ UNCHANGED <<graphVars, pass, came, went>>

AllDone == \A d \in Devices : Done(d)

\* check_module_graph_remain at the end of a sweep: another one.
SweepAgain ==
  /\ turn = NumDevices
  /\ ~AllDone
  /\ turn' = 0
  /\ UNCHANGED <<graphVars, pass, came, went>>

Restart(times) ==
  /\ turn = NumDevices
  /\ AllDone
  /\ turn' = 0
  /\ pass' = (pass % MaxPasses) + 1
  /\ current_module' = [d \in Devices |-> 1]
  /\ ready' = Inputs
  /\ device_time' = times
  /\ came' = {<<d, 1, times[d]>> : d \in Devices}
  /\ went' = {}
  /\ UNCHANGED <<timeboard_synced, routing>>

\* restartModuleGraph: the next iteration starts from fresh status boards.
RestartModuleGraph == Restart([d \in Devices |-> 0])

\* restartGraphOnly: the next microbatch of a round keeps the clocks.
RestartGraphOnly == pass < MaxPasses /\ Restart(device_time)

Next ==
  \/ \E d \in Devices : RunModule(d)
  \/ NextDevice
  \/ SweepAgain
  \/ RestartModuleGraph
  \/ RestartGraphOnly

\* One thread runs the loop and never blocks.
Spec == Init /\ [][Next]_vars /\ WF_vars(Next)

-----------------------------------------------------------------------------
(* Properties *)

Range1(d) == 1 .. Len(ModuleGraph[d])
Names(d) == {ModuleGraph[d][i].out : i \in Range1(d)} \cup {<<"input", 0>>}
Tensors == UNION {{d} \X Names(d) : d \in Devices}

\* The type invariant.  Only the first device of an expert group aggregates
\* the token counts of the batches (GateUpdate::aggregate_expert).
GraphTypeOK ==
  /\ current_module \in [Devices -> Nat]
  /\ \A d \in Devices : current_module[d] \in 1 .. Len(ModuleGraph[d]) + 1
  /\ Inputs \subseteq ready /\ ready \subseteq Tensors
  /\ timeboard_synced \subseteq Tensors
  /\ device_time \in [Devices -> Nat]
  /\ turn \in 0 .. NumDevices
  /\ pass \in 1 .. MaxPasses
  /\ \/ routing = <<>>
     \/ routing \in {Min(ExpertGroup(d)) : d \in Devices}
                      \X (1 .. Layers) \X (1 .. MaxPasses)

\* Every member of a collective leaves it at the time the last one reached
\* it, and a stage starts on an activation when it is free and the activation
\* has been sent, although devices pass one by one, in different sweeps, and
\* only the first of them looks at the clocks (ModuleGraph::sync_devices,
\* PipelineRecv::forward, the syncs of ExpertFFN::forward).
CollectiveTimes ==
  \A w \in went :
    Syncs(ModuleGraph[w[1]][w[2]]) =>
      LET arrivals == {a \in came : <<a[1], a[2]>> \in Meeting(w[1], w[2])}
      IN  /\ \A a \in arrivals : a[3] <= w[3]
          /\ Cardinality(arrivals) = Cardinality(Meeting(w[1], w[2])) =>
               \E a \in arrivals : a[3] = w[3]

\* A raised timeboard_synced stands for a collective that its device has still
\* to pass and some other member has passed: no flag is left over to make a
\* later collective on the same tensor, in this pass or after a restart, which
\* resets no flag, skip its synchronisation.  Nobody waits on the tensor that
\* a PipelineSend returns.
FlagsPending ==
  \A f \in timeboard_synced :
    LET d == f[1]
        modules == ModuleGraph[d]
        waits == {i \in Range1(d) : i >= current_module[d] /\ Syncs(modules[i])
                                    /\ modules[i].in = f[2]}
    IN  \/ f[2] = SendTensor
        \/ /\ waits # {}
           /\ \E e \in modules[Min(waits)].group : current_module[e] > Min(waits)

\* The types hold, and flags are raised only for agreements still to be passed.
GraphInv == GraphTypeOK /\ FlagsPending

\* Whoever scatters, routes or gathers tokens reads the token counts that the
\* gate of this layer and this pass stored, although all stages and layers
\* store them in the same place (GateUpdate::aggregate_expert, Route::forward,
\* MoEScatter::forward, MoEGather::forward).
CountsOfOwnLayer ==
  [][\A d \in Devices :
       /\ ~Done(d)
       /\ current_module'[d] > current_module[d]
       /\ Current(d).out[1] \in {"moe_scatter", "moe_route", "moe_gather"}
       => routing = <<Min(ExpertGroup(d)), Current(d).out[2], pass>>]_vars

\* Every pass ends: while (check_module_graph_remain()) in Cluster::run and
\* Cluster::runOneMicrobatch does not sweep for ever over blocked devices.
PassesEnd == []<>AllDone

=============================================================================
