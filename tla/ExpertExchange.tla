--------------------------- MODULE ExpertExchange ---------------------------
(***************************************************************************)
(* The traffic of the mixture-of-experts layers: which experts the tokens  *)
(* of a pass are routed to (GateUpdate, BatchedSequence::update_expert),   *)
(* what every device sends to and receives from the others before and after*)
(* the experts (MoEScatter, MoEGather), which rows its own experts compute *)
(* (Route, ExpertFFN), the reductions around them, and the transfer to the *)
(* next pipeline stage.                                                    *)
(*                                                                         *)
(* An action runs one module on all the devices of the stage: the barriers *)
(* between those modules are what ModuleGraph is about, and `charge' is    *)
(* what the module adds to the clock of each device.  A batch processes    *)
(* tokens of one sequence at a time.  Only layers with experts are shown.  *)
(*                                                                         *)
(* A definition named ...Mutant is the one after it with a plausible bug.  *)
(***************************************************************************)
EXTENDS Integers, FiniteSets, FiniteSetsExt, Functions

CONSTANTS
  NeTp, PpDegree, DpDegree, \* the degrees of parallelism
  ETps,                     \* the values of e_tp_dg to check
  NodeDevices, NumNode,     \* devices of a node, nodes
  NumLayers, ExpertFreq,    \* num_layers, expert_freq
  NumExperts, TopK,         \* num_routed_expert, top_k
  HiddenBytes,              \* bytes of a token: hidden_dim * precision_byte
  WideCombine,              \* deepseekV3 at one byte: results come back in two
  LinkTime, LinkLatency,    \* per byte and per transfer, inside and between nodes
  Picks,                    \* bound: the sets of experts a token may draw
  Lin, Lout,                \* the lengths of the traced sequence
  Trace,                    \* Trace[token][layer]: the experts it was seen to use
  Batches                   \* what a replica may process in a pass

Links == {"device", "node"}
Experts == 0 .. NumExperts - 1
Replicas == 0 .. DpDegree - 1
Devices == 0 .. NeTp * PpDegree * DpDegree - 1
Processed == [len : Nat, tokens : Nat, sum : BOOLEAN, fromList : BOOLEAN]

ASSUME ExchangeAssumption ==
  /\ {NeTp, PpDegree, DpDegree, NodeDevices, NumNode, NumLayers, ExpertFreq,
      NumExperts, TopK, HiddenBytes, Lin, Lout} \subseteq Nat \ {0}
  /\ ETps \subseteq Nat \ {0}
  /\ \A pick \in Picks : pick \subseteq Experts /\ Cardinality(pick) = TopK
  /\ WideCombine \in BOOLEAN
  /\ LinkTime \in [Links -> Nat] /\ LinkLatency \in [Links -> Nat]
  /\ NumLayers % PpDegree = 0           \* asserted for models with experts
  /\ NodeDevices % NeTp = 0
  /\ \A e \in ETps : NodeDevices % e = 0 /\ (NeTp * DpDegree) % e = 0
  /\ Batches \subseteq Processed

VARIABLES
  eTp,        \* e_tp_dg
  batch,      \* what each replica processes in this pass
  local,      \* local_num_token_in_expert of each replica
  total,      \* num_token_in_expert, the same for all once aggregated
  curLayer,   \* cur_layer of each replica's BatchedSequence
  layer,      \* the layer the pass is at
  phase,      \* the module about to run
  sent,       \* bytes each device sent in the scatter, by link
  received,   \* and received
  collected,  \* bytes each device received in the gather, by link
  returned,   \* and sent
  charge      \* time the last module took on each device

vars == <<eTp, batch, local, total, curLayer, layer, phase,
          sent, received, collected, returned, charge>>

-----------------------------------------------------------------------------
(* Layout *)

Stage == layer \div (NumLayers \div PpDegree)
StageDevices == {d \in Devices : (d \div NeTp) % PpDegree = Stage}

\* get_local_rank_in_list: the place of d in the list of the stage.
LocalRank(d) == Cardinality({e \in StageDevices : e < d})
DeviceAt(i) == CHOOSE d \in StageDevices : LocalRank(d) = i

Node(d) == d \div NodeDevices
TpGroup(d)  == {e \in Devices : e \div NeTp = d \div NeTp}
ETpGroup(d) == {e \in Devices : e \div eTp = d \div eTp}
ReplicaOf(d) == LocalRank(d) \div NeTp

\* The experts ExpertFFN creates on d.
ExpertOffset(d) ==
  (NumExperts \div (Cardinality(StageDevices) \div eTp)) * (LocalRank(d) \div eTp)
HostedExperts(d) ==
  ExpertOffset(d) ..
    ExpertOffset(d) + NumExperts \div (Cardinality(StageDevices) \div eTp) - 1

\* With the experts of a group of devices counted as those of one device.
OffsetOfDeviceMutant(d) ==
  LET perDevice == NumExperts \div Cardinality(StageDevices)
      offset == perDevice * (LocalRank(d) \div eTp)
  IN  offset .. offset + perDevice * eTp - 1

\* The experts MoEScatter and MoEGather take d to have.
AddressedExperts(d) ==
  LET perDevice == NumExperts \div Cardinality(StageDevices)
      offset == perDevice * (LocalRank(d) \div eTp) * eTp
  IN  offset .. offset + perDevice * eTp - 1

-----------------------------------------------------------------------------
(* The trace: its file lists the prompt layer by layer and the generated   *)
(* tokens one by one; expert_list holds both token by token.               *)

NumLayer == NumLayers \div ExpertFreq

SumLine(idx) == Trace[idx % Lin][idx \div Lin]
GenLine(idx) == Trace[Lin + idx \div NumLayer][idx % NumLayer]

InFileOrderMutant(idx) == idx
SumSlot(idx) == (idx % Lin) * NumLayer + idx \div Lin

ExpertList(slot) ==
  IF slot < Lin * NumLayer
    THEN SumLine(CHOOSE idx \in 0 .. Lin * NumLayer - 1 : SumSlot(idx) = slot)
    ELSE GenLine(slot - Lin * NumLayer)

-----------------------------------------------------------------------------
(* GateUpdate *)

SumOver(S, F(_)) == MapThenSumSet(F, S)

\* Tokens per expert when each of n tokens picks TopK different experts.
Counts(n) == {[e \in Experts |-> Cardinality({t \in 1 .. n : e \in pick[t]})] :
                pick \in [1 .. n -> Picks]}

TracedTokens(b, l) ==
  [e \in Experts |->
     Cardinality({t \in b.len .. b.len + b.tokens - 1 : e \in ExpertList(t * NumLayer + l)})]

\* update_expert: what the gate may count for one replica.
UpdateExpert(r) == IF batch[r].fromList THEN {TracedTokens(batch[r], curLayer[r])}
                                        ELSE Counts(batch[r].tokens)

GateUpdate ==
  /\ phase = "gate_update"
  /\ LET possible == [r \in Replicas |-> UpdateExpert(r)]
     IN  \E counts \in [Replicas -> UNION Range(possible)] :
           /\ \A r \in Replicas : counts[r] \in possible[r]
           /\ local' = counts
           /\ total' = [e \in Experts |-> SumOver(Replicas, LAMBDA r : counts[r][e])]
  /\ curLayer' = [r \in Replicas |-> (curLayer[r] + 1) % NumLayer]
  /\ phase' = "moe_scatter"
  /\ charge' = [d \in Devices |-> 0]
  /\ UNCHANGED <<eTp, batch, layer, sent, received, collected, returned>>

-----------------------------------------------------------------------------
(* MoEScatter and MoEGather *)

TokensFor(r, d) == SumOver(AddressedExperts(d), LAMBDA e : local[r][e])
Size(t) == HiddenBytes * t
LinkBetween(d, e) == IF Node(d) = Node(e) THEN "device" ELSE "node"
NoBytes == [link \in Links |-> 0]

\* The bytes of d's own tokens for, or from, the devices outside its group.
OwnTokens(d, group, share) ==
  [link \in Links |->
     Size(SumOver({e \in StageDevices \ group : LinkBetween(d, e) = link},
                  LAMBDA e : TokensFor(ReplicaOf(d), e))) \div share]

\* Without leaving out the replica the device itself belongs to.
OwnReplicaTooMutant(d) ==
  [link \in Links |->
     Size(SumOver({r \in Replicas : LinkBetween(d, DeviceAt(r * NeTp)) = link},
                  LAMBDA r : TokensFor(r, d))) \div NeTp]

\* The bytes of the other replicas' tokens that d's experts compute.
OthersTokens(d) ==
  [link \in Links |->
     Size(SumOver({r \in Replicas \ {ReplicaOf(d)} :
                     LinkBetween(d, DeviceAt(r * NeTp)) = link},
                  LAMBDA r : TokensFor(r, d))) \div NeTp]

Larger(a, b) == IF a >= b THEN a ELSE b
Transfer(link, bytes) == bytes * LinkTime[link] + LinkLatency[link]

\* A batch with a prompt uses both links at once, a decode batch only one.
TransferTime(d, bytes) ==
  LET b == batch[ReplicaOf(d)]
      all == bytes["device"] + bytes["node"]
  IN  CASE b.tokens = 0 -> 0
        [] b.tokens > 0 /\ b.sum ->
             Larger(Transfer("device", bytes["device"]), Transfer("node", bytes["node"]))
        [] b.tokens > 0 /\ ~b.sum ->
             Transfer(IF NumNode = 1 THEN "device" ELSE "node", all)

\* Both modules return before the second direction is looked at, without a
\* charge, if one of the two has no bytes.
ExchangeTime(d, first, second) ==
  IF NoBytes \in {first, second} THEN 0
  ELSE Larger(TransferTime(d, first), TransferTime(d, second))

Second(first, second) == IF first = NoBytes THEN NoBytes ELSE second

ScatterSends(d) == OwnTokens(d, TpGroup(d), NeTp)

MoEScatter ==
  /\ phase = "moe_scatter"
  /\ sent' = [d \in StageDevices |-> ScatterSends(d)]
  /\ received' = [d \in StageDevices |-> Second(ScatterSends(d), OthersTokens(d))]
  /\ charge' = [d \in StageDevices |-> ExchangeTime(d, ScatterSends(d), OthersTokens(d))]
  /\ phase' = "experts"
  /\ UNCHANGED <<eTp, batch, local, total, curLayer, layer, collected, returned>>

\* With the copies of a token at the devices that share an expert collected.
FullCopiesMutant(d) ==
  LET bytes == OwnTokens(d, ETpGroup(d), NeTp)
  IN  [link \in Links |-> bytes[link] * (IF WideCombine THEN 2 ELSE 1)]

GatherCollects(d) ==
  LET bytes == OwnTokens(d, ETpGroup(d), eTp * NeTp)
  IN  [link \in Links |-> bytes[link] * (IF WideCombine THEN 2 ELSE 1)]

MoEGather ==
  /\ phase = "moe_gather"
  /\ collected' = [d \in StageDevices |-> GatherCollects(d)]
  /\ returned' = [d \in StageDevices |-> Second(GatherCollects(d), OthersTokens(d))]
  /\ charge' = [d \in StageDevices |-> ExchangeTime(d, GatherCollects(d), OthersTokens(d))]
  /\ phase' = IF eTp # NeTp THEN "moe_all_reduce_for_gather" ELSE "next_layer"
  /\ UNCHANGED <<eTp, batch, local, total, curLayer, layer, sent, received>>

-----------------------------------------------------------------------------
(* The modules around them *)

\* A ring AllReduce over n devices.
AllReduceTime(bytes, n) ==
  IF bytes = 0 THEN 0 ELSE 2 * (n - 1) * Transfer("device", bytes \div n)

OwnBytes(d) == Size(batch[ReplicaOf(d)].tokens)

Reduce(module, n, next) ==
  /\ phase = module
  /\ charge' = [d \in StageDevices |-> AllReduceTime(OwnBytes(d), n)]
  /\ phase' = next
  /\ UNCHANGED <<eTp, batch, local, total, curLayer, layer,
                 sent, received, collected, returned>>

\* Route: each expert of a device computes all the tokens that picked it, here
\* in one unit of time each.
Rows(d) == SumOver(HostedExperts(d), LAMBDA e : total[e])

RunExperts ==
  /\ phase = "experts"
  /\ charge' = [d \in StageDevices |-> Rows(d)]
  /\ phase' = "moe_all_reduce_for_e_tp"
  /\ UNCHANGED <<eTp, batch, local, total, curLayer, layer,
                 sent, received, collected, returned>>

IsMoE(l) == l % ExpertFreq = 0

\* The layer is done: the next one with experts, or the end of the pass.  After
\* the last layer of a stage its devices send the activations to the next stage.
NextLayer ==
  /\ phase = "next_layer"
  /\ LET later == {l \in layer + 1 .. NumLayers - 1 : IsMoE(l)}
         stageEnds == \A l \in later : l \div (NumLayers \div PpDegree) # Stage
     IN  /\ charge' = [d \in Devices |->
                         IF /\ d \in StageDevices /\ Stage < PpDegree - 1 /\ stageEnds
                            /\ OwnBytes(d) > 0
                           THEN Transfer(LinkBetween(d, d + NeTp), OwnBytes(d)) ELSE 0]
         /\ IF later # {}
              THEN layer' = Min(later) /\ phase' = "gate_update" /\ UNCHANGED batch
              ELSE layer' = 0 /\ phase' = "gate_update" /\ batch' \in [Replicas -> Batches]
  /\ sent' = << >> /\ received' = << >> /\ collected' = << >> /\ returned' = << >>
  /\ UNCHANGED <<eTp, local, total, curLayer>>

-----------------------------------------------------------------------------
Init ==
  /\ eTp \in ETps
  /\ batch \in [Replicas -> Batches]
  /\ local = [r \in Replicas |-> [e \in Experts |-> 0]]
  /\ total = [e \in Experts |-> 0]
  /\ curLayer = [r \in Replicas |-> 0]
  /\ layer = 0
  /\ phase = "gate_update"
  /\ sent = << >> /\ received = << >> /\ collected = << >> /\ returned = << >>
  /\ charge = [d \in Devices |-> 0]

Next ==
  \/ GateUpdate
  \/ MoEScatter
  \/ RunExperts
  \/ Reduce("moe_all_reduce_for_e_tp", eTp, "moe_gather")
  \/ MoEGather
  \/ Reduce("moe_all_reduce_for_gather", NeTp, "next_layer")
  \/ NextLayer

Spec == Init /\ [][Next]_vars

-----------------------------------------------------------------------------
(* Properties *)

Volume(bytes, devices, link) == SumOver(devices, LAMBDA d : bytes[d][link])

\* A sequence with a trace uses, in every layer with experts, the experts the
\* trace holds for that token and that layer, however many passes and stages
\* have moved cur_layer before.
TracedExperts ==
  phase = "moe_scatter" =>
    \A r \in Replicas, e \in Experts : batch[r].fromList =>
      local[r][e] = Cardinality({t \in batch[r].len .. batch[r].len + batch[r].tokens - 1 :
                                   e \in Trace[t][layer \div ExpertFreq]})

\* What the devices of a replica send out, together, is one copy of each of its
\* tokens for every device outside that hosts an expert the token picked: the
\* layout the scatter computes is the one ExpertFFN was built with.
TokensReachHosts ==
  phase = "experts" =>
    \A r \in Replicas :
      LET own == {d \in StageDevices : ReplicaOf(d) = r}
          hosts(e) == {d \in StageDevices \ own : e \in HostedExperts(d)}
      IN  Volume(sent, own, "device") + Volume(sent, own, "node")
            = Size(SumOver(Experts, LAMBDA e : local[r][e] * Cardinality(hosts(e))))

\* On each link the bytes received in a scatter are the bytes sent, up to the
\* tensor-parallel share the code takes of both, if no device returned early.
ScatterConserves ==
  phase = "experts" /\ (\A d \in StageDevices : sent[d] # NoBytes) =>
    \A link \in Links :
      Volume(sent, StageDevices, link) = NeTp * Volume(received, StageDevices, link)

\* A gather undoes its scatter: a device returns the bytes it received, and with
\* experts shared by the same devices as the other layers collects what it sent,
\* once and not per copy, at the precision of the results.
GatherMirrorsScatter ==
  phase \in {"moe_all_reduce_for_gather", "next_layer"} =>
    \A d \in StageDevices :
      /\ sent[d] # NoBytes /\ collected[d] # NoBytes => returned[d] = received[d]
      /\ eTp = NeTp => \A link \in Links :
           collected[d][link] * eTp = sent[d][link] * (IF WideCombine THEN 2 ELSE 1)
=============================================================================
