------------------------ MODULE ExpertExchangeProofs ------------------------
(***************************************************************************)
(* The gate counts the experts the trace holds for the layer at hand, for  *)
(* every trace, every number of layers, stages and replicas and all        *)
(* batches, as long as every expert_freq-th layer fits the model evenly.   *)
(*                                                                         *)
(* The bytes of the exchange, for every layout of nodes, stages, replicas  *)
(* and tensor-parallel groups and every count of the gate: each copy of a  *)
(* token reaches a device that has the expert, what the devices send is    *)
(* what they receive, and a gather undoes its scatter, as long as the      *)
(* bytes of a token split evenly over the devices of a replica.            *)
(***************************************************************************)
EXTENDS ExpertExchange, NaturalFacts

\* The layer with experts the pass is at.
ExpertLayer == layer \div ExpertFreq

\* cur_layer is the layer the gate comes to next.
LayerInv ==
  /\ layer \in 0 .. NumLayers - 1 /\ IsMoE(layer)
  /\ batch \in [Replicas -> Batches]
  /\ phase = "gate_update" => curLayer = [r \in Replicas |-> ExpertLayer]
  /\ phase # "gate_update" => curLayer = [r \in Replicas |-> (ExpertLayer + 1) % NumLayer]
  /\ TracedExperts

-----------------------------------------------------------------------------
(* The trace *)

LEMMA LayerCounts ==
  ASSUME NumLayers % ExpertFreq = 0
  PROVE  /\ ExpertFreq \in Nat \ {0} /\ NumLayers \in Nat \ {0} /\ Lin \in Nat \ {0}
         /\ NumLayer \in Nat \ {0} /\ NumLayers = NumLayer * ExpertFreq
<1>1. ExpertFreq \in Nat \ {0} /\ NumLayers \in Nat \ {0} /\ Lin \in Nat \ {0}
  BY ExchangeAssumption
<1>2. NumLayer \in Nat /\ NumLayers = NumLayer * ExpertFreq
  BY <1>1, Division DEF NumLayer
<1>3. NumLayer # 0
  BY <1>1, <1>2
<1> QED
  BY <1>1, <1>2, <1>3

\* The product of a row below m and its width, and a place in it, is below all
\* m rows together.
LEMMA InRows ==
  ASSUME NEW m \in Nat, NEW n \in Nat \ {0}, NEW a \in Nat, NEW b \in 0 .. n - 1
  PROVE  a * n + b < m * n <=> a < m
<1>1. CASE a < m
  <2>1. a + 1 <= m
    BY <1>1
  <2>2. (a + 1) * n <= m * n /\ (a + 1) * n = a * n + n
    BY <2>1
  <2> QED
    BY <1>1, <2>2
<1>2. CASE ~ (a < m)
  <2>1. m <= a
    BY <1>2
  <2>2. m * n <= a * n
    BY <2>1
  <2>3. m * n \in Nat /\ a * n \in Nat
    OBVIOUS
  <2> QED
    BY <1>2, <2>2, <2>3
<1> QED
  BY <1>1, <1>2

\* Only one line of the prompt's part of the file goes to a slot.
LEMMA SlotOfLine ==
  ASSUME NumLayers % ExpertFreq = 0, NEW t \in 0 .. Lin - 1, NEW l \in 0 .. NumLayer - 1
  PROVE  LET line == CHOOSE idx \in 0 .. Lin * NumLayer - 1 : SumSlot(idx) = t * NumLayer + l
         IN  line % Lin = t /\ line \div Lin = l
<1>1. Lin \in Nat \ {0} /\ NumLayer \in Nat \ {0}
  BY LayerCounts
<1> DEFINE Lines == {idx \in 0 .. Lin * NumLayer - 1 : SumSlot(idx) = t * NumLayer + l}
           own == l * Lin + t
<1>2. own % Lin = t /\ own \div Lin = l
  BY <1>1, DivisionUnique
<1>3. own \in Lines
  <2>1. own < NumLayer * Lin /\ NumLayer * Lin = Lin * NumLayer
    BY <1>1, InRows
  <2>2. own \in Nat /\ Lin * NumLayer \in Nat
    BY <1>1
  <2>3. SumSlot(own) = t * NumLayer + l
    BY <1>2 DEF SumSlot
  <2> HIDE DEF own
  <2> QED
    BY <2>1, <2>2, <2>3
<1>4. ASSUME NEW idx \in Lines PROVE idx % Lin = t /\ idx \div Lin = l
  <2> DEFINE a == idx % Lin
             b == idx \div Lin
  <2>1. idx \in Nat /\ idx < Lin * NumLayer
    BY <1>1
  <2>2. b \in Nat /\ a \in 0 .. Lin - 1 /\ idx = b * Lin + a
    BY <1>1, <2>1, Division
  <2>3. a * NumLayer + b = t * NumLayer + l
    BY DEF SumSlot
  <2> HIDE DEF a, b
  <2>4. b < NumLayer
    <3>1. b * Lin + a < NumLayer * Lin
      BY <1>1, <2>1, <2>2
    <3> QED
      BY <1>1, <2>2, <3>1, InRows
  <2>5. a \in Nat /\ b \in 0 .. NumLayer - 1 /\ t \in Nat
    BY <1>1, <2>2, <2>4
  <2>6. a = t /\ b = l
    <3>1. /\ (a * NumLayer + b) \div NumLayer = a
          /\ (a * NumLayer + b) % NumLayer = b
      BY <1>1, <2>5, DivisionUnique
    <3>2. /\ (t * NumLayer + l) \div NumLayer = t
          /\ (t * NumLayer + l) % NumLayer = l
      BY <1>1, <2>5, DivisionUnique
    <3> QED
      BY <2>3, <3>1, <3>2
  <2> QED
    BY <2>6 DEF a, b
<1> DEFINE line == CHOOSE idx \in 0 .. Lin * NumLayer - 1 : SumSlot(idx) = t * NumLayer + l
<1>5. line \in Lines
  BY <1>3
<1> HIDE DEF line, Lines
<1>6. line % Lin = t /\ line \div Lin = l
  BY <1>4, <1>5
<1> QED
  BY <1>6 DEF line

\* expert_list holds the experts of token t in layer l where update_expert
\* looks for them, though the file lists the prompt the other way round.
LEMMA ListedExperts ==
  ASSUME NumLayers % ExpertFreq = 0, NEW t \in Nat, NEW l \in 0 .. NumLayer - 1
  PROVE  ExpertList(t * NumLayer + l) = Trace[t][l]
<1>1. Lin \in Nat \ {0} /\ NumLayer \in Nat \ {0}
  BY LayerCounts
<1>2. t * NumLayer + l < Lin * NumLayer <=> t < Lin
  BY <1>1, InRows
<1>3. CASE t < Lin
  <2>1. t \in 0 .. Lin - 1
    BY <1>1, <1>3
  <2>2. ExpertList(t * NumLayer + l) =
          SumLine(CHOOSE idx \in 0 .. Lin * NumLayer - 1 : SumSlot(idx) = t * NumLayer + l)
    BY <1>2, <1>3 DEF ExpertList
  <2> QED
    BY <2>1, <2>2, SlotOfLine DEF SumLine
<1>4. CASE ~ (t < Lin)
  <2> DEFINE u == t - Lin
             idx == (t * NumLayer + l) - Lin * NumLayer
  <2>1. u \in Nat /\ t = Lin + u
    BY <1>1, <1>4
  <2>2. t * NumLayer = Lin * NumLayer + u * NumLayer
    BY <1>1, <2>1
  <2>3. t * NumLayer \in Nat /\ Lin * NumLayer \in Nat /\ u * NumLayer \in Nat
    BY <1>1, <2>1
  <2>4. idx = u * NumLayer + l
    BY <2>2, <2>3
  <2> HIDE DEF u
  <2>5. (u * NumLayer + l) \div NumLayer = u /\ (u * NumLayer + l) % NumLayer = l
    BY <1>1, <2>1, DivisionUnique
  <2>6. ExpertList(t * NumLayer + l) = GenLine(idx)
    <3> DEFINE slot == t * NumLayer + l
    <3>1. ~ (slot < Lin * NumLayer)
      BY <1>2, <1>4
    <3> HIDE DEF slot
    <3>2. ExpertList(slot) = GenLine(slot - Lin * NumLayer)
      BY <3>1 DEF ExpertList
    <3> QED
      BY <3>2 DEF slot
  <2>7. GenLine(idx) = Trace[Lin + idx \div NumLayer][idx % NumLayer]
    BY DEF GenLine
  <2> HIDE DEF idx
  <2> QED
    BY <2>1, <2>4, <2>5, <2>6, <2>7
<1> QED
  BY <1>3, <1>4

-----------------------------------------------------------------------------
(* The layers *)

LEMMA LayerAt ==
  ASSUME NumLayers % ExpertFreq = 0, NEW x \in 0 .. NumLayers - 1, IsMoE(x)
  PROVE  /\ x \div ExpertFreq \in 0 .. NumLayer - 1
         /\ x = (x \div ExpertFreq) * ExpertFreq
<1>1. /\ ExpertFreq \in Nat \ {0} /\ NumLayers \in Nat \ {0}
      /\ NumLayer \in Nat \ {0} /\ NumLayers = NumLayer * ExpertFreq
  BY LayerCounts
<1> DEFINE q == x \div ExpertFreq
<1>2. x \in Nat /\ x < NumLayers
  BY <1>1
<1>3. q \in Nat /\ x = q * ExpertFreq + (x % ExpertFreq)
  BY <1>1, <1>2, Division
<1>4. x = q * ExpertFreq
  BY <1>1, <1>3 DEF IsMoE
<1> HIDE DEF q
<1>5. q * ExpertFreq + 0 < NumLayer * ExpertFreq
  BY <1>1, <1>2, <1>3, <1>4
<1>6. q < NumLayer
  BY <1>1, <1>3, <1>5, InRows
<1> QED
  BY <1>1, <1>3, <1>4, <1>6 DEF q

\* The next layer with experts is expert_freq further on, or there is none.
LEMMA NextExpertLayer ==
  ASSUME NumLayers % ExpertFreq = 0, NEW x \in 0 .. NumLayers - 1, IsMoE(x)
  PROVE  LET later == {l \in x + 1 .. NumLayers - 1 : IsMoE(l)}
             k == x \div ExpertFreq
         IN  /\ later # {} => /\ Min(later) \in 0 .. NumLayers - 1
                              /\ IsMoE(Min(later))
                              /\ Min(later) \div ExpertFreq = k + 1
                              /\ k + 1 < NumLayer
             /\ later = {} => k + 1 = NumLayer
<1>1. /\ ExpertFreq \in Nat \ {0} /\ NumLayers \in Nat \ {0}
      /\ NumLayer \in Nat \ {0} /\ NumLayers = NumLayer * ExpertFreq
  BY LayerCounts
<1> DEFINE later == {l \in x + 1 .. NumLayers - 1 : IsMoE(l)}
           k == x \div ExpertFreq
           y == (k + 1) * ExpertFreq
<1>2. k \in 0 .. NumLayer - 1 /\ x = k * ExpertFreq
  BY LayerAt
<1>3. y \in Nat /\ y = x + ExpertFreq /\ y \div ExpertFreq = k + 1 /\ y % ExpertFreq = 0
  <2> HIDE DEF k
  <2>1. k + 1 \in Nat /\ k \in Nat
    BY <1>1, <1>2
  <2>2. y = x + ExpertFreq /\ y \in Nat
    BY <1>1, <1>2, <2>1
  <2>3. /\ ((k + 1) * ExpertFreq + 0) \div ExpertFreq = k + 1
        /\ ((k + 1) * ExpertFreq + 0) % ExpertFreq = 0
    BY <1>1, <2>1, DivisionUnique
  <2>4. (k + 1) * ExpertFreq + 0 = (k + 1) * ExpertFreq
    BY <1>1, <2>1
  <2> QED
    BY <2>2, <2>3, <2>4
<1>4. ASSUME NEW l \in later PROVE y <= l
  <2> DEFINE j == l \div ExpertFreq
  <2>1. l \in 0 .. NumLayers - 1 /\ IsMoE(l) /\ x < l /\ x \in Nat /\ l \in Nat
    BY <1>1
  <2>2. j \in 0 .. NumLayer - 1 /\ l = j * ExpertFreq
    BY <2>1, LayerAt
  <2> HIDE DEF j, k
  <2>3. j \in Nat /\ k \in Nat
    BY <1>1, <1>2, <2>2
  <2>4. ~ (j <= k)
    <3> SUFFICES ASSUME j <= k PROVE FALSE
      OBVIOUS
    <3>1. j * ExpertFreq <= k * ExpertFreq
      BY <1>1, <2>3
    <3> QED
      BY <1>2, <2>1, <2>2, <3>1
  <2>5. (k + 1) * ExpertFreq <= j * ExpertFreq
    BY <1>1, <2>3, <2>4
  <2> QED
    BY <2>2, <2>5
<1>5. CASE later # {}
  <2>1. PICK l \in later : TRUE
    BY <1>5
  <2>2. y <= NumLayers - 1 /\ y >= x + 1
    BY <1>1, <1>3, <1>4, <2>1
  <2>3. y \in later /\ \A v \in later : y <= v
    BY <1>1, <1>3, <1>4, <2>2 DEF IsMoE
  <2>4. \A z \in later : (\A v \in later : z <= v) => z = y
    <3> HIDE DEF y
    <3> QED
      BY <1>1, <1>3, <2>3
  <2>5. Min(later) = y
    <3> HIDE DEF y, later
    <3> QED
      BY <2>3, <2>4 DEF Min
  <2>6. y \in 0 .. NumLayers - 1 /\ IsMoE(y)
    BY <1>1, <1>3, <2>2 DEF IsMoE
  <2>7. k + 1 < NumLayer
    <3>1. y \div ExpertFreq \in 0 .. NumLayer - 1
      BY <2>6, LayerAt
    <3> HIDE DEF y, k
    <3> QED
      BY <1>1, <1>3, <3>1
  <2> HIDE DEF y, later, k
  <2> QED
    BY <1>3, <1>5, <2>5, <2>6, <2>7 DEF later, k
<1>6. CASE later = {}
  <2>1. k + 1 < NumLayer => y \in later
    <3> SUFFICES ASSUME k + 1 < NumLayer PROVE y \in later
      OBVIOUS
    <3> HIDE DEF k
    <3>1. k + 1 \in Nat /\ k + 1 < NumLayer
      BY <1>1, <1>2
    <3>2. ((k + 1) + 1) * ExpertFreq <= NumLayer * ExpertFreq
      BY <1>1, <3>1
    <3>3. y < NumLayers
      BY <1>1, <3>1, <3>2
    <3> HIDE DEF y
    <3> QED
      BY <1>1, <1>3, <3>3 DEF IsMoE
  <2>2. ~ (k + 1 < NumLayer)
    BY <1>6, <2>1
  <2> HIDE DEF k
  <2>3. k + 1 = NumLayer
    BY <1>1, <1>2, <2>2
  <2> QED
    BY <1>6, <2>3 DEF k
<1> QED
  BY <1>5, <1>6

-----------------------------------------------------------------------------
(* The invariant of the layers *)

LEMMA InitLayerInv ==
  ASSUME NumLayers % ExpertFreq = 0, Init
  PROVE  LayerInv
<1>1. ExpertFreq \in Nat \ {0} /\ NumLayers \in Nat \ {0}
  BY LayerCounts
<1>2. (0 * ExpertFreq + 0) \div ExpertFreq = 0 /\ (0 * ExpertFreq + 0) % ExpertFreq = 0
  BY <1>1, DivisionUnique
<1>3. 0 \div ExpertFreq = 0 /\ 0 % ExpertFreq = 0
  BY <1>1, <1>2
<1> QED
  BY <1>1, <1>3 DEF Init, LayerInv, IsMoE, ExpertLayer, TracedExperts

\* The gate counts what the trace holds for this layer and moves cur_layer on.
LEMMA GateLayerInv ==
  ASSUME NumLayers % ExpertFreq = 0, LayerInv, GateUpdate
  PROVE  LayerInv'
<1>1. /\ phase = "gate_update" /\ phase' = "moe_scatter"
      /\ curLayer' = [r \in Replicas |-> (curLayer[r] + 1) % NumLayer]
      /\ UNCHANGED <<batch, layer>>
  BY DEF GateUpdate
<1>2. curLayer = [r \in Replicas |-> ExpertLayer] /\ ExpertLayer' = ExpertLayer
  BY <1>1 DEF LayerInv, ExpertLayer
<1>3. \A r \in Replicas : local'[r] \in UpdateExpert(r)
  BY DEF GateUpdate
<1>4. ExpertLayer \in 0 .. NumLayer - 1
  BY LayerAt DEF LayerInv, ExpertLayer
<1>5. TracedExperts'
  <2> SUFFICES ASSUME NEW r \in Replicas, NEW e \in Experts, batch[r].fromList
               PROVE  local'[r][e] =
                        Cardinality({t \in batch[r].len .. batch[r].len + batch[r].tokens - 1 :
                                       e \in Trace[t][ExpertLayer]})
    BY <1>1, <1>2 DEF TracedExperts, ExpertLayer
  <2>1. local'[r] = TracedTokens(batch[r], ExpertLayer)
    BY <1>2, <1>3 DEF UpdateExpert
  <2> DEFINE passed == batch[r].len .. batch[r].len + batch[r].tokens - 1
  <2>2. passed \subseteq Nat
    <3>1. batch[r] \in Processed
      BY ExchangeAssumption DEF LayerInv
    <3> QED
      BY <3>1 DEF Processed
  <2>3. \A t \in passed : ExpertList(t * NumLayer + ExpertLayer) = Trace[t][ExpertLayer]
    BY <1>4, <2>2, ListedExperts
  <2>4. local'[r][e] = Cardinality({t \in passed : e \in ExpertList(t * NumLayer + ExpertLayer)})
    BY <2>1 DEF TracedTokens
  <2>5. {t \in passed : e \in ExpertList(t * NumLayer + ExpertLayer)}
          = {t \in passed : e \in Trace[t][ExpertLayer]}
    BY <2>3
  <2> QED
    BY <2>4, <2>5
<1>6. curLayer' = [r \in Replicas |-> (ExpertLayer + 1) % NumLayer]
  BY <1>1, <1>2
<1> QED
  BY <1>1, <1>2, <1>5, <1>6 DEF LayerInv

\* The next layer with experts is the one cur_layer has been moved to.
LEMMA NextLayerInv ==
  ASSUME NumLayers % ExpertFreq = 0, LayerInv, NextLayer
  PROVE  LayerInv'
<1> DEFINE later == {l \in layer + 1 .. NumLayers - 1 : IsMoE(l)}
<1>1. /\ phase = "next_layer" /\ phase' = "gate_update" /\ UNCHANGED curLayer
      /\ IF later # {} THEN layer' = Min(later) /\ UNCHANGED batch
                       ELSE layer' = 0 /\ batch' \in [Replicas -> Batches]
  BY DEF NextLayer
<1>2. /\ layer \in 0 .. NumLayers - 1 /\ IsMoE(layer)
      /\ curLayer = [r \in Replicas |-> (ExpertLayer + 1) % NumLayer]
  BY <1>1 DEF LayerInv
<1>3. /\ ExpertFreq \in Nat \ {0} /\ NumLayers \in Nat \ {0} /\ NumLayer \in Nat \ {0}
      /\ ExpertLayer \in Nat
  <2>1. ExpertLayer \in 0 .. NumLayer - 1
    BY <1>2, LayerAt DEF ExpertLayer
  <2> QED
    BY <2>1, LayerCounts
<1>4. batch' \in [Replicas -> Batches]
  BY <1>1 DEF LayerInv
<1>5. CASE later # {}
  <2>1. /\ layer' \in 0 .. NumLayers - 1 /\ IsMoE(layer')
        /\ layer' \div ExpertFreq = ExpertLayer + 1 /\ ExpertLayer + 1 < NumLayer
    BY <1>1, <1>2, <1>5, NextExpertLayer DEF ExpertLayer
  <2> DEFINE p == ExpertLayer + 1
  <2>2. p \in 0 .. NumLayer - 1
    BY <1>3, <2>1
  <2> HIDE DEF p
  <2>3. (0 * NumLayer + p) % NumLayer = p
    BY <1>3, <2>2, DivisionUnique
  <2>4. (ExpertLayer + 1) % NumLayer = ExpertLayer + 1
    BY <1>3, <2>2, <2>3 DEF p
  <2>5. curLayer' = [r \in Replicas |-> layer' \div ExpertFreq]
    BY <1>1, <1>2, <2>1, <2>4
  <2> QED
    BY <1>1, <1>4, <2>1, <2>5 DEF LayerInv, ExpertLayer, IsMoE, TracedExperts
<1>6. CASE later = {}
  <2>1. ExpertLayer + 1 = NumLayer /\ layer' = 0
    BY <1>1, <1>2, <1>6, NextExpertLayer DEF ExpertLayer
  <2>2. (1 * NumLayer + 0) % NumLayer = 0 /\ (0 * ExpertFreq + 0) \div ExpertFreq = 0
        /\ (0 * ExpertFreq + 0) % ExpertFreq = 0
    BY <1>3, DivisionUnique
  <2>3. NumLayer % NumLayer = 0 /\ 0 \div ExpertFreq = 0 /\ 0 % ExpertFreq = 0
    BY <1>3, <2>2
  <2>4. curLayer' = [r \in Replicas |-> 0]
    BY <1>1, <1>2, <2>1, <2>3
  <2> QED
    BY <1>1, <1>3, <1>4, <2>1, <2>3, <2>4 DEF LayerInv, ExpertLayer, IsMoE, TracedExperts
<1> QED
  BY <1>5, <1>6

\* The modules in between neither count nor move on.
LEMMA ExchangeLayerInv ==
  ASSUME LayerInv,
         \/ MoEScatter \/ RunExperts \/ MoEGather
         \/ Reduce("moe_all_reduce_for_e_tp", eTp, "moe_gather")
         \/ Reduce("moe_all_reduce_for_gather", NeTp, "next_layer")
         \/ UNCHANGED vars
  PROVE  LayerInv'
<1>1. CASE UNCHANGED vars
  BY <1>1 DEF vars, LayerInv, ExpertLayer, TracedExperts
<1>2. CASE ~ UNCHANGED vars
  <2>1. /\ phase # "gate_update" /\ phase' \notin {"gate_update", "moe_scatter"}
        /\ UNCHANGED <<batch, layer, curLayer>>
    BY <1>2 DEF MoEScatter, RunExperts, MoEGather, Reduce
  <2> QED
    BY <2>1 DEF LayerInv, ExpertLayer, TracedExperts
<1> QED
  BY <1>1, <1>2

-----------------------------------------------------------------------------
(* The trace is followed *)

\* A traced sequence uses the experts its trace holds for the token and layer
\* at hand, in every layer of every pass.
THEOREM TraceFollowed ==
  NumLayers % ExpertFreq = 0 /\ Spec => []TracedExperts
<1> DEFINE Fits == NumLayers % ExpertFreq = 0
<1>1. Fits /\ Init => Fits /\ LayerInv
  BY InitLayerInv
<1>2. Fits /\ LayerInv /\ [Next]_vars => (Fits /\ LayerInv)'
  BY GateLayerInv, NextLayerInv, ExchangeLayerInv DEF Next
<1>3. LayerInv => TracedExperts
  BY DEF LayerInv
<1> QED
  BY <1>1, <1>2, <1>3, PTL DEF Spec

-----------------------------------------------------------------------------
(* The devices of a stage *)

\* The pipeline stages.
Stages == 0 .. PpDegree - 1

\* The devices of stage s, in the ranks of the whole system.
DevicesOf(s) == {d \in Devices : (d \div NeTp) % PpDegree = s}

\* The replica of a device and its rank in its stage, from its rank in the system.
RepOf(d) == (d \div NeTp) \div PpDegree
RankOf(d) == RepOf(d) * NeTp + (d % NeTp)

\* The group of replica r in stage s, counted over the whole system.
GroupAt(s, r) == r * PpDegree + s

LEMMA Degrees ==
  /\ NeTp \in Nat \ {0} /\ PpDegree \in Nat \ {0} /\ DpDegree \in Nat \ {0}
  /\ NumExperts \in Nat \ {0} /\ HiddenBytes \in Nat \ {0}
  /\ NodeDevices \in Nat \ {0}
BY ExchangeAssumption

LEMMA StageType ==
  ASSUME layer \in 0 .. NumLayers - 1
  PROVE  Stage \in Stages
<1> DEFINE w == NumLayers \div PpDegree
<1>1. NumLayers \in Nat \ {0} /\ PpDegree \in Nat \ {0} /\ NumLayers % PpDegree = 0
  BY ExchangeAssumption
<1>2. w \in Nat /\ NumLayers = w * PpDegree
  BY <1>1, Division
<1> DEFINE q == layer \div w
<1>3. Stage = q
  BY DEF Stage
<1> HIDE DEF w
<1>4. w \in Nat \ {0}
  BY <1>1, <1>2
<1>5. layer \in Nat /\ layer < NumLayers
  BY <1>1
<1>6. q \in Nat /\ layer = q * w + (layer % w) /\ layer % w \in 0 .. w - 1
  BY <1>4, <1>5, Division
<1> HIDE DEF q
<1>7. q * w + (layer % w) < PpDegree * w
  <2>1. PpDegree * w = w * PpDegree
    BY <1>1, <1>4
  <2> QED
    BY <1>2, <1>5, <1>6, <2>1
<1>8. q < PpDegree
  BY <1>1, <1>4, <1>6, <1>7, InRows
<1> QED
  BY <1>1, <1>3, <1>6, <1>8 DEF Stages

\* Where a device of stage s is.
LEMMA DeviceOfStage ==
  ASSUME NEW s \in Stages, NEW d \in DevicesOf(s)
  PROVE  /\ d \in Nat /\ d % NeTp \in 0 .. NeTp - 1
         /\ RepOf(d) \in Replicas
         /\ d \div NeTp = GroupAt(s, RepOf(d))
         /\ d = GroupAt(s, RepOf(d)) * NeTp + (d % NeTp)
<1> DEFINE a == d \div NeTp
           b == d % NeTp
           r == a \div PpDegree
<1>1. NeTp \in Nat \ {0} /\ PpDegree \in Nat \ {0} /\ DpDegree \in Nat \ {0}
  BY Degrees
<1>2. /\ d \in Devices /\ a % PpDegree = s /\ RepOf(d) = r
  BY DEF DevicesOf, RepOf
<1>3. d \in Nat /\ d < NeTp * PpDegree * DpDegree
  BY <1>1, <1>2 DEF Devices
<1>4. a \in Nat /\ b \in 0 .. NeTp - 1 /\ d = a * NeTp + b
  BY <1>1, <1>3, Division
<1> HIDE DEF a, b
<1>5. r \in Nat /\ a = r * PpDegree + s
  BY <1>1, <1>2, <1>4, Division
<1> HIDE DEF r
<1>6. NeTp * PpDegree * DpDegree = (DpDegree * PpDegree) * NeTp
  BY <1>1
<1>7. a < DpDegree * PpDegree
  <2>1. a * NeTp + b < (DpDegree * PpDegree) * NeTp
    BY <1>3, <1>4, <1>6
  <2>2. DpDegree * PpDegree \in Nat
    BY <1>1
  <2> HIDE DEF a
  <2> QED
    BY <1>1, <1>4, <2>1, <2>2, InRows
<1>8. r < DpDegree
  <2>1. r * PpDegree + s < DpDegree * PpDegree
    BY <1>5, <1>7
  <2>2. s \in 0 .. PpDegree - 1
    BY DEF Stages
  <2> QED
    BY <1>1, <1>5, <2>1, <2>2, InRows
<1>9. r \in Replicas
  BY <1>1, <1>5, <1>8 DEF Replicas
<1> QED
  BY <1>2, <1>3, <1>4, <1>5, <1>9 DEF GroupAt, a, b

\* Replica r has NeTp devices in stage s.
LEMMA DeviceOfGroup ==
  ASSUME NEW s \in Stages, NEW r \in Replicas, NEW b \in 0 .. NeTp - 1
  PROVE  LET d == GroupAt(s, r) * NeTp + b
         IN  d \in DevicesOf(s) /\ RepOf(d) = r /\ d % NeTp = b
<1> DEFINE a == GroupAt(s, r)
           d == a * NeTp + b
<1>1. NeTp \in Nat \ {0} /\ PpDegree \in Nat \ {0} /\ DpDegree \in Nat \ {0}
  BY Degrees
<1>2. s \in 0 .. PpDegree - 1 /\ r \in Nat /\ r < DpDegree
  BY <1>1 DEF Stages, Replicas
<1>3. a = r * PpDegree + s /\ a \in Nat
  BY <1>1, <1>2 DEF GroupAt
<1>4. a < DpDegree * PpDegree
  BY <1>1, <1>2, <1>3, InRows
<1>5. a \div PpDegree = r /\ a % PpDegree = s
  BY <1>1, <1>2, <1>3, DivisionUnique
<1> HIDE DEF a
<1>6. d \in Nat /\ d < (DpDegree * PpDegree) * NeTp
  BY <1>1, <1>3, <1>4, InRows
<1>7. d \div NeTp = a /\ d % NeTp = b
  BY <1>1, <1>3, DivisionUnique
<1>8. (DpDegree * PpDegree) * NeTp = NeTp * PpDegree * DpDegree
  BY <1>1
<1>9. d \in Devices
  <2> HIDE DEF d
  <2> QED
    BY <1>1, <1>6, <1>8 DEF Devices
<1> HIDE DEF d
<1>10. d \in DevicesOf(s) /\ RepOf(d) = r /\ d % NeTp = b
  BY <1>5, <1>7, <1>9 DEF DevicesOf, RepOf
<1> QED
  BY <1>10 DEF d, a

LEMMA StageIsFinite ==
  ASSUME NEW s \in Stages
  PROVE  IsFiniteSet(DevicesOf(s))
<1>1. NeTp * PpDegree * DpDegree - 1 \in Int
  BY Degrees
<1>2. IsFiniteSet(Devices)
  BY <1>1, FS_Interval DEF Devices
<1> QED
  BY <1>2, FS_Subset DEF DevicesOf

\* The ranks of a stage are in the order of those of the system.
LEMMA RankOrder ==
  ASSUME NEW s \in Stages, NEW d \in DevicesOf(s), NEW e \in DevicesOf(s)
  PROVE  /\ e < d <=> RankOf(e) < RankOf(d)
         /\ RankOf(d) \in Nat /\ (RankOf(d) = RankOf(e) => d = e)
<1> DEFINE r == RepOf(d)
           q == RepOf(e)
           b == d % NeTp
           c == e % NeTp
<1>1. NeTp \in Nat \ {0} /\ PpDegree \in Nat \ {0} /\ s \in Nat
  BY Degrees DEF Stages
<1>2. /\ r \in Nat /\ q \in Nat /\ b \in 0 .. NeTp - 1 /\ c \in 0 .. NeTp - 1
      /\ d = (r * PpDegree + s) * NeTp + b /\ e = (q * PpDegree + s) * NeTp + c
  BY DeviceOfStage, Degrees DEF GroupAt, Replicas
<1>3. RankOf(d) = r * NeTp + b /\ RankOf(e) = q * NeTp + c
  BY DEF RankOf
<1> HIDE DEF r, q, b, c
<1>4. ASSUME NEW x \in Nat, NEW y \in Nat, NEW u \in 0 .. NeTp - 1, NEW v \in 0 .. NeTp - 1,
             x < y
      PROVE  /\ x * NeTp + u < y * NeTp + v
             /\ (x * PpDegree + s) * NeTp + u < (y * PpDegree + s) * NeTp + v
  <2>1. ASSUME NEW m \in Nat, NEW n \in Nat, m < n PROVE m * NeTp + u < n * NeTp + v
    <3>1. (m + 1) * NeTp <= n * NeTp /\ (m + 1) * NeTp = m * NeTp + NeTp
      BY <1>1, <2>1
    <3> QED
      BY <1>1, <3>1
  <2>2. x * PpDegree + s < y * PpDegree + s
    <3>1. (x + 1) * PpDegree <= y * PpDegree /\ (x + 1) * PpDegree = x * PpDegree + PpDegree
      BY <1>1, <1>4
    <3> QED
      BY <1>1, <3>1
  <2>3. x * PpDegree + s \in Nat /\ y * PpDegree + s \in Nat
    BY <1>1
  <2> QED
    BY <1>4, <2>1, <2>2, <2>3
<1>5. CASE r < q
  <2>1. r * NeTp + b < q * NeTp + c /\ d < e
    BY <1>2, <1>4, <1>5
  <2> QED
    BY <1>1, <1>2, <1>3, <2>1
<1>6. CASE q < r
  <2>1. q * NeTp + c < r * NeTp + b /\ e < d
    BY <1>2, <1>4, <1>6
  <2> QED
    BY <1>1, <1>2, <1>3, <2>1
<1>7. CASE r = q
  BY <1>1, <1>2, <1>3, <1>7
<1> QED
  BY <1>2, <1>5, <1>6, <1>7

\* They number the devices of the stage from 0.
LEMMA RankRange ==
  ASSUME NEW s \in Stages
  PROVE  /\ \A d \in DevicesOf(s) : RankOf(d) \in 0 .. DpDegree * NeTp - 1
         /\ \A i \in 0 .. DpDegree * NeTp - 1 : \E d \in DevicesOf(s) : RankOf(d) = i
<1>1. NeTp \in Nat \ {0} /\ DpDegree \in Nat \ {0} /\ DpDegree * NeTp \in Nat
  BY Degrees
<1>2. ASSUME NEW d \in DevicesOf(s) PROVE RankOf(d) \in 0 .. DpDegree * NeTp - 1
  <2> DEFINE r == RepOf(d)
             b == d % NeTp
  <2>1. r \in Nat /\ r < DpDegree /\ b \in 0 .. NeTp - 1 /\ RankOf(d) = r * NeTp + b
    BY <1>1, DeviceOfStage DEF RankOf, Replicas
  <2> HIDE DEF r, b
  <2>2. r * NeTp + b < DpDegree * NeTp /\ r * NeTp + b \in Nat
    BY <1>1, <2>1, InRows
  <2> DEFINE m == DpDegree * NeTp
             x == r * NeTp + b
  <2>3. RankOf(d) = x /\ x \in Nat /\ x < m /\ m \in Nat
    BY <1>1, <2>1, <2>2
  <2> HIDE DEF m, x
  <2>4. RankOf(d) \in 0 .. m - 1
    BY <2>3
  <2> QED
    BY <2>4 DEF m
<1>3. ASSUME NEW i \in 0 .. DpDegree * NeTp - 1 PROVE \E d \in DevicesOf(s) : RankOf(d) = i
  <2> DEFINE r == i \div NeTp
             b == i % NeTp
             d == GroupAt(s, r) * NeTp + b
  <2>1. i \in Nat /\ i < DpDegree * NeTp
    BY <1>1
  <2>2. r \in Nat /\ b \in 0 .. NeTp - 1 /\ i = r * NeTp + b
    BY <1>1, <2>1, Division
  <2> HIDE DEF r, b
  <2>3. r < DpDegree
    BY <1>1, <2>1, <2>2, InRows
  <2>4. r \in Replicas
    BY <1>1, <2>2, <2>3 DEF Replicas
  <2>5. d \in DevicesOf(s) /\ RepOf(d) = r /\ d % NeTp = b
    BY <2>2, <2>4, DeviceOfGroup
  <2> HIDE DEF d
  <2> QED
    BY <2>2, <2>5 DEF RankOf
<1> QED
  BY <1>2, <1>3

\* So it has all of them.
LEMMA StageSize ==
  ASSUME NEW s \in Stages
  PROVE  Cardinality(DevicesOf(s)) = NeTp * DpDegree
<1> DEFINE n == DpDegree * NeTp
           D == DevicesOf(s)
           f == [d \in D |-> RankOf(d)]
<1>1. n \in Nat /\ n = NeTp * DpDegree
  BY Degrees
<1>2. /\ f \in [D -> 0 .. n - 1]
      /\ \A d, e \in D : f[d] = f[e] => d = e
      /\ \A i \in 0 .. n - 1 : \E d \in D : f[d] = i
  BY RankOrder, RankRange
<1>3. IsFiniteSet(D)
  BY StageIsFinite
<1> HIDE DEF f, n, D
<1> QED
  BY <1>1, <1>2, <1>3, NumberedSet DEF D

\* A replica has as many devices in a stage as tensor parallelism takes.
LEMMA GroupSize ==
  ASSUME NEW s \in Stages, NEW r \in Replicas
  PROVE  Cardinality({d \in DevicesOf(s) : RepOf(d) = r}) = NeTp
<1> DEFINE G == {d \in DevicesOf(s) : RepOf(d) = r}
           f == [d \in G |-> d % NeTp]
<1>1. NeTp \in Nat
  BY Degrees
<1>2. f \in [G -> 0 .. NeTp - 1] /\ \A d, e \in G : f[d] = f[e] => d = e
  BY DeviceOfStage
<1>3. ASSUME NEW b \in 0 .. NeTp - 1 PROVE \E d \in G : f[d] = b
  <2> DEFINE d == GroupAt(s, r) * NeTp + b
  <2>1. d \in DevicesOf(s) /\ RepOf(d) = r /\ d % NeTp = b
    BY DeviceOfGroup
  <2> HIDE DEF d
  <2> QED
    BY <2>1
<1>4. IsFiniteSet(G)
  BY StageIsFinite, FS_Subset
<1> HIDE DEF f, G
<1> QED
  BY <1>1, <1>2, <1>3, <1>4, NumberedSet DEF G

-----------------------------------------------------------------------------
(* The layout of the stage at hand *)

\* get_local_rank_in_list is the place of a device in its stage.
LEMMA LocalRankIs ==
  ASSUME layer \in 0 .. NumLayers - 1, NEW d \in StageDevices
  PROVE  LocalRank(d) = RankOf(d)
<1> DEFINE D == DevicesOf(Stage)
           n == RankOf(d)
           m == DpDegree * NeTp
           B == {e \in D : e < d}
           f == [e \in B |-> RankOf(e)]
<1>1. Stage \in Stages /\ StageDevices = D /\ d \in D
  BY StageType DEF StageDevices, DevicesOf
<1>2. n \in Nat /\ n \in 0 .. m - 1 /\ m \in Nat
  <2>1. m \in Nat
    BY Degrees
  <2> QED
    BY <1>1, <2>1, RankOrder, RankRange
<1>3. f \in [B -> 0 .. n - 1]
  <2>1. ASSUME NEW e \in B PROVE RankOf(e) \in 0 .. n - 1
    <3>1. RankOf(e) < n /\ RankOf(e) \in Nat
      BY <1>1, RankOrder
    <3> HIDE DEF n
    <3> QED
      BY <1>2, <3>1
  <2> QED
    BY <2>1
<1>4. \A x, y \in B : f[x] = f[y] => x = y
  BY <1>1, RankOrder
<1>5. ASSUME NEW i \in 0 .. n - 1 PROVE \E e \in B : f[e] = i
  <2>1. i \in 0 .. m - 1 /\ i < n
    <3> HIDE DEF m, n
    <3> QED
      BY <1>2
  <2>2. PICK e \in D : RankOf(e) = i
    BY <1>1, <2>1, RankRange
  <2>3. e < d
    BY <1>1, <2>1, <2>2, RankOrder
  <2> QED
    BY <2>2, <2>3
<1>6. IsFiniteSet(B)
  BY <1>1, StageIsFinite, FS_Subset
<1>7. LocalRank(d) = Cardinality(B)
  BY <1>1 DEF LocalRank
<1> HIDE DEF f, B, n
<1>8. Cardinality(B) = n
  BY <1>2, <1>3, <1>4, <1>5, <1>6, NumberedSet
<1> QED
  BY <1>7, <1>8 DEF n

\* What the code's layout functions come to.
LEMMA StageLayout ==
  ASSUME layer \in 0 .. NumLayers - 1, NEW d \in StageDevices
  PROVE  /\ Stage \in Stages /\ StageDevices = DevicesOf(Stage)
         /\ LocalRank(d) = RankOf(d) /\ ReplicaOf(d) = RepOf(d) /\ RepOf(d) \in Replicas
         /\ \A e \in StageDevices : e \in TpGroup(d) <=> RepOf(e) = RepOf(d)
<1>1. Stage \in Stages /\ StageDevices = DevicesOf(Stage)
  BY StageType DEF StageDevices, DevicesOf
<1>2. LocalRank(d) = RankOf(d)
  BY LocalRankIs
<1>3. /\ NeTp \in Nat \ {0} /\ PpDegree \in Nat \ {0} /\ RepOf(d) \in Nat
      /\ RepOf(d) \in Replicas /\ d % NeTp \in 0 .. NeTp - 1
  BY <1>1, DeviceOfStage, Degrees DEF Replicas
<1>4. ReplicaOf(d) = RepOf(d)
  <2>1. (RepOf(d) * NeTp + (d % NeTp)) \div NeTp = RepOf(d)
    BY <1>3, DivisionUnique
  <2> QED
    BY <1>2, <2>1 DEF ReplicaOf, RankOf
<1>5. ASSUME NEW e \in StageDevices
      PROVE  e \in TpGroup(d) <=> RepOf(e) = RepOf(d)
  <2>1. /\ d \div NeTp = GroupAt(Stage, RepOf(d)) /\ e \div NeTp = GroupAt(Stage, RepOf(e))
        /\ e \in Devices
    BY <1>1, DeviceOfStage DEF DevicesOf
  <2>2. e \in TpGroup(d) <=> e \div NeTp = d \div NeTp
    BY <2>1 DEF TpGroup
  <2>3. e \div NeTp = d \div NeTp <=> RepOf(e) = RepOf(d)
    BY <2>1 DEF RepOf
  <2> QED
    BY <2>2, <2>3
<1> QED
  BY <1>1, <1>2, <1>3, <1>4, <1>5

\* The first device of a replica is one of its devices.
LEMMA FirstOfReplica ==
  ASSUME layer \in 0 .. NumLayers - 1, NEW r \in Replicas
  PROVE  DeviceAt(r * NeTp) \in StageDevices /\ RepOf(DeviceAt(r * NeTp)) = r
<1> DEFINE d == GroupAt(Stage, r) * NeTp + 0
           a == DeviceAt(r * NeTp)
<1>1. NeTp \in Nat \ {0} /\ r \in Nat /\ 0 \in 0 .. NeTp - 1
  BY Degrees DEF Replicas
<1>2. Stage \in Stages /\ StageDevices = DevicesOf(Stage)
  BY StageType DEF StageDevices, DevicesOf
<1>3. d \in StageDevices /\ RepOf(d) = r /\ d % NeTp = 0
  BY <1>1, <1>2, DeviceOfGroup
<1> HIDE DEF d
<1>4. LocalRank(d) = r * NeTp
  <2>1. LocalRank(d) = RankOf(d)
    BY <1>3, StageLayout
  <2> QED
    BY <1>1, <1>3, <2>1 DEF RankOf
<1>5. a \in StageDevices /\ LocalRank(a) = r * NeTp
  BY <1>3, <1>4 DEF DeviceAt
<1> HIDE DEF a
<1>6. ReplicaOf(a) = r
  <2>1. (r * NeTp + 0) \div NeTp = r
    BY <1>1, DivisionUnique
  <2> QED
    BY <1>1, <1>5, <2>1 DEF ReplicaOf
<1> QED
  BY <1>5, <1>6, StageLayout DEF a

\* A group of devices is on one node.
LEMMA NodeOfGroup ==
  ASSUME NEW s \in Stages, NEW d \in DevicesOf(s), NEW e \in DevicesOf(s),
         RepOf(d) = RepOf(e)
  PROVE  Node(d) = Node(e)
<1> DEFINE m == NodeDevices \div NeTp
           a == GroupAt(s, RepOf(d))
           q == a \div m
           c == a % m
<1>1. NeTp \in Nat \ {0} /\ NodeDevices \in Nat \ {0} /\ NodeDevices % NeTp = 0
  BY Degrees, ExchangeAssumption
<1>2. m \in Nat /\ NodeDevices = m * NeTp
  BY <1>1, Division
<1> HIDE DEF m
<1>3. m \in Nat \ {0}
  BY <1>1, <1>2
<1>4. a \in Nat
  BY DeviceOfStage, Degrees DEF GroupAt, Stages, Replicas
<1>5. /\ d = a * NeTp + (d % NeTp) /\ d % NeTp \in 0 .. NeTp - 1
      /\ e = a * NeTp + (e % NeTp) /\ e % NeTp \in 0 .. NeTp - 1
  BY DeviceOfStage
<1> HIDE DEF a
<1>6. q \in Nat /\ c \in 0 .. m - 1 /\ a = q * m + c
  BY <1>3, <1>4, Division
<1> HIDE DEF q, c
<1>7. ASSUME NEW b \in 0 .. NeTp - 1
      PROVE  (a * NeTp + b) \div NodeDevices = q
  <2> DEFINE x == c * NeTp + b
  <2>1. x \in Nat /\ x < m * NeTp
    BY <1>1, <1>3, <1>6, InRows
  <2>2. a * NeTp + b = q * (m * NeTp) + x
    <3>1. a * NeTp = (q * m) * NeTp + c * NeTp
      BY <1>1, <1>3, <1>6
    <3>2. (q * m) * NeTp = q * (m * NeTp)
      BY <1>1, <1>3, <1>6
    <3>3. q * (m * NeTp) \in Int /\ c * NeTp \in Int /\ b \in Int
      BY <1>1, <1>3, <1>6
    <3> QED
      BY <3>1, <3>2, <3>3
  <2> HIDE DEF x
  <2>3. x \in 0 .. NodeDevices - 1
    BY <1>1, <1>2, <2>1
  <2>4. (q * NodeDevices + x) \div NodeDevices = q
    BY <1>1, <1>6, <2>3, DivisionUnique
  <2> QED
    BY <1>2, <2>2, <2>4
<1>8. d \div NodeDevices = q /\ e \div NodeDevices = q
  BY <1>5, <1>7
<1> QED
  BY <1>8 DEF Node

-----------------------------------------------------------------------------
(* Experts of a device *)

\* The experts the exchange takes d to have, from its rank in the stage.
Addressed(k, d) ==
  LET perDevice == NumExperts \div (NeTp * DpDegree)
      offset == perDevice * (RankOf(d) \div k) * k
  IN  offset .. offset + perDevice * k - 1

\* What an action needs to know of the state.
ExchangeType ==
  /\ layer \in 0 .. NumLayers - 1
  /\ eTp \in ETps
  /\ local \in [Replicas -> [Experts -> Nat]]

\* MoEScatter and MoEGather count by the rank in the stage.
LEMMA AddressedIs ==
  ASSUME ExchangeType, NEW d \in StageDevices
  PROVE  AddressedExperts(d) = Addressed(eTp, d)
<1>1. Stage \in Stages /\ StageDevices = DevicesOf(Stage) /\ LocalRank(d) = RankOf(d)
  BY StageLayout DEF ExchangeType
<1>2. Cardinality(StageDevices) = NeTp * DpDegree
  BY <1>1, StageSize
<1> QED
  BY <1>1, <1>2 DEF AddressedExperts, Addressed

\* The products the layout of the experts is made of.
LEMMA ExpertLayout ==
  ASSUME NEW s \in Stages, NEW d \in DevicesOf(s), NEW k \in ETps
  PROVE  LET n == NeTp * DpDegree
             p == NumExperts \div n
             g == n \div k
             q == RankOf(d) \div k
         IN  /\ k \in Nat \ {0} /\ n \in Nat \ {0} /\ p \in Nat /\ g \in Nat /\ q \in Nat
             /\ n = g * k /\ q < g /\ g # 0
             /\ NumExperts = p * n + (NumExperts % n) /\ NumExperts % n \in Nat
<1> DEFINE n == NeTp * DpDegree
           p == NumExperts \div n
           g == n \div k
           q == RankOf(d) \div k
<1>1. NeTp \in Nat \ {0} /\ DpDegree \in Nat \ {0} /\ NumExperts \in Nat
  BY Degrees
<1>2. n \in Nat \ {0} /\ n = DpDegree * NeTp
  BY <1>1
<1>3. k \in Nat \ {0} /\ n % k = 0
  BY ExchangeAssumption
<1>4. RankOf(d) \in 0 .. DpDegree * NeTp - 1
  BY RankRange
<1> HIDE DEF n
<1>5. p \in Nat /\ NumExperts = p * n + (NumExperts % n) /\ NumExperts % n \in Nat
  <2>1. NumExperts % n \in 0 .. n - 1
    BY <1>1, <1>2, Division
  <2>2. p \in Nat /\ NumExperts = p * n + (NumExperts % n)
    BY <1>1, <1>2, Division
  <2> QED
    BY <1>2, <2>1, <2>2
<1>6. g \in Nat /\ n = g * k
  <2>1. g \in Nat /\ n = g * k + (n % k)
    BY <1>2, <1>3, Division
  <2> HIDE DEF g
  <2> QED
    BY <1>3, <2>1
<1> DEFINE x == RankOf(d)
<1>7. x \in Nat /\ x < n
  BY <1>2, <1>4
<1> HIDE DEF x
<1>8. x \div k \in Nat /\ x = (x \div k) * k + (x % k) /\ x % k \in 0 .. k - 1
  BY <1>3, <1>7, Division
<1>9. q = x \div k
  BY DEF x
<1> HIDE DEF g, q, p
<1>10. q * k + (x % k) < g * k
  BY <1>6, <1>7, <1>8, <1>9
<1>11. q < g
  BY <1>3, <1>6, <1>8, <1>9, <1>10, InRows
<1>12. g # 0
  BY <1>2, <1>3, <1>6
<1> QED
  BY <1>2, <1>3, <1>5, <1>6, <1>8, <1>9, <1>11, <1>12 DEF n, p, g, q

LEMMA AddressedAreExperts ==
  ASSUME NEW s \in Stages, NEW d \in DevicesOf(s), NEW k \in ETps
  PROVE  Addressed(k, d) \subseteq Experts /\ IsFiniteSet(Addressed(k, d))
<1> DEFINE n == NeTp * DpDegree
           p == NumExperts \div n
           g == n \div k
           q == RankOf(d) \div k
           o == p * q * k
           z == p * k
<1>1. /\ k \in Nat \ {0} /\ n \in Nat \ {0} /\ p \in Nat /\ g \in Nat /\ q \in Nat
      /\ n = g * k /\ q < g /\ NumExperts = p * n + (NumExperts % n) /\ NumExperts % n \in Nat
  BY ExpertLayout
<1>2. Addressed(k, d) = o .. o + z - 1
  BY DEF Addressed
<1> HIDE DEF n, p, g, q
<1>3. o \in Nat /\ z \in Nat
  BY <1>1
<1>4. o + z <= p * n
  <2>1. (q + 1) * k <= g * k
    BY <1>1
  <2>2. p * ((q + 1) * k) <= p * (g * k)
    <3> DEFINE a == (q + 1) * k
               b == g * k
    <3>1. a \in Nat /\ b \in Nat /\ a <= b
      BY <1>1, <2>1
    <3> HIDE DEF a, b
    <3>2. p * a <= p * b
      BY <1>1, <3>1
    <3> QED
      BY <3>2 DEF a, b
  <2>3. p * ((q + 1) * k) = p * q * k + p * k
    BY <1>1
  <2> QED
    BY <1>1, <2>2, <2>3
<1>5. o + z <= NumExperts
  <2>1. p * n \in Nat /\ NumExperts \in Nat
    BY <1>1, Degrees
  <2> HIDE DEF o, z
  <2> QED
    BY <1>1, <1>3, <1>4, <2>1
<1> HIDE DEF o, z
<1>6. o .. o + z - 1 \subseteq Experts
  BY <1>3, <1>5, Degrees DEF Experts
<1>7. IsFiniteSet(o .. o + z - 1)
  <2>1. o + z - 1 \in Int /\ o \in Int
    BY <1>3
  <2> QED
    BY <2>1, FS_Interval
<1> QED
  BY <1>2, <1>6, <1>7

\* With the experts split evenly over the devices, the exchange addresses the
\* experts ExpertFFN has created.
LEMMA HostedAreAddressed ==
  ASSUME ExchangeType, NumExperts % (NeTp * DpDegree) = 0, NEW d \in StageDevices
  PROVE  HostedExperts(d) = Addressed(eTp, d)
<1> DEFINE k == eTp
           n == NeTp * DpDegree
           p == NumExperts \div n
           g == n \div k
           q == RankOf(d) \div k
<1>1. Stage \in Stages /\ StageDevices = DevicesOf(Stage) /\ LocalRank(d) = RankOf(d)
  BY StageLayout DEF ExchangeType
<1>2. Cardinality(StageDevices) = n
  BY <1>1, StageSize
<1>3. k \in ETps
  BY DEF ExchangeType
<1>4. HostedExperts(d) = (NumExperts \div g) * q .. (NumExperts \div g) * q + NumExperts \div g - 1
  BY <1>1, <1>2 DEF HostedExperts, ExpertOffset
<1>5. Addressed(k, d) = p * q * k .. p * q * k + p * k - 1
  BY DEF Addressed
<1>6. /\ k \in Nat \ {0} /\ n \in Nat \ {0} /\ p \in Nat /\ g \in Nat /\ q \in Nat
      /\ n = g * k /\ g # 0 /\ NumExperts = p * n + (NumExperts % n)
  BY <1>1, <1>3, ExpertLayout
<1>7. NumExperts = p * n + 0
  BY <1>6
<1> HIDE DEF n, p, g, q, k
<1>8. NumExperts = (p * k) * g + 0
  <2>1. p * (g * k) = (p * k) * g
    BY <1>6
  <2> QED
    BY <1>6, <1>7, <2>1
<1>9. NumExperts \div g = p * k
  <2>1. p * k \in Nat /\ g \in Nat \ {0} /\ 0 \in 0 .. g - 1
    BY <1>6
  <2>2. ((p * k) * g + 0) \div g = p * k
    BY <2>1, DivisionUnique
  <2> QED
    BY <1>8, <2>2
<1>10. (p * k) * q = p * q * k
  BY <1>6
<1> QED
  BY <1>4, <1>5, <1>9, <1>10 DEF k

-----------------------------------------------------------------------------
(* The sums of the exchange *)

\* The tokens of r for the experts of d, when loc counts them.
Tok(loc, k, r, d) == TotalOf(loc[r], Addressed(k, d))

LEMMA TokNatural ==
  ASSUME NEW loc \in [Replicas -> [Experts -> Nat]], NEW k \in ETps,
         NEW s \in Stages, NEW d \in DevicesOf(s), NEW r \in Replicas
  PROVE  Tok(loc, k, r, d) \in Nat
<1> DEFINE f == loc[r]
           S == Addressed(k, d)
<1>1. IsFiniteSet(S) /\ \A x \in S : f[x] \in Nat
  BY AddressedAreExperts
<1> HIDE DEF f, S
<1>2. TotalOf(f, S) \in Nat
  BY <1>1, TotalOfNaturals
<1> QED
  BY <1>2 DEF Tok, f, S

LEMMA TokensForIs ==
  ASSUME ExchangeType, NEW r \in Replicas, NEW d \in StageDevices
  PROVE  TokensFor(r, d) = Tok(local, eTp, r, d) /\ TokensFor(r, d) \in Nat
<1> DEFINE S == AddressedExperts(d)
           f == local[r]
           F(g) == g = [t \in SUBSET S |->
             IF t = {} THEN 0
             ELSE f[CHOOSE x \in t : TRUE] + g[t \ {CHOOSE x \in t : TRUE}]]
           iter == CHOOSE g : F(g)
<1>1. TokensFor(r, d) = iter[S]
  BY DEF TokensFor, SumOver, MapThenSumSet, MapThenFoldSet
<1>2. Stage \in Stages /\ d \in DevicesOf(Stage) /\ S = Addressed(eTp, d) /\ eTp \in ETps
  BY StageLayout, AddressedIs DEF ExchangeType
<1>3. IsFiniteSet(S) /\ IntValued(f, S)
  BY <1>2, AddressedAreExperts DEF IntValued, ExchangeType
<1> HIDE DEF f, S
<1>4. \A g : SumsUp(g, f, S) <=> F(g)
  BY DEF SumsUp
<1>5. \E g : SumsUp(g, f, S)
  BY <1>3, SumExists
<1> HIDE DEF F
<1>6. SumsUp(iter, f, S)
  <2>1. F(iter)
    BY <1>4, <1>5
  <2> QED
    BY <1>4, <2>1
<1> HIDE DEF iter
<1>7. iter[S] = TotalOf(f, S)
  BY <1>3, <1>6, SummedTotal
<1>8. TokensFor(r, d) = Tok(local, eTp, r, d)
  BY <1>1, <1>2, <1>7 DEF Tok, f, S
<1>9. Tok(local, eTp, r, d) \in Nat
  BY <1>2, TokNatural DEF ExchangeType
<1> QED
  BY <1>8, <1>9

\* The first device of replica r in stage s.
First(s, r) == GroupAt(s, r) * NeTp

\* What goes over a link: the tokens of replica r for the experts of device e,
\* if r is not the replica of e.
Crossing(loc, k, s, link) ==
  [r \in Replicas |-> [e \in DevicesOf(s) |->
     IF RepOf(e) # r /\ LinkBetween(First(s, r), e) = link THEN Tok(loc, k, r, e) ELSE 0]]

\* A link is the same for all the devices of a replica.
LEMMA LinkOfReplica ==
  ASSUME NEW s \in Stages, NEW d \in DevicesOf(s), NEW e \in DevicesOf(s)
  PROVE  /\ LinkBetween(d, e) = LinkBetween(First(s, RepOf(d)), e)
         /\ LinkBetween(d, e) = LinkBetween(First(s, RepOf(d)), First(s, RepOf(e)))
         /\ LinkBetween(d, e) = LinkBetween(e, d)
         /\ First(s, RepOf(d)) \in DevicesOf(s) /\ RepOf(First(s, RepOf(d))) = RepOf(d)
<1>1. ASSUME NEW x \in DevicesOf(s)
      PROVE  /\ Node(First(s, RepOf(x))) = Node(x)
             /\ First(s, RepOf(x)) \in DevicesOf(s) /\ RepOf(First(s, RepOf(x))) = RepOf(x)
  <2> DEFINE y == First(s, RepOf(x))
  <2>1. RepOf(x) \in Replicas /\ NeTp \in Nat \ {0} /\ 0 \in 0 .. NeTp - 1
    BY DeviceOfStage, Degrees
  <2>2. GroupAt(s, RepOf(x)) * NeTp \in Nat
    BY <2>1, Degrees DEF GroupAt, Stages, Replicas
  <2>3. y = GroupAt(s, RepOf(x)) * NeTp + 0
    BY <2>2 DEF First
  <2> HIDE DEF y
  <2>4. y \in DevicesOf(s) /\ RepOf(y) = RepOf(x)
    BY <2>1, <2>3, DeviceOfGroup
  <2>5. Node(y) = Node(x)
    BY <2>4, NodeOfGroup
  <2> QED
    BY <2>4, <2>5 DEF y
<1> QED
  BY <1>1 DEF LinkBetween

LEMMA CrossingNatural ==
  ASSUME NEW loc \in [Replicas -> [Experts -> Nat]], NEW k \in ETps,
         NEW s \in Stages, NEW link
  PROVE  \A r \in Replicas, d \in DevicesOf(s) : Crossing(loc, k, s, link)[r][d] \in Nat
BY TokNatural DEF Crossing

LEMMA FiniteReplicas ==
  IsFiniteSet(Replicas)
<1>1. 0 \in Int /\ DpDegree - 1 \in Int
  BY Degrees
<1> QED
  BY <1>1, FS_Interval DEF Replicas

\* The sum of OwnTokens.
LEMMA OwnSum ==
  ASSUME ExchangeType, NEW d \in StageDevices, NEW link
  PROVE  SumOver({e \in StageDevices \ TpGroup(d) : LinkBetween(d, e) = link},
                 LAMBDA e : TokensFor(ReplicaOf(d), e))
           = TotalOf(Crossing(local, eTp, Stage, link)[RepOf(d)], DevicesOf(Stage))
<1> DEFINE S == {e \in StageDevices \ TpGroup(d) : LinkBetween(d, e) = link}
           r == ReplicaOf(d)
           f == [e \in S |-> Tok(local, eTp, r, e)]
           h == Crossing(local, eTp, Stage, link)[RepOf(d)]
           D == DevicesOf(Stage)
           F(g) == g = [t \in SUBSET S |->
             IF t = {} THEN 0
             ELSE TokensFor(r, CHOOSE x \in t : TRUE) + g[t \ {CHOOSE x \in t : TRUE}]]
           iter == CHOOSE g : F(g)
<1>1. SumOver({e \in StageDevices \ TpGroup(d) : LinkBetween(d, e) = link},
              LAMBDA e : TokensFor(ReplicaOf(d), e)) = iter[S]
  BY DEF SumOver, MapThenSumSet, MapThenFoldSet
<1>2. Stage \in Stages /\ StageDevices = D /\ d \in D /\ r = RepOf(d) /\ r \in Replicas
  BY StageLayout DEF ExchangeType
<1>3. S \in SUBSET D /\ IsFiniteSet(D) /\ IsFiniteSet(S)
  <2>1. S \in SUBSET D /\ IsFiniteSet(D)
    BY <1>2, StageIsFinite
  <2> HIDE DEF S, D
  <2> QED
    BY <2>1, FS_Subset
<1>4. \A e \in S : TokensFor(r, e) = f[e] /\ f[e] \in Int
  <2>1. \A e \in S : e \in StageDevices
    OBVIOUS
  <2>2. \A e \in StageDevices : TokensFor(r, e) = Tok(local, eTp, r, e) /\ TokensFor(r, e) \in Int
    <3> HIDE DEF r
    <3> QED
      BY <1>2, TokensForIs
  <2> HIDE DEF S, r
  <2> QED
    BY <2>1, <2>2
<1>5. \A e \in D : h[e] = IF e \in S THEN f[e] ELSE 0
  <2> SUFFICES ASSUME NEW e \in D PROVE h[e] = IF e \in S THEN f[e] ELSE 0
    OBVIOUS
  <2>1. h[e] = IF RepOf(e) # r /\ LinkBetween(First(Stage, r), e) = link
                 THEN Tok(local, eTp, r, e) ELSE 0
    BY <1>2 DEF Crossing
  <2>2. LinkBetween(d, e) = LinkBetween(First(Stage, r), e)
    BY <1>2, LinkOfReplica
  <2>3. e \in TpGroup(d) <=> RepOf(e) = r
    BY <1>2, StageLayout DEF ExchangeType
  <2>4. e \in S <=> RepOf(e) # r /\ LinkBetween(First(Stage, r), e) = link
    BY <1>2, <2>2, <2>3
  <2>5. e \in S => f[e] = Tok(local, eTp, r, e)
    OBVIOUS
  <2> HIDE DEF S, f, h
  <2> QED
    BY <2>1, <2>4, <2>5
<1> HIDE DEF f, h, S
<1>6. IntValued(f, S)
  BY <1>4 DEF IntValued
<1>7. \A g : SumsUp(g, f, S) <=> F(g)
  <2>1. ASSUME NEW t \in SUBSET S, t # {}
        PROVE  f[CHOOSE x \in t : TRUE] = TokensFor(r, CHOOSE x \in t : TRUE)
    <3>1. (CHOOSE x \in t : TRUE) \in S
      BY <2>1
    <3> HIDE DEF r
    <3> QED
      BY <1>4, <3>1
  <2> HIDE DEF r
  <2> QED
    BY <2>1 DEF SumsUp
<1>8. \E g : SumsUp(g, f, S)
  BY <1>3, SumExists
<1> HIDE DEF F, D
<1>9. SumsUp(iter, f, S)
  <2>1. F(iter)
    BY <1>7, <1>8
  <2> QED
    BY <1>7, <2>1
<1> HIDE DEF iter
<1>10. iter[S] = TotalOf(f, S)
  BY <1>3, <1>6, <1>9, SummedTotal
<1>11. TotalOf(h, D) = TotalOf(f, S)
  BY <1>3, <1>5, <1>6, TotalOfPart
<1> QED
  BY <1>1, <1>10, <1>11 DEF h, D

\* The sum of OthersTokens.
LEMMA OthersSum ==
  ASSUME ExchangeType, NEW d \in StageDevices, NEW link
  PROVE  SumOver({r \in Replicas \ {ReplicaOf(d)} :
                    LinkBetween(d, DeviceAt(r * NeTp)) = link},
                 LAMBDA r : TokensFor(r, d))
           = TotalOf([r \in Replicas |-> Crossing(local, eTp, Stage, link)[r][d]], Replicas)
<1> DEFINE S == {r \in Replicas \ {ReplicaOf(d)} : LinkBetween(d, DeviceAt(r * NeTp)) = link}
           f == [r \in S |-> Tok(local, eTp, r, d)]
           h == [r \in Replicas |-> Crossing(local, eTp, Stage, link)[r][d]]
           F(g) == g = [t \in SUBSET S |->
             IF t = {} THEN 0
             ELSE TokensFor(CHOOSE x \in t : TRUE, d) + g[t \ {CHOOSE x \in t : TRUE}]]
           iter == CHOOSE g : F(g)
<1>1. SumOver({r \in Replicas \ {ReplicaOf(d)} :
                 LinkBetween(d, DeviceAt(r * NeTp)) = link},
              LAMBDA r : TokensFor(r, d)) = iter[S]
  BY DEF SumOver, MapThenSumSet, MapThenFoldSet
<1>2. /\ Stage \in Stages /\ StageDevices = DevicesOf(Stage) /\ d \in DevicesOf(Stage)
      /\ ReplicaOf(d) = RepOf(d)
  BY StageLayout DEF ExchangeType
<1>3. S \in SUBSET Replicas /\ IsFiniteSet(Replicas) /\ IsFiniteSet(S)
  <2>1. S \in SUBSET Replicas
    OBVIOUS
  <2> HIDE DEF S
  <2> QED
    BY <2>1, FiniteReplicas, FS_Subset
<1>4. \A r \in S : TokensFor(r, d) = f[r] /\ f[r] \in Int
  <2>1. \A r \in Replicas : TokensFor(r, d) = Tok(local, eTp, r, d) /\ TokensFor(r, d) \in Int
    BY TokensForIs
  <2>2. \A r \in S : f[r] = Tok(local, eTp, r, d) /\ r \in Replicas
    OBVIOUS
  <2> HIDE DEF S, f
  <2> QED
    BY <2>1, <2>2
<1>5. \A r \in Replicas : h[r] = IF r \in S THEN f[r] ELSE 0
  <2> SUFFICES ASSUME NEW r \in Replicas PROVE h[r] = IF r \in S THEN f[r] ELSE 0
    OBVIOUS
  <2> DEFINE a == DeviceAt(r * NeTp)
  <2>1. h[r] = IF RepOf(d) # r /\ LinkBetween(First(Stage, r), d) = link
                 THEN Tok(local, eTp, r, d) ELSE 0
    BY <1>2 DEF Crossing
  <2>2. a \in DevicesOf(Stage) /\ RepOf(a) = r
    BY <1>2, FirstOfReplica DEF ExchangeType
  <2>3. LinkBetween(d, a) = LinkBetween(First(Stage, r), d)
    <3> HIDE DEF a
    <3>1. LinkBetween(a, d) = LinkBetween(First(Stage, r), d) /\ LinkBetween(a, d) = LinkBetween(d, a)
      BY <1>2, <2>2, LinkOfReplica
    <3> QED
      BY <3>1
  <2>4. r \in S <=> RepOf(d) # r /\ LinkBetween(First(Stage, r), d) = link
    BY <1>2, <2>3
  <2>5. r \in S => f[r] = Tok(local, eTp, r, d)
    OBVIOUS
  <2> HIDE DEF S, f, h
  <2> QED
    BY <2>1, <2>4, <2>5
<1> HIDE DEF f, h, S
<1>6. IntValued(f, S)
  BY <1>4 DEF IntValued
<1>7. \A g : SumsUp(g, f, S) <=> F(g)
  <2>1. ASSUME NEW t \in SUBSET S, t # {}
        PROVE  f[CHOOSE x \in t : TRUE] = TokensFor(CHOOSE x \in t : TRUE, d)
    <3>1. (CHOOSE x \in t : TRUE) \in S
      BY <2>1
    <3> QED
      BY <1>4, <3>1
  <2> QED
    BY <2>1 DEF SumsUp
<1>8. \E g : SumsUp(g, f, S)
  BY <1>3, SumExists
<1> HIDE DEF F
<1>9. SumsUp(iter, f, S)
  <2>1. F(iter)
    BY <1>7, <1>8
  <2> QED
    BY <1>7, <2>1
<1> HIDE DEF iter
<1>10. iter[S] = TotalOf(f, S)
  BY <1>3, <1>6, <1>9, SummedTotal
<1>11. TotalOf(h, Replicas) = TotalOf(f, S)
  BY <1>3, <1>5, <1>6, TotalOfPart
<1> QED
  BY <1>1, <1>10, <1>11 DEF h

\* The bytes of a token that each device of a replica exchanges.
Share == HiddenBytes \div NeTp

\* The bytes of the scatter, device by device and link by link.
Sends(loc, k, s) ==
  [d \in DevicesOf(s) |-> [link \in Links |->
     Share * TotalOf(Crossing(loc, k, s, link)[RepOf(d)], DevicesOf(s))]]

Receives(loc, k, s) ==
  [d \in DevicesOf(s) |-> [link \in Links |->
     Share * TotalOf([r \in Replicas |-> Crossing(loc, k, s, link)[r][d]], Replicas)]]

LEMMA ShareOfBytes ==
  ASSUME HiddenBytes % NeTp = 0
  PROVE  /\ Share \in Nat /\ HiddenBytes = Share * NeTp
         /\ \A x \in Nat : Size(x) \div NeTp = Share * x
<1>1. HiddenBytes \in Nat /\ NeTp \in Nat \ {0}
  BY Degrees
<1>2. Share \in Nat /\ HiddenBytes = Share * NeTp
  <2>1. Share \in Nat /\ HiddenBytes = Share * NeTp + (HiddenBytes % NeTp)
    BY <1>1, Division DEF Share
  <2> QED
    BY <1>1, <2>1
<1>3. ASSUME NEW x \in Nat PROVE Size(x) \div NeTp = Share * x
  <2>1. Size(x) = (Share * x) * NeTp + 0
    BY <1>1, <1>2 DEF Size
  <2>2. Share * x \in Nat /\ 0 \in 0 .. NeTp - 1
    BY <1>1, <1>2
  <2>3. ((Share * x) * NeTp + 0) \div NeTp = Share * x
    BY <1>1, <2>2, DivisionUnique
  <2> QED
    BY <2>1, <2>3
<1> QED
  BY <1>2, <1>3

\* The two sums of the exchange count tokens.
LEMMA CrossingSums ==
  ASSUME NEW loc \in [Replicas -> [Experts -> Nat]], NEW k \in ETps,
         NEW s \in Stages, NEW link
  PROVE  /\ \A r \in Replicas : TotalOf(Crossing(loc, k, s, link)[r], DevicesOf(s)) \in Nat
         /\ \A d \in DevicesOf(s) :
              TotalOf([r \in Replicas |-> Crossing(loc, k, s, link)[r][d]], Replicas) \in Nat
<1> DEFINE c == Crossing(loc, k, s, link)
           D == DevicesOf(s)
<1>1. \A r \in Replicas, d \in D : c[r][d] \in Nat
  BY CrossingNatural
<1>2. IsFiniteSet(D) /\ IsFiniteSet(Replicas)
  BY StageIsFinite, FiniteReplicas
<1> HIDE DEF c, D
<1>3. \A r \in Replicas : TotalOf(c[r], D) \in Nat
  BY <1>1, <1>2, TotalOfNaturals
<1>4. ASSUME NEW d \in D PROVE TotalOf([r \in Replicas |-> c[r][d]], Replicas) \in Nat
  <2> DEFINE f == [r \in Replicas |-> c[r][d]]
  <2>1. \A r \in Replicas : f[r] \in Nat
    BY <1>1
  <2> HIDE DEF f
  <2>2. TotalOf(f, Replicas) \in Nat
    BY <1>2, <2>1, TotalOfNaturals
  <2> QED
    BY <2>2 DEF f
<1> QED
  BY <1>3, <1>4 DEF c, D

LEMMA ScatterSendsAre ==
  ASSUME ExchangeType, HiddenBytes % NeTp = 0, NEW d \in StageDevices
  PROVE  ScatterSends(d) = Sends(local, eTp, Stage)[d]
<1>1. Stage \in Stages /\ d \in DevicesOf(Stage) /\ RepOf(d) \in Replicas
  BY StageLayout DEF ExchangeType
<1> DEFINE x(link) == TotalOf(Crossing(local, eTp, Stage, link)[RepOf(d)], DevicesOf(Stage))
<1>2. ASSUME NEW link \in Links
      PROVE  Size(SumOver({e \in StageDevices \ TpGroup(d) : LinkBetween(d, e) = link},
                          LAMBDA e : TokensFor(ReplicaOf(d), e))) \div NeTp = Share * x(link)
  <2>1. SumOver({e \in StageDevices \ TpGroup(d) : LinkBetween(d, e) = link},
                LAMBDA e : TokensFor(ReplicaOf(d), e)) = x(link)
    BY OwnSum
  <2>2. x(link) \in Nat
    BY <1>1, CrossingSums DEF ExchangeType
  <2> HIDE DEF x
  <2>3. Size(x(link)) \div NeTp = Share * x(link)
    BY <2>2, ShareOfBytes
  <2> QED
    BY <2>1, <2>3
<1> QED
  BY <1>1, <1>2 DEF ScatterSends, OwnTokens, Sends

LEMMA OthersTokensAre ==
  ASSUME ExchangeType, HiddenBytes % NeTp = 0, NEW d \in StageDevices
  PROVE  OthersTokens(d) = Receives(local, eTp, Stage)[d]
<1>1. Stage \in Stages /\ d \in DevicesOf(Stage)
  BY StageLayout DEF ExchangeType
<1> DEFINE x(link) == TotalOf([r \in Replicas |-> Crossing(local, eTp, Stage, link)[r][d]], Replicas)
<1>2. ASSUME NEW link \in Links
      PROVE  Size(SumOver({r \in Replicas \ {ReplicaOf(d)} :
                             LinkBetween(d, DeviceAt(r * NeTp)) = link},
                          LAMBDA r : TokensFor(r, d))) \div NeTp = Share * x(link)
  <2>1. SumOver({r \in Replicas \ {ReplicaOf(d)} :
                   LinkBetween(d, DeviceAt(r * NeTp)) = link},
                LAMBDA r : TokensFor(r, d)) = x(link)
    BY OthersSum
  <2>2. x(link) \in Nat
    BY <1>1, CrossingSums DEF ExchangeType
  <2> HIDE DEF x
  <2>3. Size(x(link)) \div NeTp = Share * x(link)
    BY <2>2, ShareOfBytes
  <2> QED
    BY <2>1, <2>3
<1> QED
  BY <1>1, <1>2 DEF OthersTokens, Receives

-----------------------------------------------------------------------------
(* The gather *)

\* With experts shared like the other layers, the devices of a replica have the
\* same experts, and what goes to one of them goes to each.
LEMMA GroupsCrossTogether ==
  ASSUME NEW loc \in [Replicas -> [Experts -> Nat]], NeTp \in ETps,
         NEW s \in Stages, NEW link, NEW r \in Replicas
  PROVE  \E y \in Nat : TotalOf(Crossing(loc, NeTp, s, link)[r], DevicesOf(s)) = NeTp * y
<1> DEFINE D == DevicesOf(s)
           f == Crossing(loc, NeTp, s, link)[r]
           group == [d \in D |-> RepOf(d)]
           h == [q \in Replicas |-> f[First(s, q)]]
<1>1. IsFiniteSet(D) /\ IsFiniteSet(Replicas) /\ NeTp \in Nat
  BY StageIsFinite, FiniteReplicas, Degrees
<1>2. group \in [D -> Replicas]
  BY DeviceOfStage
<1>3. ASSUME NEW q \in Replicas PROVE Cardinality({d \in D : group[d] = q}) = NeTp
  <2>1. {d \in D : group[d] = q} = {d \in DevicesOf(s) : RepOf(d) = q}
    OBVIOUS
  <2> QED
    BY <2>1, GroupSize
<1>4. ASSUME NEW q \in Replicas PROVE First(s, q) \in D
  <2>1. NeTp \in Nat \ {0} /\ 0 \in 0 .. NeTp - 1 /\ GroupAt(s, q) * NeTp \in Nat
    BY Degrees DEF GroupAt, Stages, Replicas
  <2>2. GroupAt(s, q) * NeTp + 0 \in D
    BY <2>1, DeviceOfGroup
  <2> QED
    BY <2>1, <2>2 DEF First
<1>5. \A q \in Replicas : h[q] \in Nat
  BY <1>4, CrossingNatural
<1>6. ASSUME NEW d \in D PROVE f[d] = h[group[d]]
  <2> DEFINE e == First(s, RepOf(d))
  <2>1. e \in D /\ RepOf(e) = RepOf(d) /\ RepOf(d) \in Replicas /\ First(s, r) \in D
    BY <1>4, LinkOfReplica, DeviceOfStage
  <2>2. LinkBetween(First(s, r), e) = LinkBetween(First(s, r), d)
    <3> HIDE DEF e
    <3>1. LinkBetween(d, First(s, r)) = LinkBetween(e, First(s, r))
      BY <2>1, LinkOfReplica DEF e
    <3> QED
      BY <2>1, <3>1, LinkOfReplica
  <2>3. Addressed(NeTp, e) = Addressed(NeTp, d)
    <3>1. ASSUME NEW x \in D PROVE RankOf(x) \div NeTp = RepOf(x)
      <4>1. RepOf(x) \in Nat /\ NeTp \in Nat \ {0} /\ x % NeTp \in 0 .. NeTp - 1
        BY DeviceOfStage, Degrees DEF Replicas
      <4> QED
        BY <4>1, DivisionUnique DEF RankOf
    <3> HIDE DEF e
    <3>2. RankOf(e) \div NeTp = RankOf(d) \div NeTp
      BY <2>1, <3>1
    <3> QED
      BY <3>2 DEF Addressed
  <2>4. f[e] = f[d]
    <3> HIDE DEF e
    <3> QED
      BY <2>1, <2>2, <2>3 DEF Crossing, Tok
  <2> QED
    BY <2>1, <2>4
<1> HIDE DEF D, f, group, h
<1>7. TotalOf(f, D) = NeTp * TotalOf(h, Replicas)
  <2>1. IntValued(h, Replicas)
    BY <1>5 DEF IntValued
  <2>2. \A q \in Replicas : Cardinality({d \in D : group[d] = q}) = NeTp
    BY <1>3
  <2>3. \A d \in D : f[d] = h[group[d]]
    BY <1>6
  <2>4. InGroupsOf(NeTp, group, D, Replicas) /\ SameInGroup(f, h, group, D)
    BY <1>2, <2>2, <2>3 DEF InGroupsOf, SameInGroup
  <2> QED
    BY <1>1, <2>1, <2>4, TotalOverGroups
<1>8. TotalOf(h, Replicas) \in Nat
  BY <1>1, <1>5, TotalOfNaturals
<1> QED
  BY <1>7, <1>8 DEF D, f

LEMMA CollectsMirrorSends ==
  ASSUME ExchangeType, HiddenBytes % NeTp = 0, eTp = NeTp, NEW d \in StageDevices,
         NEW link \in Links
  PROVE  GatherCollects(d)[link] * eTp = ScatterSends(d)[link] * (IF WideCombine THEN 2 ELSE 1)
<1> DEFINE own == SumOver({e \in StageDevices \ TpGroup(d) : LinkBetween(d, e) = link},
                          LAMBDA e : TokensFor(ReplicaOf(d), e))
           wide == IF WideCombine THEN 2 ELSE 1
<1>1. ETpGroup(d) = TpGroup(d)
  BY DEF ETpGroup, TpGroup
<1>2. ScatterSends(d)[link] = Size(own) \div NeTp
  BY DEF ScatterSends, OwnTokens
<1>3. GatherCollects(d)[link] = (Size(own) \div (eTp * NeTp)) * wide
  BY <1>1 DEF GatherCollects, OwnTokens
<1>4. Stage \in Stages /\ RepOf(d) \in Replicas /\ NeTp \in ETps
  BY StageLayout DEF ExchangeType
<1>5. PICK y \in Nat : own = NeTp * y
  <2>1. own = TotalOf(Crossing(local, eTp, Stage, link)[RepOf(d)], DevicesOf(Stage))
    BY OwnSum
  <2> HIDE DEF own
  <2> QED
    BY <1>4, <2>1, GroupsCrossTogether DEF ExchangeType
<1> HIDE DEF own
<1>6. NeTp \in Nat \ {0} /\ Share \in Nat /\ HiddenBytes = Share * NeTp /\ wide \in Nat
  BY Degrees, ShareOfBytes
<1>7. Size(own) \div NeTp = Share * (NeTp * y)
  <2>1. NeTp * y \in Nat
    BY <1>6
  <2> QED
    BY <1>5, <2>1, ShareOfBytes
<1>8. Size(own) \div (eTp * NeTp) = Share * y
  <2> DEFINE n == NeTp * NeTp
             m == Share * y
  <2>1. n \in Nat \ {0} /\ m \in Nat /\ eTp * NeTp = n /\ 0 \in 0 .. n - 1
    BY <1>6
  <2>2. Size(own) = m * n + 0
    BY <1>5, <1>6 DEF Size
  <2> HIDE DEF n, m
  <2>3. (m * n + 0) \div n = m
    BY <2>1, DivisionUnique
  <2> QED
    BY <2>1, <2>2, <2>3 DEF m
<1> HIDE DEF wide
<1>9. ((Share * y) * wide) * NeTp = (Share * (NeTp * y)) * wide
  BY <1>6
<1> QED
  BY <1>2, <1>3, <1>7, <1>8, <1>9 DEF wide

-----------------------------------------------------------------------------
(* Volumes *)

LEMMA VolumeIs ==
  ASSUME NEW S, IsFiniteSet(S), NEW link, NEW bytes,
         NEW f, IntValued(f, S), \A d \in S : bytes[d][link] = f[d]
  PROVE  Volume(bytes, S, link) = TotalOf(f, S)
<1> DEFINE F(g) == g = [t \in SUBSET S |->
             IF t = {} THEN 0
             ELSE bytes[CHOOSE x \in t : TRUE][link] + g[t \ {CHOOSE x \in t : TRUE}]]
           iter == CHOOSE g : F(g)
<1>1. Volume(bytes, S, link) = iter[S]
  BY DEF Volume, SumOver, MapThenSumSet, MapThenFoldSet
<1>2. \A g : SumsUp(g, f, S) <=> F(g)
  <2>1. ASSUME NEW t \in SUBSET S, t # {}
        PROVE  f[CHOOSE x \in t : TRUE] = bytes[CHOOSE x \in t : TRUE][link]
    <3>1. (CHOOSE x \in t : TRUE) \in S
      BY <2>1
    <3> QED
      BY <3>1
  <2> QED
    BY <2>1 DEF SumsUp
<1>3. \E g : SumsUp(g, f, S)
  BY SumExists
<1> HIDE DEF F
<1>4. SumsUp(iter, f, S)
  <2>1. F(iter)
    BY <1>2, <1>3
  <2> QED
    BY <1>2, <2>1
<1> HIDE DEF iter
<1>5. iter[S] = TotalOf(f, S)
  BY <1>4, SummedTotal
<1> QED
  BY <1>1, <1>5

\* What the devices of a stage send over a link is NeTp times what they receive.
LEMMA SentIsReceived ==
  ASSUME NEW loc \in [Replicas -> [Experts -> Nat]], NEW k \in ETps,
         NEW s \in Stages, NEW link \in Links, HiddenBytes % NeTp = 0,
         NEW out, \A d \in DevicesOf(s) : out[d] = Sends(loc, k, s)[d],
         NEW in, \A d \in DevicesOf(s) : in[d] = Receives(loc, k, s)[d]
  PROVE  Volume(out, DevicesOf(s), link) = NeTp * Volume(in, DevicesOf(s), link)
<1> DEFINE D == DevicesOf(s)
           R == Replicas
           c == Crossing(loc, k, s, link)
           group == [d \in D |-> RepOf(d)]
           rows == [r \in R |-> TotalOf(c[r], D)]
           columns == [d \in D |-> TotalOf([r \in R |-> c[r][d]], R)]
           f == [d \in D |-> rows[RepOf(d)]]
           sent1 == [d \in D |-> Share * f[d]]
           sent2 == [d \in D |-> Share * columns[d]]
<1>1. IsFiniteSet(D) /\ IsFiniteSet(R) /\ NeTp \in Nat /\ Share \in Nat
  BY StageIsFinite, FiniteReplicas, Degrees, ShareOfBytes
<1>2. InGroupsOf(NeTp, group, D, R)
  <2>1. group \in [D -> R]
    BY DeviceOfStage
  <2>2. ASSUME NEW q \in R PROVE Cardinality({d \in D : group[d] = q}) = NeTp
    <3>1. {d \in D : group[d] = q} = {d \in DevicesOf(s) : RepOf(d) = q}
      OBVIOUS
    <3> QED
      BY <3>1, GroupSize
  <2> QED
    BY <2>1, <2>2 DEF InGroupsOf
<1>3. SameInGroup(f, rows, group, D)
  BY DEF SameInGroup
<1>4. IntValued(rows, R) /\ IntValued(columns, D) /\ IntValued(f, D)
  <2>1. (\A r \in R : rows[r] \in Int) /\ (\A d \in D : columns[d] \in Int)
    BY CrossingSums
  <2>2. \A d \in D : RepOf(d) \in R /\ f[d] = rows[RepOf(d)]
    BY DeviceOfStage
  <2> HIDE DEF rows, columns, f
  <2> QED
    BY <2>1, <2>2 DEF IntValued
<1>5. TotalOf(rows, R) = TotalOf(columns, D)
  <2>1. Entries(c, R, D)
    BY CrossingNatural DEF Entries
  <2> HIDE DEF c, D
  <2>2. ByRows(c, R, D) = ByColumns(c, R, D)
    BY <1>1, <2>1, TotalsExchanged
  <2> QED
    BY <2>2 DEF ByRows, ByColumns
<1>6. Multiples(sent1, Share, f, D) /\ Multiples(sent2, Share, columns, D)
  BY DEF Multiples
<1>7. \A d \in D : out[d][link] = sent1[d] /\ in[d][link] = sent2[d]
  <2>1. \A d \in D : /\ RepOf(d) \in R
                     /\ Sends(loc, k, s)[d][link] = Share * TotalOf(c[RepOf(d)], D)
                     /\ Receives(loc, k, s)[d][link] = Share * TotalOf([r \in R |-> c[r][d]], R)
    BY DeviceOfStage DEF Sends, Receives
  <2> HIDE DEF c
  <2> QED
    BY <2>1
<1>8. IntValued(sent1, D) /\ IntValued(sent2, D)
  <2>1. \A d \in D : sent1[d] = Share * f[d] /\ sent2[d] = Share * columns[d]
    OBVIOUS
  <2> HIDE DEF sent1, sent2, f, columns
  <2> QED
    BY <1>1, <1>4, <2>1 DEF IntValued
<1> HIDE DEF f, rows, columns, sent1, sent2, group, c
<1>9. Volume(out, D, link) = TotalOf(sent1, D) /\ Volume(in, D, link) = TotalOf(sent2, D)
  <2> HIDE DEF D
  <2> QED
    BY <1>1, <1>7, <1>8, VolumeIs
<1>10. TotalOf(f, D) = NeTp * TotalOf(rows, R)
  <2> HIDE DEF D
  <2> QED
    BY <1>1, <1>2, <1>3, <1>4, TotalOverGroups
<1>11. TotalOf(sent1, D) = Share * TotalOf(f, D) /\ TotalOf(sent2, D) = Share * TotalOf(columns, D)
  <2> HIDE DEF D
  <2> QED
    BY <1>1, <1>4, <1>6, TotalOfMultiples
<1>12. TotalOf(rows, R) \in Int
  BY <1>1, <1>4, TotalType
<1> DEFINE v == TotalOf(rows, R)
<1> HIDE DEF v
<1>13. Share * (NeTp * v) = NeTp * (Share * v)
  BY <1>1, <1>12 DEF v
<1> QED
  BY <1>5, <1>9, <1>10, <1>11, <1>13 DEF v

\* The devices outside of replica r that have expert e.
Outside(s, r) == {d \in DevicesOf(s) : RepOf(d) # r}
Hosts(k, s, r, e) == {d \in Outside(s, r) : e \in Addressed(k, d)}

\* The tokens that go out to other replicas: one copy for each device that has
\* the expert.
LEMMA CopiesPerHost ==
  ASSUME NEW loc \in [Replicas -> [Experts -> Nat]], NEW k \in ETps,
         NEW s \in Stages, NEW r \in Replicas
  PROVE  /\ TotalOf([d \in Outside(s, r) |-> Tok(loc, k, r, d)], Outside(s, r))
              = TotalOf([e \in Experts |-> loc[r][e] * Cardinality(Hosts(k, s, r, e))], Experts)
         /\ \A e \in Experts : Cardinality(Hosts(k, s, r, e)) \in Nat
<1> DEFINE O == Outside(s, r)
           w == loc[r]
           m == [d \in O |-> [e \in Experts |-> IF e \in Addressed(k, d) THEN w[e] ELSE 0]]
           tok == [d \in O |-> Tok(loc, k, r, d)]
           rows == [d \in O |-> TotalOf(m[d], Experts)]
           columns == [e \in Experts |-> TotalOf([d \in O |-> m[d][e]], O)]
           copies == [e \in Experts |-> w[e] * Cardinality(Hosts(k, s, r, e))]
<1>1. IsFiniteSet(O) /\ IsFiniteSet(Experts)
  <2>1. IsFiniteSet(O)
    BY StageIsFinite, FS_Subset DEF Outside
  <2>2. 0 \in Int /\ NumExperts - 1 \in Int
    BY Degrees
  <2> QED
    BY <2>1, <2>2, FS_Interval DEF Experts
<1>2. \A e \in Experts : w[e] \in Nat
  OBVIOUS
<1>3. \A d \in O : Addressed(k, d) \subseteq Experts /\ d \in DevicesOf(s)
  BY AddressedAreExperts DEF Outside
<1>4. ASSUME NEW d \in O PROVE rows[d] = tok[d]
  <2> DEFINE A == Addressed(k, d)
             h == m[d]
  <2>1. A \in SUBSET Experts /\ IntValued(w, A)
    BY <1>2, <1>3 DEF IntValued
  <2>2. \A e \in Experts : h[e] = IF e \in A THEN w[e] ELSE 0
    OBVIOUS
  <2>3. TotalOf(h, Experts) = TotalOf(w, A)
    <3> HIDE DEF A, h, w
    <3> QED
      BY <1>1, <2>1, <2>2, TotalOfPart
  <2> QED
    BY <2>3 DEF Tok
<1>5. ASSUME NEW e \in Experts
      PROVE  columns[e] = copies[e] /\ Cardinality(Hosts(k, s, r, e)) \in Nat
  <2> DEFINE A == Hosts(k, s, r, e)
             h == [d \in O |-> m[d][e]]
             same == [d \in A |-> w[e]]
  <2>1. A \in SUBSET O
    BY DEF Hosts
  <2>2. w[e] \in Int /\ IntValued(same, A) /\ \A d \in A : same[d] = w[e]
    BY <1>2 DEF IntValued
  <2>3. \A d \in O : h[d] = IF d \in A THEN same[d] ELSE 0
    BY DEF Hosts
  <2> HIDE DEF O, A, h, same
  <2>4. IsFiniteSet(A) /\ Cardinality(A) \in Nat
    BY <1>1, <2>1, FS_Subset, FS_CardinalityType
  <2>5. TotalOf(h, O) = TotalOf(same, A)
    BY <1>1, <2>1, <2>2, <2>3, TotalOfPart
  <2>6. TotalOf(same, A) = w[e] * Cardinality(A)
    <3> DEFINE n == w[e]
    <3> HIDE DEF n
    <3>1. n \in Int /\ \A d \in A : same[d] = n
      BY <2>2 DEF n
    <3>2. TotalOf(same, A) = n * Cardinality(A)
      BY <2>4, <3>1, TotalOfEqual
    <3> QED
      BY <3>2 DEF n
  <2> QED
    BY <2>4, <2>5, <2>6 DEF A, h
<1>6. TotalOf(rows, O) = TotalOf(columns, Experts)
  <2>1. Entries(m, O, Experts)
    BY <1>2 DEF Entries
  <2> HIDE DEF m, O
  <2>2. ByRows(m, O, Experts) = ByColumns(m, O, Experts)
    BY <1>1, <2>1, TotalsExchanged
  <2> QED
    BY <2>2 DEF ByRows, ByColumns
<1>7. IntValued(tok, O) /\ IntValued(copies, Experts)
  <2>1. \A d \in O : tok[d] \in Nat
    BY <1>3, TokNatural
  <2>2. ASSUME NEW e \in Experts PROVE copies[e] \in Int
    <3> DEFINE a == w[e]
               b == Cardinality(Hosts(k, s, r, e))
    <3>1. a \in Nat /\ b \in Nat /\ copies[e] = a * b
      BY <1>2, <1>5
    <3> HIDE DEF a, b, copies
    <3> QED
      BY <3>1
  <2> HIDE DEF tok, copies
  <2> QED
    BY <2>1, <2>2 DEF IntValued
<1>8. TotalOf(rows, O) = TotalOf(tok, O) /\ TotalOf(columns, Experts) = TotalOf(copies, Experts)
  <2> HIDE DEF rows, columns, tok, copies, O
  <2> QED
    BY <1>1, <1>4, <1>5, <1>7, TotalSame
<1>9. TotalOf(tok, O) = TotalOf(copies, Experts)
  <2> HIDE DEF rows, columns, tok, copies, O
  <2> QED
    BY <1>6, <1>8
<1> QED
  BY <1>5, <1>9

\* What the devices of a replica send over both links, together.
LEMMA SentByReplica ==
  ASSUME NEW loc \in [Replicas -> [Experts -> Nat]], NEW k \in ETps,
         NEW s \in Stages, NEW r \in Replicas, HiddenBytes % NeTp = 0,
         NEW out, \A d \in DevicesOf(s) : out[d] = Sends(loc, k, s)[d],
         NEW own, own = {d \in DevicesOf(s) : RepOf(d) = r}
  PROVE  Volume(out, own, "device") + Volume(out, own, "node")
           = HiddenBytes * TotalOf([d \in Outside(s, r) |-> Tok(loc, k, r, d)], Outside(s, r))
<1> DEFINE D == DevicesOf(s)
           O == Outside(s, r)
           tok == [d \in O |-> Tok(loc, k, r, d)]
           c(link) == Crossing(loc, k, s, link)[r]
           all == [d \in D |-> c("device")[d] + c("node")[d]]
           x(link) == TotalOf(c(link), D)
           v(link) == Share * x(link)
           f(link) == [d \in own |-> v(link)]
<1>1. /\ IsFiniteSet(D) /\ IsFiniteSet(own) /\ IsFiniteSet(O) /\ O \in SUBSET D
      /\ Cardinality(own) = NeTp
  BY StageIsFinite, FS_Subset, GroupSize DEF Outside
<1>2. NeTp \in Nat /\ Share \in Nat /\ HiddenBytes = Share * NeTp
  BY ShareOfBytes, Degrees
<1>3. ASSUME NEW link \in Links
      PROVE  /\ x(link) \in Nat /\ v(link) \in Nat
             /\ Volume(out, own, link) = v(link) * NeTp
  <2>1. x(link) \in Nat
    BY CrossingSums
  <2>2. v(link) \in Nat
    <3> HIDE DEF x
    <3> QED
      BY <1>2, <2>1
  <2>3. ASSUME NEW d \in own PROVE out[d][link] = f(link)[d]
    <3>1. d \in DevicesOf(s) /\ RepOf(d) = r /\ out[d] = Sends(loc, k, s)[d]
      OBVIOUS
    <3>2. Sends(loc, k, s)[d][link]
            = Share * TotalOf(Crossing(loc, k, s, link)[RepOf(d)], DevicesOf(s))
      BY <3>1 DEF Sends
    <3> QED
      BY <3>1, <3>2
  <2> DEFINE g == f(link)
             n == v(link)
  <2>4. n \in Int /\ (\A d \in own : g[d] = n) /\ \A d \in own : out[d][link] = g[d]
    <3>1. \A d \in own : g[d] = n
      OBVIOUS
    <3> HIDE DEF n, g
    <3> QED
      BY <2>2, <2>3, <3>1 DEF n, g
  <2> HIDE DEF g, n
  <2>5. IntValued(g, own)
    BY <2>4 DEF IntValued
  <2>6. Volume(out, own, link) = TotalOf(g, own)
    BY <1>1, <2>4, <2>5, VolumeIs
  <2>7. TotalOf(g, own) = n * Cardinality(own)
    BY <1>1, <2>4, TotalOfEqual
  <2> HIDE DEF v, x
  <2> QED
    BY <1>1, <2>1, <2>2, <2>6, <2>7 DEF n
<1>4. TotalOf(all, D) = x("device") + x("node") /\ TotalOf(all, D) = TotalOf(tok, O)
  <2> DEFINE near == c("device")
             far == c("node")
  <2>1. IntValued(near, D) /\ IntValued(far, D)
    BY CrossingNatural DEF IntValued, Links
  <2>2. \A d \in D : all[d] = near[d] + far[d]
    OBVIOUS
  <2>3. TotalOf(all, D) = TotalOf(near, D) + TotalOf(far, D)
    <3> HIDE DEF near, far, all, D
    <3> QED
      BY <1>1, <2>1, <2>2, TotalOfSums
  <2>4. ASSUME NEW d \in D PROVE all[d] = IF d \in O THEN tok[d] ELSE 0
    <3>1. /\ near[d] = IF RepOf(d) # r /\ LinkBetween(First(s, r), d) = "device"
                         THEN Tok(loc, k, r, d) ELSE 0
          /\ far[d] = IF RepOf(d) # r /\ LinkBetween(First(s, r), d) = "node"
                        THEN Tok(loc, k, r, d) ELSE 0
      BY DEF Crossing
    <3>2. Tok(loc, k, r, d) \in Nat /\ LinkBetween(First(s, r), d) \in {"device", "node"}
      BY TokNatural DEF LinkBetween
    <3>3. (d \in O <=> RepOf(d) # r) /\ (d \in O => tok[d] = Tok(loc, k, r, d))
      BY DEF Outside
    <3>4. all[d] = near[d] + far[d]
      OBVIOUS
    <3> HIDE DEF all, near, far, tok, O
    <3> QED
      BY <3>1, <3>2, <3>3, <3>4
  <2>5. IntValued(tok, O)
    BY TokNatural DEF IntValued, Outside
  <2>6. TotalOf(all, D) = TotalOf(tok, O)
    <3> HIDE DEF all, tok, O, D
    <3> QED
      BY <1>1, <2>4, <2>5, TotalOfPart
  <2> QED
    BY <2>3, <2>6
<1> HIDE DEF all, f, c, D, O, tok
<1> DEFINE a == x("device")
           b == x("node")
<1>5. /\ a \in Nat /\ b \in Nat /\ "device" \in Links /\ "node" \in Links
      /\ Volume(out, own, "device") = (Share * a) * NeTp
      /\ Volume(out, own, "node") = (Share * b) * NeTp
  <2>1. "device" \in Links /\ "node" \in Links
    BY DEF Links
  <2> HIDE DEF x
  <2> QED
    BY <1>3, <2>1
<1>6. TotalOf(tok, O) = a + b
  BY <1>4
<1> HIDE DEF x, v, a, b
<1>7. (Share * a) * NeTp + (Share * b) * NeTp = (Share * NeTp) * (a + b)
  BY <1>2, <1>5
<1> QED
  BY <1>2, <1>5, <1>6, <1>7 DEF tok, O

-----------------------------------------------------------------------------
(* The invariant of the exchange *)

\* Once the scatter has run, the bytes are those of the tokens the gate counted.
ExchangeInv ==
  /\ ExchangeType
  /\ batch \in [Replicas -> Batches]
  /\ phase \notin {"gate_update", "moe_scatter"} =>
       /\ \A d \in StageDevices : sent[d] = Sends(local, eTp, Stage)[d]
       /\ \A d \in StageDevices :
            sent[d] # NoBytes => received[d] = Receives(local, eTp, Stage)[d]
  /\ GatherMirrorsScatter

LEMMA InitExchangeInv ==
  ASSUME Init
  PROVE  ExchangeInv
<1>1. NumLayers \in Nat \ {0}
  BY ExchangeAssumption
<1> QED
  BY <1>1 DEF Init, ExchangeInv, ExchangeType, GatherMirrorsScatter

\* The gate counts tokens.
LEMMA GateExchangeInv ==
  ASSUME ExchangeInv, GateUpdate
  PROVE  ExchangeInv'
<1>1. ASSUME NEW r \in Replicas PROVE UpdateExpert(r) \subseteq [Experts -> Nat]
  <2>1. batch[r].tokens \in Nat /\ batch[r].len \in Nat
    BY ExchangeAssumption DEF ExchangeInv, Processed
  <2>2. Counts(batch[r].tokens) \subseteq [Experts -> Nat]
    <3> DEFINE n == batch[r].tokens
    <3>1. n \in Nat
      BY <2>1
    <3> HIDE DEF n
    <3>2. ASSUME NEW pick, NEW e
          PROVE  Cardinality({t \in 1 .. n : e \in pick[t]}) \in Nat
      <4>1. 1 \in Int /\ n \in Int
        BY <3>1
      <4>2. IsFiniteSet(1 .. n)
        BY <4>1, FS_Interval
      <4>3. IsFiniteSet({t \in 1 .. n : e \in pick[t]})
        BY <4>2, FS_Subset
      <4> QED
        BY <4>3, FS_CardinalityType
    <3>3. ASSUME NEW x \in Counts(n) PROVE x \in [Experts -> Nat]
      <4>1. PICK pick \in [1 .. n -> Picks] :
              x = [e \in Experts |-> Cardinality({t \in 1 .. n : e \in pick[t]})]
        BY Zenon DEF Counts
      <4> QED
        BY <3>2, <4>1
    <3> QED
      BY <3>3 DEF n
  <2>3. TracedTokens(batch[r], curLayer[r]) \in [Experts -> Nat]
    <3> DEFINE S == batch[r].len .. batch[r].len + batch[r].tokens - 1
               l == curLayer[r]
    <3>1. IsFiniteSet(S)
      <4>1. batch[r].len \in Int /\ batch[r].len + batch[r].tokens - 1 \in Int
        BY <2>1
      <4> QED
        BY <4>1, FS_Interval
    <3>2. TracedTokens(batch[r], l)
            = [e \in Experts |-> Cardinality({t \in S : e \in ExpertList(t * NumLayer + l)})]
      BY DEF TracedTokens
    <3> HIDE DEF S, l
    <3>3. ASSUME NEW e
          PROVE  Cardinality({t \in S : e \in ExpertList(t * NumLayer + l)}) \in Nat
      <4>1. IsFiniteSet({t \in S : e \in ExpertList(t * NumLayer + l)})
        BY <3>1, FS_Subset
      <4> QED
        BY <4>1, FS_CardinalityType
    <3>4. TracedTokens(batch[r], l) \in [Experts -> Nat]
      BY <3>2, <3>3
    <3> QED
      BY <3>4 DEF l
  <2> QED
    BY <2>2, <2>3 DEF UpdateExpert
<1>2. PICK counts : /\ \A r \in Replicas : counts[r] \in UpdateExpert(r)
                    /\ \E T : counts \in [Replicas -> T]
                    /\ local' = counts
  <2>1. PICK counts \in [Replicas -> UNION Range([r \in Replicas |-> UpdateExpert(r)])] :
          /\ \A r \in Replicas : counts[r] \in [q \in Replicas |-> UpdateExpert(q)][r]
          /\ local' = counts
    BY Zenon DEF GateUpdate
  <2> QED
    BY <2>1
<1>3. local' \in [Replicas -> [Experts -> Nat]]
  BY <1>1, <1>2
<1>4. phase' = "moe_scatter" /\ UNCHANGED <<eTp, batch, layer>>
  BY DEF GateUpdate
<1> QED
  BY <1>3, <1>4 DEF ExchangeInv, ExchangeType, GatherMirrorsScatter

LEMMA ScatterExchangeInv ==
  ASSUME HiddenBytes % NeTp = 0, ExchangeInv, MoEScatter
  PROVE  ExchangeInv'
<1>1. /\ phase' = "experts" /\ UNCHANGED <<eTp, batch, local, layer>>
      /\ sent' = [d \in StageDevices |-> ScatterSends(d)]
      /\ received' = [d \in StageDevices |-> Second(ScatterSends(d), OthersTokens(d))]
  BY DEF MoEScatter
<1>2. StageDevices' = StageDevices /\ Stage' = Stage
  BY <1>1 DEF StageDevices, Stage
<1>3. ExchangeType
  BY DEF ExchangeInv
<1>4. ASSUME NEW d \in StageDevices
      PROVE  /\ sent'[d] = Sends(local, eTp, Stage)[d]
             /\ sent'[d] # NoBytes => received'[d] = Receives(local, eTp, Stage)[d]
  <2>1. ScatterSends(d) = Sends(local, eTp, Stage)[d]
    BY <1>3, ScatterSendsAre
  <2>2. OthersTokens(d) = Receives(local, eTp, Stage)[d]
    BY <1>3, OthersTokensAre
  <2>3. sent'[d] = ScatterSends(d) /\ received'[d] = Second(ScatterSends(d), OthersTokens(d))
    BY <1>1
  <2> QED
    BY <2>1, <2>2, <2>3 DEF Second
<1>5. ExchangeType' /\ (batch \in [Replicas -> Batches])'
  BY <1>1 DEF ExchangeInv, ExchangeType
<1>6. GatherMirrorsScatter'
  BY <1>1 DEF GatherMirrorsScatter
<1> QED
  BY <1>1, <1>2, <1>4, <1>5, <1>6 DEF ExchangeInv

LEMMA GatherExchangeInv ==
  ASSUME HiddenBytes % NeTp = 0, ExchangeInv, MoEGather
  PROVE  ExchangeInv'
<1>1. /\ phase = "moe_gather" /\ phase' \notin {"gate_update", "moe_scatter"}
      /\ UNCHANGED <<eTp, batch, local, layer, sent, received>>
      /\ collected' = [d \in StageDevices |-> GatherCollects(d)]
      /\ returned' = [d \in StageDevices |-> Second(GatherCollects(d), OthersTokens(d))]
  BY DEF MoEGather
<1>2. StageDevices' = StageDevices /\ Stage' = Stage
  BY <1>1 DEF StageDevices, Stage
<1>3. ExchangeType
  BY DEF ExchangeInv
<1>4. ASSUME NEW d \in StageDevices
      PROVE  /\ sent[d] # NoBytes /\ collected'[d] # NoBytes => returned'[d] = received[d]
             /\ eTp = NeTp => \A link \in Links :
                  collected'[d][link] * eTp = sent[d][link] * (IF WideCombine THEN 2 ELSE 1)
  <2>1. /\ sent[d] = Sends(local, eTp, Stage)[d]
        /\ sent[d] # NoBytes => received[d] = Receives(local, eTp, Stage)[d]
    BY <1>1 DEF ExchangeInv
  <2>2. sent[d] = ScatterSends(d) /\ OthersTokens(d) = Receives(local, eTp, Stage)[d]
    BY <1>3, <2>1, ScatterSendsAre, OthersTokensAre
  <2>3. collected'[d] = GatherCollects(d)
        /\ returned'[d] = Second(GatherCollects(d), OthersTokens(d))
    BY <1>1
  <2>4. ASSUME eTp = NeTp, NEW link \in Links
        PROVE  GatherCollects(d)[link] * eTp
                 = ScatterSends(d)[link] * (IF WideCombine THEN 2 ELSE 1)
    BY <1>3, <2>4, CollectsMirrorSends
  <2>5. sent[d] # NoBytes /\ collected'[d] # NoBytes => returned'[d] = received[d]
    BY <2>1, <2>2, <2>3 DEF Second
  <2> QED
    BY <2>2, <2>3, <2>4, <2>5
<1>5. ExchangeType' /\ (batch \in [Replicas -> Batches])'
  BY <1>1 DEF ExchangeInv, ExchangeType
<1>6. GatherMirrorsScatter'
  BY <1>1, <1>2, <1>4 DEF GatherMirrorsScatter
<1>7. (\A d \in StageDevices : /\ sent[d] = Sends(local, eTp, Stage)[d]
                               /\ sent[d] # NoBytes => received[d] = Receives(local, eTp, Stage)[d])'
  BY <1>1, <1>2 DEF ExchangeInv
<1> QED
  BY <1>1, <1>5, <1>6, <1>7 DEF ExchangeInv

\* The next layer is one of the model's.
LEMMA NextExchangeInv ==
  ASSUME ExchangeInv, NextLayer
  PROVE  ExchangeInv'
<1> DEFINE later == {l \in layer + 1 .. NumLayers - 1 : IsMoE(l)}
<1>1. /\ phase' = "gate_update" /\ UNCHANGED <<eTp, local>>
      /\ IF later # {} THEN layer' = Min(later) /\ UNCHANGED batch
                       ELSE layer' = 0 /\ batch' \in [Replicas -> Batches]
  BY DEF NextLayer
<1>2. NumLayers \in Nat \ {0} /\ layer \in 0 .. NumLayers - 1
  BY ExchangeAssumption DEF ExchangeInv, ExchangeType
<1>3. later \subseteq 0 .. NumLayers - 1 /\ later \in SUBSET Nat
  BY <1>2
<1> HIDE DEF later
<1>4. later # {} => Min(later) \in later
  <2> SUFFICES ASSUME later # {} PROVE Min(later) \in later
    OBVIOUS
  <2>1. \E x \in later : \A y \in later : x <= y
    BY <1>3, LeastElement
  <2> QED
    BY <2>1 DEF Min
<1>5. layer' \in 0 .. NumLayers - 1
  <2>1. CASE later # {}
    BY <1>1, <1>3, <1>4, <2>1
  <2>2. CASE later = {}
    BY <1>1, <1>2, <2>2
  <2> QED
    BY <2>1, <2>2
<1>6. batch' \in [Replicas -> Batches]
  BY <1>1 DEF ExchangeInv
<1> QED
  BY <1>1, <1>5, <1>6 DEF ExchangeInv, ExchangeType, GatherMirrorsScatter

\* The other modules exchange nothing.
LEMMA OtherExchangeInv ==
  ASSUME ExchangeInv,
         \/ RunExperts
         \/ Reduce("moe_all_reduce_for_e_tp", eTp, "moe_gather")
         \/ Reduce("moe_all_reduce_for_gather", NeTp, "next_layer")
         \/ UNCHANGED vars
  PROVE  ExchangeInv'
<1>1. /\ UNCHANGED <<eTp, batch, local, layer, sent, received, collected, returned>>
      /\ \/ UNCHANGED phase
         \/ phase = "experts" /\ phase' = "moe_all_reduce_for_e_tp"
         \/ phase = "moe_all_reduce_for_e_tp" /\ phase' = "moe_gather"
         \/ phase = "moe_all_reduce_for_gather" /\ phase' = "next_layer"
  BY DEF RunExperts, Reduce, vars
<1>2. StageDevices' = StageDevices /\ Stage' = Stage
  BY <1>1 DEF StageDevices, Stage
<1> QED
  BY <1>1, <1>2 DEF ExchangeInv, ExchangeType, GatherMirrorsScatter

-----------------------------------------------------------------------------
(* What the exchange promises *)

\* With no device that returned early, every device received what it is due.
LEMMA ConservesFromInv ==
  ASSUME HiddenBytes % NeTp = 0, ExchangeInv
  PROVE  ScatterConserves
<1> SUFFICES ASSUME phase = "experts", \A d \in StageDevices : sent[d] # NoBytes,
                    NEW link \in Links
             PROVE  Volume(sent, StageDevices, link) = NeTp * Volume(received, StageDevices, link)
  BY DEF ScatterConserves
<1>1. Stage \in Stages /\ StageDevices = DevicesOf(Stage)
  BY StageType DEF ExchangeInv, ExchangeType, StageDevices, DevicesOf
<1>2. /\ \A d \in DevicesOf(Stage) : sent[d] = Sends(local, eTp, Stage)[d]
      /\ \A d \in DevicesOf(Stage) : received[d] = Receives(local, eTp, Stage)[d]
  BY <1>1 DEF ExchangeInv
<1>3. local \in [Replicas -> [Experts -> Nat]] /\ eTp \in ETps
  BY DEF ExchangeInv, ExchangeType
<1> QED
  BY <1>1, <1>2, <1>3, SentIsReceived

\* The sum of TokensReachHosts.
LEMMA CopiesSum ==
  ASSUME ExchangeType, NumExperts % (NeTp * DpDegree) = 0, NEW r \in Replicas
  PROVE  LET own == {d \in StageDevices : ReplicaOf(d) = r}
         IN  SumOver(Experts, LAMBDA e : local[r][e] * Cardinality({d \in StageDevices \ own :
                                                                      e \in HostedExperts(d)}))
               = TotalOf([e \in Experts |-> local[r][e] * Cardinality(Hosts(eTp, Stage, r, e))],
                       Experts)
<1> DEFINE own == {d \in StageDevices : ReplicaOf(d) = r}
           X(e) == local[r][e] * Cardinality({d \in StageDevices \ own : e \in HostedExperts(d)})
           f == [e \in Experts |-> local[r][e] * Cardinality(Hosts(eTp, Stage, r, e))]
           F(g) == g = [t \in SUBSET Experts |->
             IF t = {} THEN 0
             ELSE X(CHOOSE x \in t : TRUE) + g[t \ {CHOOSE x \in t : TRUE}]]
           iter == CHOOSE g : F(g)
<1>1. SumOver(Experts, LAMBDA e : local[r][e] * Cardinality({d \in StageDevices \ own :
                                                               e \in HostedExperts(d)}))
        = iter[Experts]
  BY DEF SumOver, MapThenSumSet, MapThenFoldSet
<1>2. Stage \in Stages /\ StageDevices = DevicesOf(Stage)
  BY StageType DEF ExchangeType, StageDevices, DevicesOf
<1>3. IsFiniteSet(Experts)
  <2>1. 0 \in Int /\ NumExperts - 1 \in Int
    BY Degrees
  <2> QED
    BY <2>1, FS_Interval DEF Experts
<1>4. ASSUME NEW e \in Experts PROVE X(e) = f[e] /\ f[e] \in Int
  <2>1. \A d \in StageDevices : ReplicaOf(d) = RepOf(d) /\ HostedExperts(d) = Addressed(eTp, d)
    BY StageLayout, HostedAreAddressed DEF ExchangeType
  <2>2. {d \in StageDevices \ own : e \in HostedExperts(d)} = Hosts(eTp, Stage, r, e)
    BY <1>2, <2>1 DEF Hosts, Outside
  <2> DEFINE a == local[r][e]
             b == Cardinality(Hosts(eTp, Stage, r, e))
  <2>3. a \in Nat /\ b \in Nat
    BY <1>2, CopiesPerHost DEF ExchangeType
  <2>4. X(e) = a * b /\ f[e] = a * b
    BY <2>2
  <2> HIDE DEF a, b, X, f
  <2> QED
    BY <2>3, <2>4
<1> HIDE DEF f, X
<1>5. IntValued(f, Experts)
  BY <1>4 DEF IntValued
<1>6. \A g : SumsUp(g, f, Experts) <=> F(g)
  <2>1. ASSUME NEW t \in SUBSET Experts, t # {}
        PROVE  f[CHOOSE x \in t : TRUE] = X(CHOOSE x \in t : TRUE)
    <3>1. (CHOOSE x \in t : TRUE) \in Experts
      BY <2>1
    <3> QED
      BY <1>4, <3>1
  <2> QED
    BY <2>1 DEF SumsUp
<1>7. \E g : SumsUp(g, f, Experts)
  BY <1>3, SumExists
<1> HIDE DEF F
<1>8. SumsUp(iter, f, Experts)
  <2>1. F(iter)
    BY <1>6, <1>7
  <2> QED
    BY <1>6, <2>1
<1> HIDE DEF iter
<1>9. iter[Experts] = TotalOf(f, Experts)
  BY <1>3, <1>5, <1>8, SummedTotal
<1> QED
  BY <1>1, <1>9 DEF f

\* With the experts split evenly over the devices, the copies that leave a
\* replica are those its tokens need.
LEMMA ReachFromInv ==
  ASSUME HiddenBytes % NeTp = 0, NumExperts % (NeTp * DpDegree) = 0, ExchangeInv
  PROVE  TokensReachHosts
<1> SUFFICES ASSUME phase = "experts", NEW r \in Replicas
             PROVE  LET own == {d \in StageDevices : ReplicaOf(d) = r}
                    IN  Volume(sent, own, "device") + Volume(sent, own, "node")
                          = Size(SumOver(Experts,
                               LAMBDA e : local[r][e] * Cardinality({d \in StageDevices \ own :
                                                                       e \in HostedExperts(d)})))
  BY DEF TokensReachHosts
<1> DEFINE own == {d \in StageDevices : ReplicaOf(d) = r}
           O == Outside(Stage, r)
<1>1. ExchangeType
  BY DEF ExchangeInv
<1>2. Stage \in Stages /\ StageDevices = DevicesOf(Stage)
  BY StageType DEF ExchangeInv, ExchangeType, StageDevices, DevicesOf
<1>3. own = {d \in DevicesOf(Stage) : RepOf(d) = r}
  <2>1. \A d \in StageDevices : ReplicaOf(d) = RepOf(d)
    BY <1>1, StageLayout DEF ExchangeType
  <2> QED
    BY <1>2, <2>1
<1>4. \A d \in DevicesOf(Stage) : sent[d] = Sends(local, eTp, Stage)[d]
  BY <1>2 DEF ExchangeInv
<1>5. SumOver(Experts, LAMBDA e : local[r][e] * Cardinality({d \in StageDevices \ own :
                                                               e \in HostedExperts(d)}))
        = TotalOf([e \in Experts |-> local[r][e] * Cardinality(Hosts(eTp, Stage, r, e))], Experts)
  BY <1>1, CopiesSum
<1> HIDE DEF own
<1>6. Volume(sent, own, "device") + Volume(sent, own, "node")
        = HiddenBytes * TotalOf([d \in O |-> Tok(local, eTp, r, d)], O)
  BY <1>1, <1>2, <1>3, <1>4, SentByReplica DEF ExchangeType
<1>7. TotalOf([d \in O |-> Tok(local, eTp, r, d)], O)
        = TotalOf([e \in Experts |-> local[r][e] * Cardinality(Hosts(eTp, Stage, r, e))], Experts)
  BY <1>1, <1>2, CopiesPerHost DEF ExchangeType
<1> QED
  BY <1>5, <1>6, <1>7 DEF Size, own

\* The bytes are right in every state.
LEMMA ExchangeInvHolds ==
  HiddenBytes % NeTp = 0 /\ Spec => [](HiddenBytes % NeTp = 0 /\ ExchangeInv)
<1> DEFINE Even == HiddenBytes % NeTp = 0
<1>1. Even /\ Init => Even /\ ExchangeInv
  BY InitExchangeInv
<1>2. Even /\ ExchangeInv /\ [Next]_vars => (Even /\ ExchangeInv)'
  BY GateExchangeInv, ScatterExchangeInv, GatherExchangeInv, NextExchangeInv,
     OtherExchangeInv DEF Next
<1> QED
  BY <1>1, <1>2, PTL DEF Spec

\* Over each link, what MoEScatter has the devices of a stage send is NeTp times
\* what it has them receive, unless a device returned early.
THEOREM BytesConserved ==
  HiddenBytes % NeTp = 0 /\ Spec => []ScatterConserves
<1> DEFINE Even == HiddenBytes % NeTp = 0
<1>1. Even /\ ExchangeInv => ScatterConserves
  BY ConservesFromInv
<1> QED
  BY <1>1, ExchangeInvHolds, PTL

\* MoEGather returns what MoEScatter received and, with experts shared like the
\* other layers, collects what it sent.
THEOREM GatherUndoesScatter ==
  HiddenBytes % NeTp = 0 /\ Spec => []GatherMirrorsScatter
<1>1. ExchangeInv => GatherMirrorsScatter
  BY DEF ExchangeInv
<1> QED
  BY <1>1, ExchangeInvHolds, PTL

\* MoEScatter sends one copy of a token for every outside device on which
\* ExpertFFN has created an expert the token picked.
THEOREM HostsGetTheirTokens ==
  HiddenBytes % NeTp = 0 /\ NumExperts % (NeTp * DpDegree) = 0 /\ Spec => []TokensReachHosts
<1> DEFINE Even == HiddenBytes % NeTp = 0
           Shared == NumExperts % (NeTp * DpDegree) = 0
<1>1. Even /\ Shared /\ ExchangeInv => TokensReachHosts
  BY ReachFromInv
<1>2. Shared => Shared'
  OBVIOUS
<1> QED
  BY <1>1, <1>2, ExchangeInvHolds, PTL
=============================================================================
