------------------------- MODULE PipelineDecodeProofs -------------------------
(***************************************************************************)
(* The pipelined decode loop keeps batches and microbatches in step, for   *)
(* every number of sequences, replicas, slots and stages, every workload   *)
(* and all durations of the stages.                                        *)
(***************************************************************************)
EXTENDS PipelineDecode, SchedulerProofs, NaturalFacts

-----------------------------------------------------------------------------
(* The latest ready time *)

\* A set of sequences has a latest time, if no time is taken for 0.
LEMMA LatestTime ==
  ASSUME NEW S \in SUBSET Seqs, NEW time \in [Seqs -> Nat]
  PROVE  \E r \in {time[s] : s \in S} \cup {0} :
           \A q \in {time[s] : s \in S} : q <= r
<1>1. PICK n \in Nat : ExistsSurjection(1 .. n, S)
  BY SubsetCardinality, FS_NatSurjection
<1>2. PICK f \in [1 .. n -> S] : \A s \in S : \E i \in 1 .. n : f[i] = s
  BY <1>1 DEF ExistsSurjection, Surjection
<1> DEFINE g == [i \in Nat |-> IF i \in 1 .. n THEN time[f[i]] ELSE 0]
<1>3. g \in [Nat -> Nat]
  BY <1>2
<1>4. PICK i \in 0 .. n : \A j \in 0 .. n : g[j] <= g[i]
  BY <1>3, LargestValue
<1>5. \A s \in S : time[s] <= g[i]
  <2> SUFFICES ASSUME NEW s \in S PROVE time[s] <= g[i]
    OBVIOUS
  <2>1. PICK j \in 1 .. n : f[j] = s
    BY <1>2
  <2>2. g[j] = time[s] /\ j \in 0 .. n
    BY <2>1
  <2> QED
    BY <1>4, <2>2
<1>6. g[i] \in {time[s] : s \in S} \cup {0}
  BY <1>2
<1> QED
  BY <1>5, <1>6

-----------------------------------------------------------------------------
(* The clocks *)

\* A distance stays a distance when the clock moves on.
LEMMA BehindNat ==
  ASSUME NEW a \in Nat, NEW t \in Nat
  PROVE  Closer(a, t) \in Nat /\ (a <= t => Closer(a, t) = 0)
BY DEF Closer, Most

\* The recursion of Exit is well-founded: its times are natural numbers.
LEMMA ExitTimes ==
  ASSUME NEW d \in Dp, stage_time[d] \in [Stages -> Nat], NEW t \in [Stages -> Nat]
  PROVE  Exit(d, t) \in [Stages -> Nat]
<1> DEFINE Time(f, k) == Most(stage_time[d][k], IF k = 0 THEN 0 ELSE f[k - 1]) + t[k]
           S == {n \in Nat : n \in Stages =>
                   \E f \in [0 .. n -> Nat] : \A k \in 0 .. n : f[k] = Time(f, k)}
<1>1. PpDegree \in Nat \ {0}
  BY PipelineAssumption
<1>2. \A k \in Stages : stage_time[d][k] \in Nat /\ t[k] \in Nat
  OBVIOUS
<1>3. 0 \in S
  <2>1. 0 \in Stages
    BY <1>1 DEF Stages
  <2> DEFINE f == [k \in 0 .. 0 |-> Most(stage_time[d][0], 0) + t[0]]
  <2>2. f \in [0 .. 0 -> Nat] /\ \A k \in 0 .. 0 : f[k] = Time(f, k)
    BY <1>2, <2>1 DEF Most
  <2> QED
    BY <2>2
<1>4. ASSUME NEW n \in Nat, n \in S PROVE n + 1 \in S
  <2> SUFFICES ASSUME n + 1 \in Stages
               PROVE  \E f \in [0 .. n + 1 -> Nat] :
                        \A k \in 0 .. n + 1 : f[k] = Time(f, k)
    OBVIOUS
  <2>1. n \in Stages
    BY <1>1 DEF Stages
  <2>2. PICK f \in [0 .. n -> Nat] : \A k \in 0 .. n : f[k] = Time(f, k)
    BY <1>4, <2>1
  <2> DEFINE last == Most(stage_time[d][n + 1], f[n]) + t[n + 1]
             g == [k \in 0 .. n + 1 |-> IF k = n + 1 THEN last ELSE f[k]]
  <2>3. last \in Nat
    BY <1>2, <2>2 DEF Most
  <2>4. g \in [0 .. n + 1 -> Nat]
    BY <2>2, <2>3
  <2>5. ASSUME NEW k \in 0 .. n + 1 PROVE g[k] = Time(g, k)
    <3>1. CASE k = n + 1
      <4>1. g[k - 1] = f[n] /\ k # 0
        BY <3>1
      <4> QED
        BY <3>1, <4>1
    <3>2. CASE k # n + 1
      <4>1. k \in 0 .. n /\ g[k] = f[k] /\ (k # 0 => g[k - 1] = f[k - 1])
        BY <3>2
      <4> QED
        BY <2>2, <4>1
    <3> QED
      BY <3>1, <3>2
  <2> QED
    BY <2>4, <2>5
<1> HIDE DEF S
<1>5. Nat \subseteq S
  BY <1>3, <1>4, SetInduction
<1>6. PICK f \in [0 .. PpDegree - 1 -> Nat] : \A k \in 0 .. PpDegree - 1 : f[k] = Time(f, k)
  <2>1. PpDegree - 1 \in Nat /\ PpDegree - 1 \in Stages
    BY <1>1 DEF Stages
  <2> QED
    BY <1>5, <2>1 DEF S
<1>7. f = [k \in Stages |-> Time(f, k)]
  BY <1>6 DEF Stages
<1> DEFINE e == CHOOSE g : g = [k \in Stages |-> Time(g, k)]
<1>8. e = [k \in Stages |-> Time(e, k)]
  BY <1>7
<1>9. Exit(d, t) = e
  BY DEF Exit
<1> DEFINE E == {n \in Nat : n \in Stages => e[n] \in Nat}
<1> HIDE DEF e
<1>10. \A k \in Stages : e[k] = Time(e, k)
  BY <1>8
<1>11. 0 \in E
  BY <1>2, <1>10 DEF Most
<1>12. ASSUME NEW n \in Nat, n \in E PROVE n + 1 \in E
  <2> SUFFICES ASSUME n + 1 \in Stages PROVE e[n + 1] \in Nat
    OBVIOUS
  <2>1. n \in Stages
    BY <1>1 DEF Stages
  <2>2. e[n] \in Nat /\ n + 1 # 0 /\ (n + 1) - 1 = n
    BY <1>12, <2>1
  <2>3. e[n + 1] = Time(e, n + 1)
    BY <1>10
  <2>4. e[n + 1] = Most(stage_time[d][n + 1], e[n]) + t[n + 1]
    BY <2>2, <2>3
  <2> QED
    BY <1>2, <2>2, <2>4 DEF Most
<1> HIDE DEF E
<1>13. Nat \subseteq E
  BY <1>11, <1>12, SetInduction
<1>14. \A k \in Stages : e[k] \in Nat
  BY <1>13 DEF E, Stages
<1> QED
  BY <1>8, <1>9, <1>14

\* What a passage yields is a time for each stage.
LEMMA PassageTimes ==
  ASSUME PipelineTypeOK, NEW d \in Dp, NEW e \in Passages(d)
  PROVE  e \in [Stages -> Nat]
<1>1. PICK t \in [Stages -> StageDurations(d)] : e = Exit(d, t)
  BY DEF Passages
<1>2. StageDurations(d) \subseteq Nat
  BY PipelineAssumption DEF StageDurations
<1>3. t \in [Stages -> Nat]
  BY <1>2
<1> QED
  BY <1>1, <1>3, ExitTimes DEF PipelineTypeOK

-----------------------------------------------------------------------------
(* The warm-up and the refill *)

\* Without a microbatch in flight nothing is said of its members.
LEMMA NothingInFlight ==
  ASSUME in_flight = {}
  PROVE  LaunchesTogether
BY DEF LaunchesTogether

\* A warm-up iteration is planned before any sequence has a microbatch.
LEMMA PlanWarmUpInv ==
  ASSUME PipelineInv, warm > 0, SetMetadata,
         UNCHANGED <<laneVars, roundVars, initialized, seedVars>>
  PROVE  PipelineInv'
<1>1. SchedInv'
  BY SetMetadataInv DEF PipelineInv
<1>2. TypeOK'
  BY <1>1 DEF SchedInv
<1>3. /\ pc = "set" /\ pc' = "hit" /\ warm' = warm
      /\ running_queue' = running_queue /\ Running' = Running
      /\ \A s \in Seqs \ Running : seq'[s] = seq[s]
  BY DEF SetMetadata, Running, PipelineInv, SchedInv, TypeOK
<1>4. in_flight = {} /\ in_flight' = {}
  BY <1>3 DEF PipelineInv, InFlightOK, roundVars
<1>5. PipelineTypeOK'
  BY <1>2 DEF PipelineInv, PipelineTypeOK, laneVars, roundVars, seedVars
<1>6. MicrobatchesPartitionBatches' /\ LaunchesTogether' /\ SeededRemainingCounts'
  BY <1>3, <1>4 DEF PipelineInv, MicrobatchesPartitionBatches, LaunchesTogether,
       SeededRemainingCounts, laneVars, seedVars
<1>7. InFlightOK' /\ LanesOfRunning'
  BY <1>3, <1>4 DEF PipelineInv, InFlightOK, LanesOfRunning, laneVars, roundVars, seedVars
<1> QED
  BY <1>1, <1>5, <1>6, <1>7 DEF PipelineInv, laneVars

\* Its update takes sequences away that have no microbatch yet.
LEMMA HitPipelineInv ==
  ASSUME PipelineInv, HitUpdate, UNCHANGED <<laneVars, roundVars, initialized, seedVars>>
  PROVE  PipelineInv'
<1>1. SchedInv' /\ TypeOK'
  BY HitUpdateInv DEF PipelineInv, SchedInv
<1>2. /\ pc = "hit" /\ warm > 0 /\ pc' = "inject0"
      /\ ~ initialized /\ in_flight = {} /\ turnover = {}
  BY DEF HitUpdate, PipelineInv, SchedInv, TypeOK, CountersOK, LanesOfRunning, InFlightOK
<1>3. /\ ~ initialized' /\ in_flight' = {} /\ turnover' = {}
      /\ UNCHANGED <<microbatches, microbatch_id, seeded_remaining>>
  BY <1>2 DEF laneVars, roundVars, seedVars
<1>4. Running' \subseteq Running
  BY DEF HitUpdate, Pop, Running
<1>5. \A s \in Seqs : seq'[s].num_process_token = 0
  <2> SUFFICES ASSUME NEW s \in Seqs PROVE seq'[s].num_process_token = 0
    OBVIOUS
  <2>1. CASE s \in Running
    BY <2>1, AdvancedBounded DEF HitUpdate, PipelineInv, SchedInv, TypeOK
  <2>2. CASE s \notin Running
    BY <2>2 DEF HitUpdate, PipelineInv, LanesOfRunning
  <2> QED
    BY <2>1, <2>2
<1>6. PipelineTypeOK'
  BY <1>1 DEF PipelineInv, PipelineTypeOK, laneVars, roundVars, seedVars
<1>7. MicrobatchesPartitionBatches' /\ LaunchesTogether'
  BY <1>3, NothingInFlight DEF MicrobatchesPartitionBatches, LaunchesTogether
<1>8. SeededRemainingCounts'
  <2>1. turnover \cap Running = {} /\ turnover' \cap Running' = {}
    BY <1>2, <1>3
  <2> QED
    BY <1>3, <2>1 DEF PipelineInv, SeededRemainingCounts
<1>9. InFlightOK'
  BY <1>3, <1>5 DEF InFlightOK
<1>10. LanesOfRunning'
  BY <1>2, <1>3, <1>5 DEF PipelineInv, LanesOfRunning
<1> QED
  BY <1>1, <1>6, <1>7, <1>8, <1>9, <1>10 DEF PipelineInv, laneVars

\* What a refill adds to a batch was in none before.
LEMMA RefillAdds ==
  ASSUME SchedInv, Refill, NEW d \in Dp
  PROVE  /\ running_queue[d] \subseteq running_queue'[d]
         /\ \A s \in running_queue'[d] : s \in running_queue[d] \/ s \notin Running
<1>1. CASE UNCHANGED running_queue
  BY <1>1
<1>2. CASE Admit /\ FreeFromRotate # {}
  <2>1. PICK k \in FreeFromRotate :
          running_queue' = [running_queue EXCEPT
            ![(rotate + k) % DpDegree] = @ \cup {Head(sequence_queue)}]
    BY <1>2 DEF Admit
  <2>2. /\ sequence_queue \in Seq(Seqs) /\ Len(sequence_queue) \in Nat
        /\ Len(sequence_queue) > 0
    BY <1>2 DEF Admit, SchedInv, TypeOK, CountersOK
  <2>3. Head(sequence_queue) \in Waiting
    BY <2>2 DEF Waiting
  <2>4. Head(sequence_queue) \notin Running
    BY <2>3 DEF SchedInv, OnePlace, Running
  <2> QED
    BY <2>1, <2>4 DEF SchedInv, TypeOK
<1> QED
  BY <1>1, <1>2 DEF Refill, FillSequenceQueue, PushSeq, FillRunningQueue, Admit, EndAdmit

\* A refill changes neither the microbatches nor what they hold.
LEMMA RefillPipelineInv ==
  ASSUME PipelineInv, Refill, UNCHANGED <<laneVars, roundVars, initialized, seedVars>>
  PROVE  PipelineInv'
<1>1. SchedInv /\ SchedInv' /\ TypeOK'
  BY RefillInv DEF PipelineInv, SchedInv
<1>2. /\ pc \in {"inject0", "inject", "push", "admit"} /\ pc' \notin {"hit", "run"}
      /\ warm' = warm
  BY DEF Refill, FillSequenceQueue, PushSeq, FillRunningQueue, Admit, EndAdmit
<1>3. in_flight = {} /\ in_flight' = {}
  BY <1>2 DEF PipelineInv, InFlightOK, roundVars
<1>4. UNCHANGED <<microbatches, microbatch_id, initialized, turnover, seeded_remaining>>
  BY DEF laneVars, seedVars
<1>5. Running \subseteq Running'
  BY <1>1, RefillKeepsRunning
<1>6. \A s \in Seqs : seq'[s].num_process_token = 0
  <2> SUFFICES ASSUME NEW s \in Seqs PROVE seq'[s].num_process_token = 0
    OBVIOUS
  <2>1. seq[s].num_process_token = 0
    BY <1>2, <1>3 DEF PipelineInv, InFlightOK
  <2> QED
    BY <1>1, <2>1, RefillCreates, WorkloadUntouched
<1>7. PipelineTypeOK'
  BY <1>1 DEF PipelineInv, PipelineTypeOK, laneVars, roundVars, seedVars
<1>8. MicrobatchesPartitionBatches'
  <2> SUFFICES ASSUME initialized, NEW d \in Dp, NEW m \in Microbatches
               PROVE  microbatches[m][d] = {s \in running_queue'[d] : microbatch_id[s] = m}
    BY <1>4 DEF MicrobatchesPartitionBatches
  <2>1. microbatches[m][d] = {s \in running_queue[d] : microbatch_id[s] = m}
    BY DEF PipelineInv, MicrobatchesPartitionBatches
  <2>2. running_queue'[d] \subseteq Seqs
    BY <1>1 DEF TypeOK
  <2>3. m # -1
    BY PipelineAssumption DEF Microbatches
  <2>4. \A s \in running_queue'[d] : microbatch_id[s] = m => s \in running_queue[d]
    BY <1>1, <2>2, <2>3, RefillAdds DEF PipelineInv, LanesOfRunning
  <2> QED
    BY <1>1, <2>1, <2>4, RefillAdds
<1>9. SeededRemainingCounts'
  <2>1. turnover \cap Running = turnover' \cap Running'
    BY <1>4, <1>5 DEF PipelineInv, LanesOfRunning
  <2> QED
    BY <1>4, <2>1 DEF PipelineInv, SeededRemainingCounts
<1>10. LaunchesTogether' /\ InFlightOK'
  BY <1>3, <1>6 DEF LaunchesTogether, InFlightOK
<1>11. LanesOfRunning'
  BY <1>2, <1>4, <1>5, <1>6 DEF PipelineInv, LanesOfRunning
<1> QED
  BY <1>1, <1>7, <1>8, <1>9, <1>10, <1>11 DEF PipelineInv, laneVars

-----------------------------------------------------------------------------
(* The first microbatches *)

\* Less than all of S come before s in the order of a batch.
LEMMA IndexBelow ==
  ASSUME NEW B \in SUBSET Seqs, NEW order \in Rankings(B), NEW S \in SUBSET B, NEW s \in S
  PROVE  /\ IndexIn(s, S, order) \in Nat
         /\ Cardinality(S) \in Nat
         /\ IndexIn(s, S, order) < Cardinality(S)
<1> DEFINE before == {u \in S : order[u] < order[s]}
<1>1. s \notin before
  <2>1. order[s] \in Int
    BY DEF Rankings
  <2> QED
    BY <2>1
<1>2. /\ Cardinality(S) \in Nat /\ IsFiniteSet(S)
      /\ Cardinality(before) \in Nat /\ before \subseteq S \ {s}
  BY <1>1, SubsetCardinality
<1>3. /\ Cardinality(S \ {s}) = Cardinality(S) - 1 /\ IsFiniteSet(S \ {s})
  BY <1>2, FS_RemoveElement
<1>4. Cardinality(before) <= Cardinality(S \ {s})
  BY <1>2, <1>3, FS_Subset
<1> QED
  BY <1>2, <1>3, <1>4 DEF IndexIn

\* The i-th of n sequences goes to one of the microbatches.
LEMMA MicrobatchOfType ==
  ASSUME NEW n \in Nat, NEW i \in Nat, i < n
  PROVE  MicrobatchOf(i, n) \in Microbatches
<1>1. PpDegree \in Nat \ {0} /\ n \in Nat \ {0} /\ i * PpDegree \in Nat
  BY PipelineAssumption
<1> DEFINE q == (i * PpDegree) \div n
<1>2. q \in Nat
  BY <1>1, DivNat
<1>3. q * n <= i * PpDegree
  BY <1>1
<1> HIDE DEF q
<1>4. i * PpDegree < n * PpDegree
  BY <1>1
<1>5. q * n < PpDegree * n
  BY <1>1, <1>2, <1>3, <1>4
<1>6. q < PpDegree
  BY <1>1, <1>2, <1>5
<1> QED
  BY <1>1, <1>2, <1>6 DEF q, MicrobatchOf, Microbatches

\* A seeded sequence is within its bounds.
LEMMA SeededInBounds ==
  ASSUME NEW s \in Seqs, seq[s] \in Sequence, Bounded(seq[s]),
         seq[s].num_process_token = 0,
         NEW n \in Nat, NEW i \in Nat, i < n
  PROVE  /\ Seeded(s, i, n) \in Sequence
         /\ Bounded(Seeded(s, i, n))
         /\ Seeded(s, i, n).num_process_token = 0
<1> DEFINE m == Most(0, seq[s].total_len - seq[s].input_len - 1)
           c == seq[s].input_len + Generated(seq[s], i, n)
<1>1. /\ seq[s].input_len \in Nat /\ seq[s].total_len \in Nat
      /\ seq[s].input_len <= seq[s].total_len
      /\ m \in Nat /\ m <= seq[s].total_len - seq[s].input_len
  BY DEF Sequence, Bounded, Most
<1> HIDE DEF m
<1>2. Generated(seq[s], i, n) \in Nat /\ Generated(seq[s], i, n) <= m
  <2>1. CASE n = 1
    BY <1>1, <2>1 DEF Generated
  <2>2. CASE n # 1
    BY <1>1, <2>2, ShareBounded DEF Generated, m
  <2> QED
    BY <2>1, <2>2
<1>3. c \in Nat /\ c >= seq[s].input_len /\ c <= seq[s].total_len
  BY <1>1, <1>2
<1>4. Seeded(s, i, n) = [seq[s] EXCEPT !.current_len = c]
  BY DEF Seeded
<1> HIDE DEF c
<1> QED
  BY <1>1, <1>3, <1>4 DEF Sequence, Bounded

\* initializeMicrobatches divides every batch among the microbatches.
LEMMA InitializePipelineInv ==
  ASSUME PipelineInv, InitializeMicrobatches
  PROVE  PipelineInv'
<1>1. /\ SchedInv /\ TypeOK /\ pc = "set" /\ pc' = "set" /\ warm = 0 /\ ~ initialized
      /\ UNCHANGED <<sequence_queue, running_queue, rotate, to_push, to_admit, warm, pc,
                     next_decode_ready_time, exit_time, in_flight, stage_time, next_mb,
                     launched>>
      /\ initialized' = TRUE /\ Running' = Running
  BY DEF InitializeMicrobatches, roundVars, PipelineInv, SchedInv, Running
<1>2. in_flight = {} /\ in_flight' = {}
  BY <1>1 DEF PipelineInv, InFlightOK
<1>3. \A s \in Seqs : seq[s].num_process_token = 0
  BY <1>1, <1>2 DEF PipelineInv, InFlightOK
<1> DEFINE Batch(s) == running_queue[RankOf(s)]
<1>4. PICK order \in [Dp -> UNION {Rankings(running_queue[d]) : d \in Dp}] :
        LET Index(s, S) == IndexIn(s, S, order[RankOf(s)])
            mb == [s \in Seqs |-> IF s \notin Running THEN -1
                                  ELSE MicrobatchOf(Index(s, Batch(s)),
                                                    Cardinality(Batch(s)))]
            Mates(s) == {u \in Batch(s) : mb[u] = mb[s]}
        IN  /\ \A d \in Dp : order[d] \in Rankings(running_queue[d])
            /\ microbatch_id' = mb
            /\ microbatches' = [m \in Microbatches |-> [d \in Dp |->
                                  {s \in running_queue[d] : mb[s] = m}]]
            /\ IF SteadyState
                 THEN /\ seq' = [s \in Seqs |->
                                   IF s \notin Running THEN seq[s]
                                   ELSE Seeded(s, Index(s, Mates(s)),
                                               Cardinality(Mates(s)))]
                      /\ turnover' = Running
                      /\ seeded_remaining' = Cardinality(Running)
                 ELSE UNCHANGED <<seq, turnover, seeded_remaining>>
  BY DEF InitializeMicrobatches
<1> DEFINE mb == microbatch_id'
           Mates(s) == {u \in Batch(s) : mb[u] = mb[s]}
<1>5. \A s \in Running :
        /\ RankOf(s) \in Dp /\ s \in Batch(s) /\ Batch(s) \in SUBSET Seqs
        /\ order[RankOf(s)] \in Rankings(Batch(s))
  BY <1>1, <1>4, RankOfRunning DEF TypeOK
<1>6. microbatch_id' \in [Seqs -> Microbatches \cup {-1}]
  <2>1. \A s \in Running :
          MicrobatchOf(IndexIn(s, Batch(s), order[RankOf(s)]), Cardinality(Batch(s)))
            \in Microbatches
    BY <1>5, IndexBelow, MicrobatchOfType
  <2> QED
    BY <1>4, <2>1
<1>7. /\ \A s \in Seqs \ Running : microbatch_id'[s] = -1
      /\ microbatches' = [m \in Microbatches |-> [d \in Dp |->
                            {s \in running_queue[d] : microbatch_id'[s] = m}]]
  BY <1>4
<1>8. \A s \in Seqs : /\ seq'[s] \in Sequence /\ Bounded(seq'[s])
                     /\ seq'[s].num_process_token = 0
  <2> SUFFICES ASSUME NEW s \in Seqs
               PROVE  /\ seq'[s] \in Sequence /\ Bounded(seq'[s])
                      /\ seq'[s].num_process_token = 0
    OBVIOUS
  <2>1. seq[s] \in Sequence /\ Bounded(seq[s]) /\ seq[s].num_process_token = 0
    BY <1>1, <1>3 DEF SchedInv, TypeOK
  <2>2. CASE SteadyState /\ s \in Running
    <3>1. seq'[s] = Seeded(s, IndexIn(s, Mates(s), order[RankOf(s)]), Cardinality(Mates(s)))
      BY <1>4, <2>2
    <3>2. s \in Mates(s) /\ Mates(s) \in SUBSET Seqs /\ Mates(s) \subseteq Batch(s)
      BY <1>5, <2>2
    <3>3. /\ IndexIn(s, Mates(s), order[RankOf(s)]) \in Nat
          /\ Cardinality(Mates(s)) \in Nat
          /\ IndexIn(s, Mates(s), order[RankOf(s)]) < Cardinality(Mates(s))
      BY <1>5, <2>2, <3>2, IndexBelow
    <3> QED
      BY <2>1, <3>1, <3>3, SeededInBounds
  <2>3. CASE ~ (SteadyState /\ s \in Running)
    <3>1. seq'[s] = seq[s]
      BY <1>4, <2>3
    <3> QED
      BY <2>1, <3>1
  <2> QED
    BY <2>2, <2>3
<1>9. seq' \in [Seqs -> Sequence]
  <2>1. seq' = [s \in Seqs |-> seq'[s]]
    BY <1>1, <1>4 DEF TypeOK
  <2> QED
    BY <1>8, <2>1
<1>10. /\ turnover' \subseteq Running
       /\ seeded_remaining' = Cardinality(turnover' \cap Running)
       /\ seeded_remaining' \in Int
  <2>1. CASE SteadyState
    <3>1. turnover' = Running /\ seeded_remaining' = Cardinality(Running)
      BY <1>4, <2>1
    <3>2. Running \in SUBSET Seqs
      BY <1>1 DEF Running, TypeOK
    <3>3. Running \cap Running = Running
      OBVIOUS
    <3> QED
      BY <3>1, <3>2, <3>3, SubsetCardinality
  <2>2. CASE ~ SteadyState
    BY <1>4, <2>2 DEF PipelineInv, LanesOfRunning, SeededRemainingCounts, PipelineTypeOK
  <2> QED
    BY <2>1, <2>2
<1>11. SchedInv' /\ TypeOK'
  <2>1. TypeOK' /\ CountersOK'
    BY <1>1, <1>9 DEF SchedInv, TypeOK, CountersOK
  <2>2. SlotCapacity' /\ OnePlace'
    BY <1>1, QueuesUnchanged DEF SchedInv
  <2> QED
    BY <1>8, <2>1, <2>2 DEF SchedInv
<1>12. PipelineTypeOK'
  <2>1. microbatches' \in [Microbatches -> [Dp -> SUBSET Seqs]]
    BY <1>1, <1>7 DEF TypeOK
  <2>2. turnover' \subseteq Seqs
    BY <1>1, <1>10 DEF Running, TypeOK
  <2> QED
    BY <1>1, <1>6, <1>10, <1>11, <2>1, <2>2 DEF PipelineInv, PipelineTypeOK
<1>13. MicrobatchesPartitionBatches' /\ SeededRemainingCounts'
  BY <1>1, <1>7, <1>10 DEF MicrobatchesPartitionBatches, SeededRemainingCounts
<1>14. LaunchesTogether' /\ InFlightOK'
  BY <1>2, <1>8 DEF LaunchesTogether, InFlightOK
<1>15. LanesOfRunning'
  BY <1>1, <1>7, <1>8, <1>10 DEF LanesOfRunning
<1> QED
  BY <1>1, <1>11, <1>12, <1>13, <1>14, <1>15 DEF PipelineInv

-----------------------------------------------------------------------------
(* A round *)

\* A round begins and ends with nothing in flight and changes no sequence.
LEMMA RoundEndsInv ==
  ASSUME PipelineInv, StartRound \/ EndRound
  PROVE  PipelineInv'
<1>1. /\ in_flight = {} /\ in_flight' = {} /\ pc' # "hit" /\ pc # "hit" /\ next_mb' = 0
      /\ launched' \in BOOLEAN
      /\ pc' \in {"run", "inject", "set"} /\ (pc' = "run" => warm = 0 /\ initialized)
      /\ UNCHANGED <<sequence_queue, running_queue, seq, rotate, to_push, to_admit, warm,
                     laneVars, stage_time, initialized, seedVars>>
  BY DEF StartRound, EndRound, PipelineInv, InFlightOK, LanesOfRunning
<1>2. Running' = Running
  BY <1>1 DEF Running
<1>3. SchedInv' /\ TypeOK'
  <2>1. TypeOK' /\ CountersOK'
    BY <1>1 DEF PipelineInv, SchedInv, TypeOK, CountersOK
  <2>2. SlotCapacity' /\ OnePlace'
    BY <1>1, QueuesUnchanged DEF PipelineInv, SchedInv
  <2> QED
    BY <1>1, <2>1, <2>2 DEF PipelineInv, SchedInv
<1>4. PipelineTypeOK'
  <2>1. next_mb' \in 0 .. PpDegree
    BY <1>1, PipelineAssumption
  <2> QED
    BY <1>1, <1>3, <2>1 DEF PipelineInv, PipelineTypeOK, laneVars, seedVars
<1>5. MicrobatchesPartitionBatches' /\ SeededRemainingCounts'
  BY <1>1, <1>2 DEF PipelineInv, MicrobatchesPartitionBatches, SeededRemainingCounts,
       laneVars, seedVars
<1>6. LaunchesTogether' /\ InFlightOK'
  BY <1>1 DEF LaunchesTogether, PipelineInv, InFlightOK
<1>7. LanesOfRunning'
  BY <1>1, <1>2 DEF PipelineInv, LanesOfRunning, laneVars, seedVars
<1> QED
  BY <1>1, <1>3, <1>4, <1>5, <1>6, <1>7 DEF PipelineInv, laneVars

\* The first stage is moved on to where the whole microbatch is ready.
LEMMA LatestReadyBound ==
  ASSUME PipelineInv, NEW d \in Dp, next_mb \in Microbatches
  PROVE  /\ LatestReady(d) \in Nat
         /\ \A s \in Unfinished(d) : next_decode_ready_time[s] <= LatestReady(d)
<1>1. Unfinished(d) \in SUBSET Seqs
  BY DEF PipelineInv, PipelineTypeOK, Unfinished
<1>2. next_decode_ready_time \in [Seqs -> Nat]
  BY DEF PipelineInv, PipelineTypeOK
<1>3. \E r \in ReadyTimes(d) \cup {0} : \A q \in ReadyTimes(d) : q <= r
  BY <1>1, <1>2, LatestTime DEF ReadyTimes
<1>4. /\ LatestReady(d) \in ReadyTimes(d) \cup {0}
      /\ \A q \in ReadyTimes(d) : q <= LatestReady(d)
  BY <1>3 DEF LatestReady
<1>5. ReadyTimes(d) \subseteq Nat
  BY <1>1, <1>2 DEF ReadyTimes
<1> QED
  BY <1>4, <1>5 DEF ReadyTimes

\* launchMicrobatch launches the whole microbatch, a token each, and what it
\* launches is ready.
LEMMA LaunchInv ==
  ASSUME PipelineInv, LaunchMicrobatch
  PROVE  PipelineInv'
<1> DEFINE now == UNION {Launched(d) : d \in Dp}
           delay == [d \in Dp |-> LatestReady(d)]
<1>1. /\ pc = "run" /\ pc' = "run" /\ in_flight = {} /\ next_mb < PpDegree
      /\ seq' = [s \in Seqs |-> IF s \in now THEN [seq[s] EXCEPT !.num_process_token = 1]
                                ELSE seq[s]]
      /\ in_flight' = now
      /\ stage_time' = [d \in Dp |-> Later(stage_time[d], delay[d])]
      /\ next_decode_ready_time' = LaterInReplica(next_decode_ready_time, delay)
      /\ exit_time' = LaterInReplica(exit_time, delay)
      /\ launched' = (launched \/ now # {})
      /\ next_mb' = IF now = {} THEN next_mb + 1 ELSE next_mb
      /\ UNCHANGED <<sequence_queue, running_queue, rotate, to_push, to_admit, warm, pc,
                     microbatches, microbatch_id, initialized, seedVars>>
  BY DEF LaunchMicrobatch
<1>2. TypeOK /\ PipelineTypeOK /\ SchedInv /\ next_mb \in Microbatches
  BY <1>1, PipelineAssumption DEF PipelineInv, PipelineTypeOK, Microbatches
<1>3. \A d \in Dp : LatestReady(d) \in Nat /\ Launched(d) = Unfinished(d)
  BY <1>2, LatestReadyBound DEF Launched
<1>4. Running' = Running
  BY <1>1 DEF Running
<1>5. initialized
  BY <1>1 DEF PipelineInv, LanesOfRunning
<1>6. \A d \in Dp : \A s \in Launched(d) :
        /\ s \in Running /\ s \in Seqs /\ s \in running_queue[d]
        /\ microbatch_id[s] = next_mb
        /\ seq[s].current_len < seq[s].total_len
        /\ next_decode_ready_time[s] <= LatestReady(d)
  BY <1>2, <1>5 DEF Launched, Unfinished, PipelineInv, MicrobatchesPartitionBatches, Running,
       TypeOK
<1>7. \A s \in Seqs : seq[s].num_process_token = 0
  BY <1>1 DEF PipelineInv, InFlightOK
<1> HIDE DEF now
<1>8. \A s \in now : /\ s \in Running /\ s \in Seqs
                    /\ microbatch_id[s] = next_mb
                    /\ seq[s].current_len < seq[s].total_len
  BY <1>6 DEF now
<1>9. \A s \in Seqs : seq'[s] \in Sequence /\ Bounded(seq'[s])
  <2> SUFFICES ASSUME NEW s \in Seqs PROVE seq'[s] \in Sequence /\ Bounded(seq'[s])
    OBVIOUS
  <2>1. seq[s] \in Sequence /\ Bounded(seq[s])
    BY <1>2 DEF SchedInv, TypeOK
  <2>2. CASE s \in now
    <3>1. seq'[s] = [seq[s] EXCEPT !.num_process_token = 1]
      BY <1>1, <2>2
    <3> QED
      BY <1>8, <2>1, <2>2, <3>1 DEF Sequence, Bounded
  <2>3. CASE s \notin now
    BY <1>1, <2>1, <2>3
  <2> QED
    BY <2>2, <2>3
<1>10. seq' \in [Seqs -> Sequence]
  BY <1>1, <1>9
<1>11. SchedInv' /\ TypeOK'
  <2>1. TypeOK' /\ CountersOK'
    BY <1>1, <1>2, <1>10 DEF TypeOK, SchedInv, CountersOK
  <2>2. SlotCapacity' /\ OnePlace'
    BY <1>1, <1>2, QueuesUnchanged DEF SchedInv
  <2> QED
    BY <1>9, <2>1, <2>2 DEF SchedInv
<1>12. /\ next_decode_ready_time' \in [Seqs -> Nat]
       /\ \A s \in now : next_decode_ready_time'[s] = 0
  <2>1. next_decode_ready_time \in [Seqs -> Nat]
    BY <1>2 DEF PipelineTypeOK
  <2>2. ASSUME NEW s \in Running
        PROVE  /\ s \in Seqs /\ RankOf(s) \in Dp
               /\ Closer(next_decode_ready_time[s], delay[RankOf(s)]) \in Nat
    BY <1>2, <1>3, <2>1, RankOfRunning, BehindNat DEF Running, TypeOK
  <2>3. ASSUME NEW s \in now
        PROVE  Closer(next_decode_ready_time[s], delay[RankOf(s)]) = 0
    <3>1. PICK d \in Dp : s \in Launched(d)
      BY DEF now
    <3>2. s \in running_queue[d] /\ s \in Running /\ s \in Seqs
      BY <1>6, <3>1
    <3>3. RankOf(s) \in Dp /\ s \in running_queue[RankOf(s)]
      BY <1>2, <3>2, RankOfRunning
    <3>4. RankOf(s) = d
      BY <1>2, <3>2, <3>3 DEF SchedInv, OnePlace
    <3>5. next_decode_ready_time[s] <= delay[RankOf(s)] /\ delay[RankOf(s)] \in Nat
      BY <1>3, <1>6, <3>1, <3>4
    <3>6. next_decode_ready_time[s] \in Nat
      BY <2>1, <3>2
    <3> QED
      BY <3>5, <3>6, BehindNat
  <2> QED
    BY <1>1, <1>8, <2>1, <2>2, <2>3 DEF LaterInReplica
<1>13. exit_time' = next_decode_ready_time'
  BY <1>1 DEF PipelineInv, LaterInReplica
<1>14. PipelineTypeOK'
  <2>1. stage_time' \in [Dp -> [Stages -> Nat]]
    <3> SUFFICES ASSUME NEW d \in Dp PROVE Later(stage_time[d], delay[d]) \in [Stages -> Nat]
      BY <1>1
    <3>1. stage_time[d] \in [Stages -> Nat] /\ delay[d] \in Nat
      BY <1>2, <1>3 DEF PipelineTypeOK
    <3> QED
      BY <3>1, BehindNat DEF Later
  <2>2. next_mb' \in 0 .. PpDegree
    BY <1>1, <1>2, PipelineAssumption DEF Microbatches
  <2>3. now \subseteq Seqs
    BY <1>8
  <2>4. launched' \in BOOLEAN
    BY <1>1, <1>2 DEF PipelineTypeOK
  <2> QED
    BY <1>1, <1>2, <1>11, <1>12, <1>13, <2>1, <2>2, <2>3, <2>4 DEF PipelineTypeOK, seedVars
<1>15. MicrobatchesPartitionBatches' /\ SeededRemainingCounts'
  BY <1>1, <1>4 DEF PipelineInv, MicrobatchesPartitionBatches, SeededRemainingCounts, seedVars
<1>16. LaunchesTogether'
  <2> SUFFICES ASSUME NEW m \in Microbatches, NEW d \in Dp,
                      NEW u \in microbatches[m][d] \cap now,
                      NEW s \in microbatches[m][d], seq'[s].current_len < seq'[s].total_len
               PROVE  s \in now
    BY <1>1 DEF LaunchesTogether
  <2>1. /\ u \in running_queue[d] /\ microbatch_id[u] = m
        /\ s \in running_queue[d] /\ s \in Seqs
    BY <1>2, <1>5 DEF PipelineInv, MicrobatchesPartitionBatches, TypeOK
  <2>2. m = next_mb
    BY <1>8, <2>1
  <2>3. seq[s].current_len < seq[s].total_len
    <3>1. seq[s] \in Sequence
      BY <1>2, <2>1 DEF TypeOK
    <3> QED
      BY <1>1, <2>1, <3>1 DEF Sequence
  <2>4. s \in Unfinished(d)
    BY <1>1, <2>2, <2>3 DEF Unfinished
  <2> QED
    BY <1>3, <2>4 DEF now
<1>17. InFlightOK'
  <2>1. \A s \in now : seq'[s].num_process_token = 1
    <3> SUFFICES ASSUME NEW s \in now PROVE seq'[s].num_process_token = 1
      OBVIOUS
    <3>1. seq[s] \in Sequence /\ s \in Seqs
      BY <1>2, <1>8 DEF TypeOK
    <3> QED
      BY <1>1, <3>1 DEF Sequence
  <2>2. \A s \in Seqs \ now : seq'[s].num_process_token = 0
    BY <1>1, <1>7
  <2>3. now # {} => next_mb' = next_mb
    BY <1>1
  <2> QED
    BY <1>1, <1>4, <1>5, <1>8, <1>12, <2>1, <2>2, <2>3 DEF InFlightOK
<1>18. LanesOfRunning'
  <2>1. \A s \in Seqs \ Running : seq'[s] = seq[s]
    BY <1>1, <1>8
  <2> QED
    BY <1>1, <1>4, <1>5, <2>1 DEF PipelineInv, LanesOfRunning, seedVars
<1> QED
  BY <1>11, <1>13, <1>14, <1>15, <1>16, <1>17, <1>18 DEF PipelineInv

\* What completeMicrobatch does to the fields of a sequence.
LEMMA CompletedBounded ==
  ASSUME NEW r \in Sequence, Bounded(r)
  PROVE  /\ Completed(r) \in Sequence
         /\ Bounded(Completed(r))
         /\ Completed(r).num_process_token = 0
         /\ Completed(r).current_len = r.current_len + r.num_process_token
         /\ Completed(r).total_len = r.total_len
         /\ Done(Completed(r)) <=> Done(Updated(r))
<1> DEFINE len == r.current_len + r.num_process_token
           c == [r EXCEPT !.current_len = len, !.num_process_token = 0]
           rec == r.record \/ FirstToken(c)
           a == [input_len |-> r.input_len, total_len |-> r.total_len,
                 current_len |-> len, num_process_token |-> 0,
                 sum_stage |-> r.sum_stage, record |-> rec, gen_ahead |-> r.gen_ahead]
<1>1. rec \in BOOLEAN
  OBVIOUS
<1>2. c.record = r.record
  BY DEF Sequence
<1>3. Completed(r) = [c EXCEPT !.record = rec]
  BY <1>2 DEF Completed
<1> HIDE DEF rec
<1>4. Completed(r) = a
  BY <1>3 DEF Sequence
<1>5. a \in Sequence /\ Bounded(a)
  BY <1>1 DEF Sequence, Bounded
<1>6. Updated(r).current_len = len /\ Updated(r).total_len = r.total_len
  BY DEF Updated, Sequence
<1> QED
  BY <1>4, <1>5, <1>6 DEF Done

\* completeMicrobatch gives each sequence of the microbatch its token and takes
\* the finished ones out of the batch and of their lane.
LEMMA CompleteInv ==
  ASSUME PipelineInv, CompleteMicrobatch
  PROVE  PipelineInv'
<1> DEFINE gone == {s \in in_flight : Done(Completed(seq[s]))}
<1>1. PICK exit \in [Dp -> UNION {Passages(d) : d \in Dp}] :
        LET first == [d \in Dp |-> exit[d][0]]
            Behind(s, e) == Closer(e, first[RankOf(s)])
        IN  /\ \A d \in Dp : exit[d] \in Passages(d)
            /\ stage_time' = [d \in Dp |-> Later(exit[d], first[d])]
            /\ next_decode_ready_time' =
                 [s \in Seqs |->
                    IF s \in gone THEN 0
                    ELSE IF s \in in_flight THEN Behind(s, Finish(exit[RankOf(s)]))
                    ELSE LaterInReplica(next_decode_ready_time, first)[s]]
            /\ exit_time' =
                 [s \in Seqs |->
                    IF s \in gone THEN 0
                    ELSE IF s \in in_flight THEN Behind(s, exit[RankOf(s)][PpDegree - 1])
                    ELSE LaterInReplica(exit_time, first)[s]]
            /\ seq' = [s \in Seqs |-> IF s \in in_flight THEN Completed(seq[s]) ELSE seq[s]]
            /\ running_queue' = [d \in Dp |-> running_queue[d] \ gone]
            /\ microbatches' = [m \in Microbatches |-> [d \in Dp |->
                                  microbatches[m][d] \ gone]]
            /\ microbatch_id' = [s \in Seqs |-> IF s \in gone THEN -1 ELSE microbatch_id[s]]
            /\ turnover' = turnover \ gone
            /\ seeded_remaining' = seeded_remaining - Cardinality(turnover \cap gone)
  BY DEF CompleteMicrobatch, WithoutFinished, SeededDepartures
<1> DEFINE first == [d \in Dp |-> exit[d][0]]
<1>2. /\ pc = "run" /\ pc' = "run" /\ in_flight # {} /\ in_flight' = {}
      /\ next_mb' = next_mb + 1
      /\ UNCHANGED <<sequence_queue, rotate, to_push, to_admit, warm, launched, initialized>>
  BY DEF CompleteMicrobatch
<1>3. TypeOK /\ PipelineTypeOK /\ SchedInv /\ initialized
      /\ in_flight \subseteq Running /\ in_flight \subseteq Seqs
  BY <1>2 DEF PipelineInv, PipelineTypeOK, InFlightOK
<1>4. next_mb \in Microbatches
  BY <1>2, <1>3, PipelineAssumption DEF PipelineInv, PipelineTypeOK, InFlightOK, Microbatches
<1>5. \A s \in Seqs : seq[s] \in Sequence /\ Bounded(seq[s])
  BY <1>3 DEF SchedInv, TypeOK
<1>6. \A s \in Seqs : /\ seq'[s] \in Sequence /\ Bounded(seq'[s])
                     /\ seq'[s].num_process_token = 0
  <2> SUFFICES ASSUME NEW s \in Seqs
               PROVE  /\ seq'[s] \in Sequence /\ Bounded(seq'[s])
                      /\ seq'[s].num_process_token = 0
    OBVIOUS
  <2>1. CASE s \in in_flight
    BY <1>1, <1>5, <2>1, CompletedBounded
  <2>2. CASE s \notin in_flight
    BY <1>1, <1>2, <1>5, <2>2 DEF PipelineInv, InFlightOK
  <2> QED
    BY <2>1, <2>2
<1>7. seq' \in [Seqs -> Sequence]
  BY <1>1, <1>6
<1>8. running_queue' \in [Dp -> SUBSET Seqs] /\ SlotCapacity' /\ OnePlace'
  <2>1. ASSUME NEW s \in in_flight PROVE s \in gone <=> Done(Updated(seq[s]))
    BY <1>3, <1>5, <2>1, CompletedBounded
  <2> HIDE DEF gone
  <2>2. gone \subseteq in_flight
    BY DEF gone
  <2>3. Pop(in_flight)
    BY <1>1, <2>1, <2>2 DEF Pop
  <2> QED
    BY <1>2, <1>3, <2>3, PopShrinks DEF SchedInv
<1> HIDE DEF gone
<1>9. gone \subseteq in_flight /\ gone \subseteq Running /\ gone \subseteq Seqs
  BY <1>3 DEF gone
<1>10. Running' = Running \ gone
  BY <1>1 DEF Running
<1>11. SchedInv' /\ TypeOK'
  <2>1. TypeOK' /\ CountersOK'
    BY <1>2, <1>3, <1>7, <1>8 DEF TypeOK, SchedInv, CountersOK
  <2> QED
    BY <1>6, <1>8, <2>1 DEF SchedInv
<1>12. \A d \in Dp : exit[d] \in [Stages -> Nat] /\ first[d] \in Nat
                   /\ exit[d][PpDegree - 1] \in Nat
  <2> SUFFICES ASSUME NEW d \in Dp
               PROVE  /\ exit[d] \in [Stages -> Nat] /\ exit[d][0] \in Nat
                      /\ exit[d][PpDegree - 1] \in Nat
    OBVIOUS
  <2>1. exit[d] \in Passages(d)
    BY <1>1
  <2>2. exit[d] \in [Stages -> Nat]
    BY <1>3, <2>1, PassageTimes
  <2>3. 0 \in Stages /\ PpDegree - 1 \in Stages
    BY PipelineAssumption DEF Stages
  <2> QED
    BY <2>2, <2>3
<1>13. exit_time' = next_decode_ready_time'
  BY <1>1 DEF PipelineInv, Finish
<1>14. next_decode_ready_time' \in [Seqs -> Nat]
  <2>1. next_decode_ready_time \in [Seqs -> Nat]
    BY <1>3 DEF PipelineTypeOK
  <2> HIDE DEF first
  <2>2. \A s \in Running : /\ RankOf(s) \in Dp
                         /\ Closer(Finish(exit[RankOf(s)]), first[RankOf(s)]) \in Nat
                         /\ Closer(next_decode_ready_time[s], first[RankOf(s)]) \in Nat
    BY <1>3, <1>12, <2>1, RankOfRunning, BehindNat DEF Finish, Running, TypeOK
  <2>3. \A s \in Seqs : LaterInReplica(next_decode_ready_time, first)[s] \in Nat
    BY <2>1, <2>2 DEF LaterInReplica
  <2>4. \A s \in Seqs : next_decode_ready_time'[s] \in Nat
    BY <1>1, <1>3, <2>2, <2>3 DEF first
  <2> QED
    BY <1>1, <2>4
<1>15. PipelineTypeOK'
  <2>1. stage_time' \in [Dp -> [Stages -> Nat]]
    <3> SUFFICES ASSUME NEW d \in Dp PROVE Later(exit[d], first[d]) \in [Stages -> Nat]
      BY <1>1
    <3>1. exit[d] \in [Stages -> Nat] /\ first[d] \in Nat
      BY <1>12
    <3> QED
      BY <3>1, BehindNat DEF Later
  <2>2. next_mb' \in 0 .. PpDegree
    BY <1>2, <1>4, PipelineAssumption DEF Microbatches
  <2>3. microbatches' \in [Microbatches -> [Dp -> SUBSET Seqs]]
    BY <1>1, <1>3 DEF PipelineTypeOK
  <2>4. microbatch_id' \in [Seqs -> Microbatches \cup {-1}]
    BY <1>1, <1>3 DEF PipelineTypeOK
  <2>5. turnover' \subseteq Seqs /\ seeded_remaining' \in Int
    <3>1. turnover \in SUBSET Seqs /\ seeded_remaining \in Int
      BY <1>3 DEF PipelineTypeOK
    <3>2. turnover \cap gone \in SUBSET Seqs
      BY <1>9
    <3>3. Cardinality(turnover \cap gone) \in Nat
      BY <3>2, SubsetCardinality
    <3>4. /\ turnover' = turnover \ gone
          /\ seeded_remaining' = seeded_remaining - Cardinality(turnover \cap gone)
      BY <1>1
    <3> QED
      BY <3>1, <3>3, <3>4
  <2> QED
    BY <1>2, <1>3, <1>11, <1>13, <1>14, <2>1, <2>2, <2>3, <2>4, <2>5 DEF PipelineTypeOK
<1>16. MicrobatchesPartitionBatches'
  <2> SUFFICES ASSUME NEW d \in Dp, NEW m \in Microbatches
               PROVE  microbatches'[m][d] = {s \in running_queue'[d] : microbatch_id'[s] = m}
    BY DEF MicrobatchesPartitionBatches
  <2>1. microbatches[m][d] = {s \in running_queue[d] : microbatch_id[s] = m}
    BY <1>3 DEF PipelineInv, MicrobatchesPartitionBatches
  <2>2. running_queue[d] \subseteq Seqs
    BY <1>3 DEF TypeOK
  <2>3. \A s \in Seqs \ gone : microbatch_id'[s] = microbatch_id[s]
    BY <1>1
  <2>4. /\ microbatches'[m][d] = microbatches[m][d] \ gone
        /\ running_queue'[d] = running_queue[d] \ gone
    BY <1>1
  <2> QED
    BY <2>1, <2>2, <2>3, <2>4
<1>17. SeededRemainingCounts'
  <2>1. turnover \subseteq Running /\ turnover \in SUBSET Seqs
    BY <1>3 DEF PipelineInv, LanesOfRunning, PipelineTypeOK
  <2>2. turnover \cap Running = turnover /\ turnover' \cap Running' = turnover \ gone
    BY <1>1, <1>10, <2>1
  <2>3. Cardinality(turnover \ gone) = Cardinality(turnover) - Cardinality(turnover \cap gone)
    BY <2>1, SubsetCardinality, FS_Difference
  <2> QED
    BY <1>1, <2>2, <2>3 DEF PipelineInv, SeededRemainingCounts
<1>18. LaunchesTogether' /\ InFlightOK'
  BY <1>2, <1>6 DEF LaunchesTogether, InFlightOK
<1>19. LanesOfRunning'
  <2>1. ASSUME NEW s \in Seqs \ Running' PROVE microbatch_id'[s] = -1
    <3>1. CASE s \in gone
      BY <1>1, <3>1
    <3>2. CASE s \notin gone
      BY <1>1, <1>10, <3>2 DEF PipelineInv, LanesOfRunning
    <3> QED
      BY <3>1, <3>2
  <2>2. turnover' \subseteq Running'
    BY <1>1, <1>10 DEF PipelineInv, LanesOfRunning
  <2> QED
    BY <1>2, <1>3, <1>6, <2>1, <2>2 DEF PipelineInv, LanesOfRunning
<1> QED
  BY <1>11, <1>13, <1>15, <1>16, <1>17, <1>18, <1>19 DEF PipelineInv

\* A sequence a refill has brought joins the lane of one microbatch.
LEMMA RefillMicrobatchInv ==
  ASSUME PipelineInv, RefillMicrobatch
  PROVE  PipelineInv'
<1>1. PICK s \in Unassigned : \E m \in LeastFull(RankOf(s)) :
        /\ microbatch_id' = [microbatch_id EXCEPT ![s] = m]
        /\ microbatches' = [microbatches EXCEPT ![m][RankOf(s)] = @ \cup {s}]
        /\ next_decode_ready_time' = [next_decode_ready_time EXCEPT ![s] = 0]
        /\ exit_time' = [exit_time EXCEPT ![s] = 0]
  BY DEF RefillMicrobatch
<1>0. PICK m \in LeastFull(RankOf(s)) :
        /\ microbatch_id' = [microbatch_id EXCEPT ![s] = m]
        /\ microbatches' = [microbatches EXCEPT ![m][RankOf(s)] = @ \cup {s}]
        /\ next_decode_ready_time' = [next_decode_ready_time EXCEPT ![s] = 0]
        /\ exit_time' = [exit_time EXCEPT ![s] = 0]
  BY <1>1
<1>2. /\ pc = "set" /\ initialized
      /\ UNCHANGED <<schedVars, roundVars, initialized, seedVars>>
  BY DEF RefillMicrobatch
<1>3. /\ TypeOK /\ PipelineTypeOK /\ SchedInv /\ Running' = Running
      /\ in_flight = {} /\ in_flight' = {}
      /\ m \in Microbatches /\ s \in Running /\ s \in Seqs /\ microbatch_id[s] < 0
  BY <1>2 DEF PipelineInv, PipelineTypeOK, InFlightOK, schedVars, roundVars, LeastFull,
       Unassigned, Running, TypeOK
<1>4. RankOf(s) \in Dp /\ s \in running_queue[RankOf(s)]
  BY <1>3, RankOfRunning
<1>5. SchedInv' /\ TypeOK'
  <2>1. TypeOK' /\ CountersOK'
    BY <1>2, <1>3 DEF TypeOK, SchedInv, CountersOK, schedVars
  <2>2. SlotCapacity' /\ OnePlace'
    BY <1>2, <1>3, QueuesUnchanged DEF SchedInv, schedVars
  <2> QED
    BY <1>2, <1>3, <2>1, <2>2 DEF SchedInv, schedVars
<1>6. PipelineTypeOK'
  <2>1. microbatches' \in [Microbatches -> [Dp -> SUBSET Seqs]]
    BY <1>0, <1>3, <1>4 DEF PipelineTypeOK
  <2>2. /\ microbatch_id' \in [Seqs -> Microbatches \cup {-1}]
        /\ next_decode_ready_time' \in [Seqs -> Nat] /\ exit_time' \in [Seqs -> Nat]
    BY <1>0, <1>3 DEF PipelineTypeOK
  <2> QED
    BY <1>2, <1>3, <1>5, <2>1, <2>2 DEF PipelineTypeOK, roundVars, seedVars
<1>7. MicrobatchesPartitionBatches'
  <2> SUFFICES ASSUME NEW d \in Dp, NEW k \in Microbatches
               PROVE  microbatches'[k][d] = {u \in running_queue[d] : microbatch_id'[u] = k}
    BY <1>2 DEF MicrobatchesPartitionBatches, schedVars
  <2>1. microbatches[k][d] = {u \in running_queue[d] : microbatch_id[u] = k}
    BY <1>2 DEF PipelineInv, MicrobatchesPartitionBatches
  <2>2. \A u \in Seqs : microbatch_id'[u] = IF u = s THEN m ELSE microbatch_id[u]
    BY <1>0, <1>3 DEF PipelineTypeOK
  <2>3. microbatch_id[s] # k
    BY <1>3, PipelineAssumption DEF Microbatches
  <2>4. running_queue[d] \subseteq Seqs
    BY <1>3 DEF TypeOK
  <2>5. s \in running_queue[d] => d = RankOf(s)
    BY <1>3, <1>4 DEF SchedInv, OnePlace
  <2>6. microbatches'[k][d] = IF k = m /\ d = RankOf(s) THEN microbatches[k][d] \cup {s}
                                                       ELSE microbatches[k][d]
    BY <1>0, <1>3, <1>4 DEF PipelineTypeOK
  <2>7. CASE k = m /\ d = RankOf(s)
    BY <1>4, <2>1, <2>2, <2>3, <2>4, <2>6, <2>7
  <2>8. CASE ~ (k = m /\ d = RankOf(s))
    BY <2>1, <2>2, <2>3, <2>4, <2>5, <2>6, <2>8
  <2> QED
    BY <2>7, <2>8
<1>8. SeededRemainingCounts' /\ LaunchesTogether'
  BY <1>2, <1>3 DEF PipelineInv, SeededRemainingCounts, LaunchesTogether, seedVars
<1>9. InFlightOK'
  BY <1>2, <1>3 DEF PipelineInv, InFlightOK, schedVars
<1>10. LanesOfRunning'
  BY <1>0, <1>2, <1>3 DEF PipelineInv, PipelineTypeOK, LanesOfRunning, schedVars, seedVars
<1>11. exit_time' = next_decode_ready_time'
  BY <1>0 DEF PipelineInv
<1> QED
  BY <1>5, <1>6, <1>7, <1>8, <1>9, <1>10, <1>11 DEF PipelineInv

-----------------------------------------------------------------------------
(* Theorems *)

\* The invariant holds at the start ...
LEMMA InitPipelineInv == Init => PipelineInv
<1> SUFFICES ASSUME Init PROVE PipelineInv
  OBVIOUS
<1>1. SchedInv /\ TypeOK /\ pc = "inject0"
  BY SchedInitInv DEF Init, SchedInit, SchedInv
<1>2. Running = {}
  BY DEF Init, SchedInit, Running
<1>3. \A s \in Seqs : seq[s].num_process_token = 0
  BY DEF Init, SchedInit, Unborn, NewSequence
<1>4. PipelineTypeOK
  <2>1. stage_time \in [Dp -> [Stages -> Nat]] /\ next_mb \in 0 .. PpDegree
    BY PipelineAssumption DEF Init
  <2>2. microbatches \in [Microbatches -> [Dp -> SUBSET Seqs]]
    BY DEF Init
  <2>3. /\ microbatch_id \in [Seqs -> Microbatches \cup {-1}]
        /\ next_decode_ready_time \in [Seqs -> Nat] /\ exit_time \in [Seqs -> Nat]
    BY DEF Init
  <2>4. launched \in BOOLEAN /\ initialized \in BOOLEAN
    BY Zenon DEF Init
  <2>5. in_flight \subseteq Seqs /\ turnover \subseteq Seqs /\ seeded_remaining \in Int
    BY DEF Init
  <2> QED
    BY <1>1, <2>1, <2>2, <2>3, <2>4, <2>5 DEF PipelineTypeOK
<1>5. SeededRemainingCounts
  BY <1>2, FS_EmptySet DEF Init, SeededRemainingCounts
<1>6. MicrobatchesPartitionBatches /\ LaunchesTogether
  BY DEF Init, MicrobatchesPartitionBatches, LaunchesTogether
<1>7. InFlightOK /\ LanesOfRunning
  BY <1>1, <1>2, <1>3 DEF Init, InFlightOK, LanesOfRunning
<1> QED
  BY <1>1, <1>4, <1>5, <1>6, <1>7 DEF Init, PipelineInv

\* ... and every step keeps it.
LEMMA NextPipelineInv ==
  ASSUME PipelineInv, [Next]_vars
  PROVE  PipelineInv'
<1>1. CASE UNCHANGED vars
  <2>1. /\ UNCHANGED <<sequence_queue, running_queue, seq, rotate, to_push, to_admit, warm, pc>>
        /\ UNCHANGED <<microbatches, microbatch_id, next_decode_ready_time, exit_time>>
        /\ UNCHANGED <<in_flight, stage_time, next_mb, launched>>
        /\ UNCHANGED <<initialized, turnover, seeded_remaining>>
        /\ Running' = Running
    BY <1>1 DEF vars, schedVars, laneVars, roundVars, seedVars, Running
  <2>2. TypeOK' /\ CountersOK'
    BY <2>1 DEF PipelineInv, SchedInv, TypeOK, CountersOK
  <2>3. SlotCapacity' /\ OnePlace'
    BY <2>1, QueuesUnchanged DEF PipelineInv, SchedInv
  <2>4. SchedInv'
    BY <2>1, <2>2, <2>3 DEF PipelineInv, SchedInv
  <2>5. PipelineTypeOK'
    BY <2>1, <2>2 DEF PipelineInv, PipelineTypeOK
  <2>6. MicrobatchesPartitionBatches' /\ LaunchesTogether' /\ SeededRemainingCounts'
    BY <2>1 DEF PipelineInv, MicrobatchesPartitionBatches, LaunchesTogether,
         SeededRemainingCounts
  <2>7. InFlightOK' /\ LanesOfRunning'
    BY <2>1 DEF PipelineInv, InFlightOK, LanesOfRunning
  <2> QED
    BY <2>1, <2>4, <2>5, <2>6, <2>7 DEF PipelineInv
<1>2. CASE WarmUpAndRefill
  BY <1>2, PlanWarmUpInv, HitPipelineInv, RefillPipelineInv DEF WarmUpAndRefill
<1> QED
  BY <1>1, <1>2, InitializePipelineInv, RoundEndsInv, LaunchInv, CompleteInv,
     RefillMicrobatchInv DEF Next

\* Throughout the pipelined loop no replica is overfull and no sequence in two
\* places, batches and microbatches hold the same sequences, a microbatch
\* launches as one, and the counter of seeded sequences is right.
THEOREM PipelineInvariant == Spec => []PipelineInv
BY InitPipelineInv, NextPipelineInv, PTL DEF Spec

\* A token enters the first stage only after the sequence's token before has
\* left the last one, although stages work on several microbatches at a time.
THEOREM PipelineAutoregressive == Spec => []AutoregressiveOrder
<1>1. PipelineInv => AutoregressiveOrder
  BY DEF PipelineInv, InFlightOK, AutoregressiveOrder
<1> QED
  BY <1>1, PipelineInvariant, PTL

\* No step goes past the end of a sequence.
THEOREM PipelineLandsOnBoundaries == Spec => []LandsOnBoundaries
<1>1. PipelineInv => LandsOnBoundaries
  BY InvLands DEF PipelineInv
<1> QED
  BY <1>1, PipelineInvariant, PTL

\* Once the microbatches exist, a sequence advances with its own one only, by
\* one token.
THEOREM PipelineOneToken == Spec => OneTokenPerPass
<1> DEFINE OneToken ==
      \A s \in Running \cap Running' :
        initialized /\ seq'[s].current_len # seq[s].current_len
          => /\ s \in in_flight /\ microbatch_id[s] = next_mb
             /\ seq'[s].current_len = seq[s].current_len + 1
<1>1. ASSUME PipelineInv, [Next]_vars PROVE OneToken
  <2> SUFFICES ASSUME NEW s \in Running, initialized,
                      seq'[s].current_len # seq[s].current_len
               PROVE  /\ s \in in_flight /\ microbatch_id[s] = next_mb
                      /\ seq'[s].current_len = seq[s].current_len + 1
    OBVIOUS
  <2>1. s \in Seqs /\ seq[s] \in Sequence /\ Bounded(seq[s]) /\ warm = 0 /\ pc # "hit"
    BY <1>1 DEF PipelineInv, SchedInv, TypeOK, CountersOK, Running, LanesOfRunning
  <2>2. CASE CompleteMicrobatch
    <3>1. seq'[s] = IF s \in in_flight THEN Completed(seq[s]) ELSE seq[s]
      BY <2>1, <2>2 DEF CompleteMicrobatch
    <3>2. s \in in_flight
      BY <3>1
    <3>3. seq[s].num_process_token = 1 /\ microbatch_id[s] = next_mb
      BY <1>1, <3>2 DEF PipelineInv, InFlightOK
    <3> QED
      BY <2>1, <3>1, <3>2, <3>3, CompletedBounded
  <2>3. CASE LaunchMicrobatch
    <3>1. \/ seq'[s] = seq[s]
          \/ seq'[s] = [seq[s] EXCEPT !.num_process_token = 1]
      BY <2>1, <2>3 DEF LaunchMicrobatch
    <3>2. seq'[s].current_len = seq[s].current_len
      BY <2>1, <3>1 DEF Sequence
    <3> QED
      BY <3>2
  <2>4. CASE Refill
    BY <1>1, <2>4, RefillKeepsRunning DEF PipelineInv
  <2>5. CASE HitUpdate \/ (warm > 0 /\ SetMetadata) \/ InitializeMicrobatches
    BY <2>1, <2>5 DEF HitUpdate, InitializeMicrobatches
  <2>6. CASE StartRound \/ EndRound \/ RefillMicrobatch \/ UNCHANGED vars
    BY <2>6 DEF StartRound, EndRound, RefillMicrobatch, vars, schedVars
  <2> QED
    BY <1>1, <2>2, <2>3, <2>4, <2>5, <2>6 DEF Next, WarmUpAndRefill
<1>2. PipelineInv /\ [Next]_vars => [OneToken]_vars
  BY <1>1
<1>3. [][OneToken]_vars => OneTokenPerPass
  BY DEF OneTokenPerPass
<1> QED
  BY <1>2, <1>3, PipelineInvariant, PTL DEF Spec

-----------------------------------------------------------------------------
(* The balance of the lanes *)

\* Lanes of at least c sequences each hold c * PpDegree together.
LEMMA LanesTogether ==
  ASSUME NEW S \in SUBSET Seqs, NEW id \in [Seqs -> Int], NEW c \in Nat,
         \A m \in Microbatches : Cardinality({s \in S : id[s] = m}) >= c
  PROVE  Cardinality({s \in S : id[s] \in Microbatches}) >= c * PpDegree
<1> DEFINE First(n) == {s \in S : id[s] \in 0 .. n - 1}
           T == {n \in Nat : n <= PpDegree => Cardinality(First(n)) >= c * n}
<1>1. PpDegree \in Nat \ {0}
  BY PipelineAssumption
<1>2. 0 \in T
  <2>1. First(0) = {}
    OBVIOUS
  <2> QED
    BY <2>1, FS_EmptySet
<1>3. ASSUME NEW n \in Nat, n \in T PROVE n + 1 \in T
  <2> SUFFICES ASSUME n + 1 <= PpDegree PROVE Cardinality(First(n + 1)) >= c * (n + 1)
    OBVIOUS
  <2> DEFINE lane == {s \in S : id[s] = n}
  <2>1. First(n) \in SUBSET Seqs /\ lane \in SUBSET Seqs
    OBVIOUS
  <2>2. First(n + 1) = First(n) \cup lane /\ First(n) \cap lane = {}
    OBVIOUS
  <2>3. Cardinality(First(n)) >= c * n
    BY <1>1, <1>3
  <2>4. Cardinality(lane) >= c
    BY <1>1 DEF Microbatches
  <2>5. Cardinality(First(n + 1)) = Cardinality(First(n)) + Cardinality(lane)
    <3> HIDE DEF First, lane, T
    <3>1. /\ IsFiniteSet(First(n)) /\ IsFiniteSet(lane)
          /\ Cardinality(First(n)) \in Nat /\ Cardinality(lane) \in Nat
      BY <2>1, SubsetCardinality
    <3>2. Cardinality(First(n) \cup lane) =
            Cardinality(First(n)) + Cardinality(lane) - Cardinality(First(n) \cap lane)
      BY <3>1, FS_Union
    <3>3. Cardinality(First(n) \cap lane) = 0
      BY <2>2, FS_EmptySet
    <3>4. Cardinality(First(n + 1)) = Cardinality(First(n) \cup lane)
      BY <2>2
    <3> QED
      BY <3>1, <3>2, <3>3, <3>4
  <2>6. Cardinality(First(n)) \in Nat /\ Cardinality(lane) \in Nat
    BY <2>1, SubsetCardinality
  <2>7. c * n \in Nat /\ c * (n + 1) = c * n + c
    OBVIOUS
  <2> HIDE DEF First, lane
  <2> QED
    BY <2>3, <2>4, <2>5, <2>6, <2>7
<1> HIDE DEF T
<1>4. Nat \subseteq T
  BY <1>2, <1>3, SetInduction
<1>5. Cardinality(First(PpDegree)) >= c * PpDegree
  BY <1>1, <1>4 DEF T
<1>6. First(PpDegree) = {s \in S : id[s] \in Microbatches}
  BY DEF Microbatches
<1> QED
  BY <1>5, <1>6

\* No two sequences have as many others before them.
LEMMA IndexDiffers ==
  ASSUME NEW B \in SUBSET Seqs, NEW order \in Rankings(B), NEW u \in B, NEW v \in B,
         order[u] < order[v]
  PROVE  IndexIn(u, B, order) < IndexIn(v, B, order)
<1> DEFINE Before(s) == {w \in B : order[w] < order[s]}
<1>1. \A w \in B : order[w] \in Int
  BY DEF Rankings
<1>2. Before(u) \subseteq Before(v)
  BY <1>1
<1>3. u \in Before(v) /\ u \notin Before(u)
  BY <1>1
<1>4. Before(u) \in SUBSET Seqs /\ Before(v) \in SUBSET Seqs
  OBVIOUS
<1> HIDE DEF Before
<1>5. /\ IsFiniteSet(Before(u)) /\ Cardinality(Before(u)) \in Nat
      /\ IsFiniteSet(Before(v)) /\ Cardinality(Before(v)) \in Nat
  BY <1>4, SubsetCardinality
<1>6. /\ Cardinality(Before(u)) <= Cardinality(Before(v))
      /\ Cardinality(Before(u)) = Cardinality(Before(v)) => Before(u) = Before(v)
  BY <1>2, <1>5, FS_Subset
<1>7. Cardinality(Before(u)) < Cardinality(Before(v))
  BY <1>3, <1>5, <1>6
<1> QED
  BY <1>7 DEF IndexIn, Before

\* Indices that go to one microbatch lie close together.
LEMMA LaneWidth ==
  ASSUME NEW n \in Nat, NEW i \in Nat, NEW j \in Nat, i < n, j < n, j <= i,
         MicrobatchOf(i, n) = MicrobatchOf(j, n)
  PROVE  (i - j) * PpDegree < n
<1>1. PpDegree \in Nat \ {0} /\ n \in Nat \ {0}
  BY PipelineAssumption
<1> DEFINE a == i * PpDegree
           b == j * PpDegree
<1>2. a \in Nat /\ b \in Nat /\ (i - j) * PpDegree = a - b
  BY <1>1
<1>3. a \div n = b \div n
  BY DEF MicrobatchOf
<1> HIDE DEF a, b
<1>4. \A x \in Nat : x = n * (x \div n) + (x % n) /\ x % n \in 0 .. n - 1
  BY <1>1
<1>5. a - b = (a % n) - (b % n) /\ a % n \in 0 .. n - 1 /\ b % n \in 0 .. n - 1
  BY <1>1, <1>2, <1>3, <1>4
<1>6. a - b < n
  BY <1>1, <1>5
<1> QED
  BY <1>2, <1>6

\* A lane of a divided batch holds at most its share, rounded up.
LEMMA LaneShare ==
  ASSUME NEW B \in SUBSET Seqs, NEW order \in Rankings(B), NEW L \in SUBSET B,
         \A u, v \in L : MicrobatchOf(IndexIn(u, B, order), Cardinality(B))
                           = MicrobatchOf(IndexIn(v, B, order), Cardinality(B))
  PROVE  Cardinality(L) * PpDegree < Cardinality(B) + PpDegree
<1> DEFINE n == Cardinality(B)
           index(u) == IndexIn(u, B, order)
<1>1. PpDegree \in Nat \ {0} /\ n \in Nat /\ IsFiniteSet(L) /\ Cardinality(L) \in Nat
  BY PipelineAssumption, SubsetCardinality
<1>2. \A u \in L : index(u) \in Nat /\ index(u) < n
  BY IndexBelow
<1>3. \A u, v \in L : u # v => index(u) # index(v)
  <2> SUFFICES ASSUME NEW u \in L, NEW v \in L, u # v PROVE index(u) # index(v)
    OBVIOUS
  <2>1. order[u] \in Int /\ order[v] \in Int /\ order[u] # order[v]
    BY DEF Rankings
  <2>2. order[u] < order[v] \/ order[v] < order[u]
    BY <2>1
  <2> QED
    BY <1>2, <2>2, IndexDiffers
<1>4. \A u, v \in L : MicrobatchOf(index(u), n) = MicrobatchOf(index(v), n)
  OBVIOUS
<1> HIDE DEF n, index
<1>5. CASE L = {}
  <2>1. Cardinality(L) = 0
    BY <1>5, FS_EmptySet
  <2> QED
    BY <1>1, <2>1 DEF n
<1>6. CASE L # {}
  <2> DEFINE I == {index(u) : u \in L}
  <2>1. I \in SUBSET Nat /\ I # {}
    BY <1>2, <1>6
  <2>2. PICK x \in I : \A y \in I : x <= y
    BY <2>1, LeastElement
  <2>3. PICK a \in L : \A u \in L : index(a) <= index(u)
    BY <2>2
  <2> DEFINE q == (n - 1) \div PpDegree
             f == [u \in L |-> index(u) - index(a)]
  <2>4. n - 1 \in Nat /\ q \in Nat /\ q * PpDegree <= n - 1 /\ n - 1 < (q + 1) * PpDegree
    <3>1. n - 1 \in Nat
      BY <1>1, <1>2, <2>3
    <3>2. q \in Nat
      BY <1>1, <3>1, DivNat
    <3> QED
      BY <1>1, <3>1, <3>2
  <2>5. ASSUME NEW u \in L PROVE index(u) - index(a) \in 0 .. q
    <3>1. (index(u) - index(a)) * PpDegree < n
      BY <1>1, <1>2, <1>4, <2>3, LaneWidth
    <3>2. index(u) - index(a) \in Nat
      BY <1>2, <2>3
    <3> DEFINE w == index(u) - index(a)
    <3>3. w \in Nat /\ w * PpDegree < (q + 1) * PpDegree
      BY <1>1, <2>4, <3>1, <3>2
    <3> HIDE DEF w, q
    <3>4. w < q + 1
      BY <1>1, <2>4, <3>3
    <3>5. w \in 0 .. q
      BY <2>4, <3>3, <3>4
    <3> QED
      BY <3>5 DEF w
  <2>6. f \in [L -> 0 .. q]
    BY <2>5
  <2>7. \A u, v \in L : u # v => f[u] # f[v]
    BY <1>2, <1>3, <2>3
  <2> HIDE DEF f, q
  <2>8. IsFiniteSet(0 .. q) /\ Cardinality(0 .. q) = q + 1
    BY <2>4, FS_Interval
  <2>9. Cardinality(L) <= q + 1
    <3> DEFINE K == 0 .. q
    <3>1. f \in [L -> K] /\ IsFiniteSet(K)
      BY <2>6, <2>8
    <3> HIDE DEF K
    <3>2. ASSUME Cardinality(K) < Cardinality(L)
          PROVE  \E u, v \in L : u # v /\ f[u] = f[v]
      <4>1. IsFiniteSet(L)
        BY <1>1
      <4> QED
        BY <3>1, <3>2, <4>1, FS_PigeonHole
    <3>3. ~ (Cardinality(K) < Cardinality(L))
      BY <2>7, <3>2
    <3>4. ~ (q + 1 < Cardinality(L))
      BY <2>8, <3>3 DEF K
    <3> QED
      BY <1>1, <2>4, <3>4
  <2>10. Cardinality(L) * PpDegree <= (q + 1) * PpDegree
    BY <1>1, <2>4, <2>9
  <2>11. (q + 1) * PpDegree = q * PpDegree + PpDegree
    BY <1>1, <2>4
  <2> QED
    BY <1>1, <2>4, <2>10, <2>11 DEF n
<1> QED
  BY <1>5, <1>6

\* The first division of the batches is balanced ...
LEMMA InitializeBalance ==
  ASSUME PipelineInv, InitializeMicrobatches
  PROVE  LaneBalance'
<1>1. TypeOK /\ SlotCapacity /\ OnePlace
  BY DEF PipelineInv, SchedInv
<1>2. PICK order \in [Dp -> UNION {Rankings(running_queue[d]) : d \in Dp}] :
        LET Batch(s) == running_queue[RankOf(s)]
            mb == [s \in Seqs |-> IF s \notin Running THEN -1
                                  ELSE MicrobatchOf(IndexIn(s, Batch(s), order[RankOf(s)]),
                                                    Cardinality(Batch(s)))]
        IN  /\ \A d \in Dp : order[d] \in Rankings(running_queue[d])
            /\ microbatches' = [m \in Microbatches |-> [d \in Dp |->
                                  {s \in running_queue[d] : mb[s] = m}]]
  BY DEF InitializeMicrobatches
<1> SUFFICES ASSUME NEW d \in Dp, NEW m \in Microbatches
             PROVE  Cardinality(microbatches'[m][d]) * PpDegree < BatchSizePerDp + PpDegree
  BY DEF LaneBalance
<1> DEFINE B == running_queue[d]
           L == microbatches'[m][d]
<1>3. B \in SUBSET Seqs /\ order[d] \in Rankings(B)
  BY <1>1, <1>2 DEF TypeOK
<1>4. \A s \in B : s \in Running /\ s \in Seqs /\ RankOf(s) = d
  <2> SUFFICES ASSUME NEW s \in B PROVE s \in Running /\ s \in Seqs /\ RankOf(s) = d
    OBVIOUS
  <2>1. s \in Running /\ s \in Seqs
    BY <1>3 DEF Running
  <2>2. RankOf(s) \in Dp /\ s \in running_queue[RankOf(s)]
    BY <1>1, <2>1, RankOfRunning
  <2> QED
    BY <1>1, <2>1, <2>2 DEF OnePlace
<1>5. L = {s \in B : MicrobatchOf(IndexIn(s, B, order[d]), Cardinality(B)) = m}
  BY <1>2, <1>4
<1> HIDE DEF L
<1>6. Cardinality(L) * PpDegree < Cardinality(B) + PpDegree
  BY <1>3, <1>5, LaneShare
<1>7. Cardinality(B) <= BatchSizePerDp /\ Cardinality(B) \in Nat /\ BatchSizePerDp \in Nat
  BY <1>1, <1>3, SubsetCardinality, SlotsNat DEF SlotCapacity
<1>8. Cardinality(L) * PpDegree < BatchSizePerDp + PpDegree
  <2> HIDE DEF B
  <2>1. Cardinality(L) \in Nat /\ PpDegree \in Nat /\ Cardinality(L) * PpDegree \in Nat
    BY <1>3, <1>5, SubsetCardinality, PipelineAssumption
  <2> QED
    BY <1>6, <1>7, <2>1
<1> QED
  BY <1>8 DEF L

\* ... a refill adds to a least full lane while a slot is free ...
LEMMA RefillBalance ==
  ASSUME PipelineInv, LaneBalance, RefillMicrobatch
  PROVE  LaneBalance'
<1>1. PICK s \in Unassigned : \E m \in LeastFull(RankOf(s)) :
        microbatches' = [microbatches EXCEPT ![m][RankOf(s)] = @ \cup {s}]
  BY DEF RefillMicrobatch
<1>2. PICK m \in LeastFull(RankOf(s)) :
        microbatches' = [microbatches EXCEPT ![m][RankOf(s)] = @ \cup {s}]
  BY <1>1
<1> DEFINE r == RankOf(s)
           B == running_queue[r]
           c == Cardinality(microbatches[m][r])
<1>3. /\ TypeOK /\ PipelineTypeOK /\ SlotCapacity /\ initialized
      /\ m \in Microbatches /\ s \in Running /\ s \in Seqs /\ microbatch_id[s] < 0
  BY DEF RefillMicrobatch, PipelineInv, SchedInv, LeastFull, Unassigned, Running, TypeOK
<1>4. r \in Dp /\ s \in B /\ B \in SUBSET Seqs
  BY <1>3, RankOfRunning DEF TypeOK
<1>5. \A o \in Microbatches : microbatches[o][r] = {u \in B : microbatch_id[u] = o}
  BY <1>3, <1>4 DEF PipelineInv, MicrobatchesPartitionBatches
<1>6. /\ c \in Nat /\ IsFiniteSet(microbatches[m][r])
      /\ \A o \in Microbatches : Cardinality(microbatches[o][r]) >= c
  <2>1. \A o \in Microbatches : microbatches[o][r] \in SUBSET Seqs
    BY <1>4, <1>5
  <2>2. \A o \in Microbatches : Cardinality(microbatches[m][r]) <= Cardinality(microbatches[o][r])
    BY DEF LeastFull
  <2> QED
    BY <1>3, <2>1, <2>2, SubsetCardinality
<1>7. \A o \in Microbatches : Cardinality({u \in B : microbatch_id[u] = o}) >= c
  BY <1>5, <1>6
<1>8. PpDegree \in Nat \ {0} /\ BatchSizePerDp \in Nat
  BY PipelineAssumption, SlotsNat
<1>9. c * PpDegree < BatchSizePerDp
  <2> DEFINE A == {u \in B : microbatch_id[u] \in Microbatches}
  <2>1. microbatch_id \in [Seqs -> Int]
    BY <1>3 DEF PipelineTypeOK, Microbatches
  <2> HIDE DEF c, r, B
  <2>2. Cardinality(A) >= c * PpDegree
    BY <1>4, <1>6, <1>7, <2>1, LanesTogether
  <2>3. A \subseteq B \ {s}
    BY <1>3, <1>8 DEF Microbatches
  <2>4. /\ IsFiniteSet(B) /\ Cardinality(B) \in Nat /\ Cardinality(A) \in Nat
        /\ Cardinality(B) <= BatchSizePerDp
    BY <1>3, <1>4, SubsetCardinality DEF SlotCapacity, B
  <2>5. IsFiniteSet(B \ {s}) /\ Cardinality(B \ {s}) = Cardinality(B) - 1
    BY <1>4, <2>4, FS_RemoveElement
  <2>6. Cardinality(A) <= Cardinality(B \ {s})
    BY <2>3, <2>5, FS_Subset
  <2> HIDE DEF A
  <2>7. c * PpDegree \in Nat
    BY <1>6, <1>8
  <2> QED
    BY <1>8, <2>2, <2>4, <2>5, <2>6, <2>7
<1> SUFFICES ASSUME NEW d \in Dp, NEW k \in Microbatches
             PROVE  Cardinality(microbatches'[k][d]) * PpDegree < BatchSizePerDp + PpDegree
  BY DEF LaneBalance
<1>10. CASE k = m /\ d = r
  <2>1. microbatches'[k][d] = microbatches[m][r] \cup {s}
    BY <1>2, <1>3, <1>4, <1>10 DEF PipelineTypeOK
  <2>2. /\ Cardinality(microbatches'[k][d]) \in Nat
        /\ Cardinality(microbatches'[k][d]) <= c + 1
    <3> DEFINE X == microbatches[m][r]
    <3>1. IsFiniteSet(X) /\ Cardinality(X) \in Nat
      BY <1>6
    <3>2. microbatches'[k][d] = X \cup {s}
      BY <2>1
    <3> HIDE DEF X
    <3>3. Cardinality(X \cup {s}) = IF s \in X THEN Cardinality(X) ELSE Cardinality(X) + 1
      BY <3>1, FS_AddElement
    <3>4. Cardinality(X \cup {s}) \in Nat /\ Cardinality(X \cup {s}) <= Cardinality(X) + 1
      BY <3>1, <3>3
    <3> QED
      BY <3>2, <3>4 DEF X
  <2> HIDE DEF c
  <2> DEFINE e == Cardinality(microbatches'[k][d])
  <2>3. e * PpDegree <= (c + 1) * PpDegree
    BY <1>6, <1>8, <2>2
  <2>4. (c + 1) * PpDegree = c * PpDegree + PpDegree /\ c * PpDegree \in Nat
    BY <1>6, <1>8
  <2>5. e * PpDegree \in Nat
    BY <1>8, <2>2
  <2> QED
    BY <1>8, <1>9, <2>3, <2>4, <2>5
<1>11. CASE ~ (k = m /\ d = r)
  <2>1. microbatches'[k][d] = microbatches[k][d]
    BY <1>2, <1>3, <1>4, <1>11 DEF PipelineTypeOK
  <2> QED
    BY <2>1 DEF LaneBalance
<1> QED
  BY <1>10, <1>11

\* ... and completing a microbatch only takes members away.
LEMMA CompleteBalance ==
  ASSUME PipelineInv, LaneBalance, CompleteMicrobatch
  PROVE  LaneBalance'
<1>1. PICK gone \in SUBSET Seqs : microbatches' = [m \in Microbatches |-> [d \in Dp |->
                                                    microbatches[m][d] \ gone]]
  <2>1. PICK exit \in [Dp -> UNION {Passages(d) : d \in Dp}] :
          LET gone == {s \in in_flight : Done(Completed(seq[s]))}
          IN  microbatches' = [m \in Microbatches |-> [d \in Dp |-> microbatches[m][d] \ gone]]
    BY DEF CompleteMicrobatch
  <2>2. {s \in in_flight : Done(Completed(seq[s]))} \in SUBSET Seqs
    BY DEF PipelineInv, PipelineTypeOK
  <2> QED
    BY <2>1, <2>2
<1> SUFFICES ASSUME NEW d \in Dp, NEW m \in Microbatches
             PROVE  Cardinality(microbatches'[m][d]) * PpDegree < BatchSizePerDp + PpDegree
  BY DEF LaneBalance
<1> DEFINE L == microbatches[m][d]
           K == microbatches'[m][d]
<1>2. K \subseteq L /\ L \in SUBSET Seqs
  BY <1>1 DEF PipelineInv, PipelineTypeOK
<1> HIDE DEF L, K
<1>3. /\ Cardinality(K) \in Nat /\ Cardinality(L) \in Nat /\ IsFiniteSet(L)
      /\ Cardinality(K) <= Cardinality(L)
  BY <1>2, SubsetCardinality, FS_Subset
<1>4. PpDegree \in Nat /\ BatchSizePerDp \in Nat
  BY PipelineAssumption, SlotsNat
<1>5. Cardinality(L) * PpDegree < BatchSizePerDp + PpDegree
  BY DEF LaneBalance, L
<1>6. /\ Cardinality(K) * PpDegree <= Cardinality(L) * PpDegree
      /\ Cardinality(K) * PpDegree \in Nat /\ Cardinality(L) * PpDegree \in Nat
  BY <1>3, <1>4
<1>7. Cardinality(K) * PpDegree < BatchSizePerDp + PpDegree
  BY <1>4, <1>5, <1>6
<1> QED
  BY <1>7 DEF K

\* "Each microbatch holds ~batch_size_per_dp/pp_dg sequences PER DP replica":
\* however the sequences of a replica finish and are replaced, no lane ever
\* holds more than its share rounded up.
THEOREM PipelineLaneBalance == Spec => []LaneBalance
<1>1. Init => LaneBalance
  <2> SUFFICES ASSUME Init, NEW d \in Dp, NEW m \in Microbatches
               PROVE  Cardinality(microbatches[m][d]) * PpDegree < BatchSizePerDp + PpDegree
    BY DEF LaneBalance
  <2>1. Cardinality(microbatches[m][d]) = 0
    BY FS_EmptySet DEF Init
  <2> QED
    BY <2>1, PipelineAssumption, SlotsNat
<1>2. PipelineInv /\ LaneBalance /\ [Next]_vars => LaneBalance'
  <2> SUFFICES ASSUME PipelineInv, LaneBalance, [Next]_vars PROVE LaneBalance'
    OBVIOUS
  <2>1. CASE UNCHANGED microbatches
    BY <2>1 DEF LaneBalance
  <2>2. CASE WarmUpAndRefill \/ StartRound \/ EndRound \/ LaunchMicrobatch \/ UNCHANGED vars
    BY <2>1, <2>2 DEF WarmUpAndRefill, StartRound, EndRound, LaunchMicrobatch, vars, laneVars
  <2> QED
    BY <2>2, InitializeBalance, RefillBalance, CompleteBalance DEF Next
<1> QED
  BY <1>1, <1>2, PipelineInvariant, PTL DEF Spec

-----------------------------------------------------------------------------
(* Continuous batching *)

\* No sequence that holds or awaits a slot is finished, and the sequences of a
\* steady state, which knows no warm-up, have not moved before they are seeded.
LaneWork ==
  /\ LiveUnfinished
  /\ SteadyState => warm = 0 /\ (~ initialized => AtPromptEnd)

\* What completeMicrobatch does, seen from the batches: it updates and pops what
\* is in flight.
LEMMA CompleteMoves ==
  ASSUME PipelineInv, CompleteMicrobatch
  PROVE  /\ Pop(in_flight)
         /\ in_flight \subseteq Running
         /\ \A s \in in_flight :
              /\ seq'[s].current_len = seq[s].current_len + seq[s].num_process_token
              /\ seq'[s].total_len = seq[s].total_len
         /\ \A s \in Seqs \ in_flight : seq'[s] = seq[s]
<1> DEFINE gone == {s \in in_flight : Done(Completed(seq[s]))}
<1>1. PICK exit \in [Dp -> UNION {Passages(d) : d \in Dp}] :
        /\ seq' = [s \in Seqs |-> IF s \in in_flight THEN Completed(seq[s]) ELSE seq[s]]
        /\ running_queue' = [d \in Dp |-> running_queue[d] \ gone]
  BY DEF CompleteMicrobatch, WithoutFinished
<1>2. in_flight \subseteq Running /\ in_flight \subseteq Seqs
  BY DEF PipelineInv, PipelineTypeOK, InFlightOK
<1>3. \A s \in in_flight : seq[s] \in Sequence /\ Bounded(seq[s])
  BY <1>2 DEF PipelineInv, SchedInv, TypeOK
<1>4. \A s \in in_flight : s \in gone <=> Done(Updated(seq[s]))
  BY <1>3, CompletedBounded
<1>5. Pop(in_flight)
  <2> HIDE DEF gone
  <2>1. gone \subseteq in_flight
    BY DEF gone
  <2> QED
    BY <1>1, <1>4, <2>1 DEF Pop
<1>6. \A s \in in_flight : seq'[s] = Completed(seq[s])
  BY <1>1, <1>2
<1> QED
  BY <1>1, <1>2, <1>3, <1>5, <1>6, CompletedBounded

\* A sequence is past its seeding with less than its output.
LEMMA SeededLeft ==
  ASSUME PipelineInv, LaneWork, SteadyState, InitializeMicrobatches, NEW s \in Running
  PROVE  /\ seq'[s].total_len = seq[s].total_len
         /\ seq'[s].current_len \in seq[s].current_len .. seq[s].total_len - 1
<1> DEFINE Batch == running_queue[RankOf(s)]
<1>1. PICK order \in [Dp -> UNION {Rankings(running_queue[d]) : d \in Dp}] :
        /\ \A d \in Dp : order[d] \in Rankings(running_queue[d])
        /\ \E S \in SUBSET Batch :
             /\ s \in S
             /\ seq'[s] = Seeded(s, IndexIn(s, S, order[RankOf(s)]), Cardinality(S))
  <2>1. PICK order \in [Dp -> UNION {Rankings(running_queue[d]) : d \in Dp}] :
          LET B(u) == running_queue[RankOf(u)]
              Index(u, S) == IndexIn(u, S, order[RankOf(u)])
              mb == [u \in Seqs |-> IF u \notin Running THEN -1
                                    ELSE MicrobatchOf(Index(u, B(u)), Cardinality(B(u)))]
              Mates(u) == {v \in B(u) : mb[v] = mb[u]}
          IN  /\ \A d \in Dp : order[d] \in Rankings(running_queue[d])
              /\ seq' = [u \in Seqs |->
                           IF u \notin Running THEN seq[u]
                           ELSE Seeded(u, Index(u, Mates(u)), Cardinality(Mates(u)))]
    BY DEF InitializeMicrobatches
  <2> DEFINE mb == [u \in Seqs |->
                      IF u \notin Running THEN -1
                      ELSE MicrobatchOf(IndexIn(u, running_queue[RankOf(u)], order[RankOf(u)]),
                                        Cardinality(running_queue[RankOf(u)]))]
             Mates == {v \in Batch : mb[v] = mb[s]}
  <2>2. s \in Seqs /\ s \in Batch
    BY RankOfRunning DEF PipelineInv, SchedInv, Running, TypeOK
  <2>3. seq'[s] = Seeded(s, IndexIn(s, Mates, order[RankOf(s)]), Cardinality(Mates))
    BY <2>1, <2>2
  <2>4. Mates \in SUBSET Batch /\ s \in Mates
    BY <2>2
  <2> HIDE DEF mb, Mates
  <2> QED
    BY <2>1, <2>3, <2>4
<1>2. PICK S \in SUBSET Batch :
        s \in S /\ seq'[s] = Seeded(s, IndexIn(s, S, order[RankOf(s)]), Cardinality(S))
  BY <1>1
<1> DEFINE i == IndexIn(s, S, order[RankOf(s)])
           n == Cardinality(S)
<1>3. s \in Seqs /\ RankOf(s) \in Dp /\ Batch \in SUBSET Seqs
  BY RankOfRunning DEF PipelineInv, SchedInv, Running, TypeOK
<1>4. i \in Nat /\ n \in Nat /\ i < n
  BY <1>1, <1>2, <1>3, IndexBelow
<1> HIDE DEF i, n
<1>5. /\ seq[s] \in Sequence /\ seq[s].current_len = seq[s].input_len
      /\ seq[s].current_len < seq[s].total_len
  BY <1>3 DEF PipelineInv, SchedInv, TypeOK, LaneWork, LiveUnfinished, AtPromptEnd,
       InitializeMicrobatches
<1> DEFINE g == Generated(seq[s], i, n)
<1>6. g \in 0 .. seq[s].total_len - seq[s].input_len - 1
  BY <1>4, <1>5, GeneratedBelow
<1>7. seq'[s] = [seq[s] EXCEPT !.current_len = seq[s].input_len + g]
  BY <1>2 DEF Seeded, i, n
<1> HIDE DEF g
<1>8. seq'[s].current_len = seq[s].input_len + g /\ seq'[s].total_len = seq[s].total_len
  BY <1>5, <1>7 DEF Sequence
<1> QED
  BY <1>5, <1>6, <1>8 DEF Sequence

\* Launching only sets tokens.
LEMMA LaunchLengths ==
  ASSUME TypeOK, LaunchMicrobatch, NEW s \in Seqs
  PROVE  /\ seq'[s].current_len = seq[s].current_len
         /\ seq'[s].total_len = seq[s].total_len
         /\ seq'[s].input_len = seq[s].input_len
<1>1. /\ seq'[s] = seq[s] \/ seq'[s] = [seq[s] EXCEPT !.num_process_token = 1]
      /\ seq[s] \in Sequence
  BY DEF LaunchMicrobatch, TypeOK
<1> QED
  BY <1>1 DEF Sequence

\* Nothing but initializeMicrobatches and completeMicrobatch gives a sequence
\* progress once the warm-up is over, and what they leave running is unfinished.
LEMMA LaneWorkKept ==
  ASSUME HasWork, PipelineInv, LaneWork, [Next]_vars
  PROVE  LaneWork'
<1>1. SchedInv /\ TypeOK /\ LiveUnfinished /\ \A s \in Running \cup Waiting : s \in Seqs
  BY DEF PipelineInv, SchedInv, TypeOK, Running, Waiting, LaneWork
<1>2. CASE Refill /\ UNCHANGED <<warm, initialized>>
  BY <1>1, <1>2, RefillKeepsUnfinished, RefillKeepsPromptEnd, PipelineAssumption
     DEF LaneWork
<1>3. CASE HitUpdate /\ UNCHANGED initialized
  <2>1. warm > 0 /\ Pop(Running) /\ UNCHANGED sequence_queue
    BY <1>1, <1>3 DEF HitUpdate, SchedInv, CountersOK
  <2>2. ~ SteadyState
    BY <1>1, <2>1 DEF LaneWork, TypeOK
  <2>3. LiveUnfinished'
    BY <1>1, <1>3, <2>1, HitMoves, UpdateKeepsUnfinished
  <2> QED
    BY <2>2, <2>3 DEF LaneWork
<1>4. CASE InitializeMicrobatches
  <2>1. /\ Running' = Running /\ Waiting' = Waiting /\ warm' = warm /\ initialized' = TRUE
        /\ \A s \in Seqs \ Running : seq'[s] = seq[s]
        /\ ~ SteadyState => seq' = seq
    BY <1>4 DEF InitializeMicrobatches, Running, Waiting
  <2>2. ASSUME NEW s \in Running \cup Waiting
        PROVE  seq'[s].current_len < seq'[s].total_len
    <3>1. CASE SteadyState /\ s \in Running
      <4>1. seq[s] \in Sequence
        BY <1>1 DEF TypeOK
      <4> QED
        BY <1>4, <3>1, <4>1, SeededLeft DEF Sequence
    <3>2. CASE ~ (SteadyState /\ s \in Running)
      BY <1>1, <2>1, <3>2 DEF LiveUnfinished
    <3> QED
      BY <3>1, <3>2
  <2> QED
    BY <2>1, <2>2 DEF LaneWork, LiveUnfinished
<1>5. CASE CompleteMicrobatch
  <2>1. /\ in_flight # {} /\ warm' = warm /\ initialized' = initialized
        /\ UNCHANGED sequence_queue
    BY <1>5 DEF CompleteMicrobatch
  <2>2. initialized
    BY <2>1 DEF PipelineInv, InFlightOK
  <2>3. LiveUnfinished'
    BY <1>1, <1>5, <2>1, CompleteMoves, UpdateKeepsUnfinished
  <2> QED
    BY <2>1, <2>2, <2>3 DEF LaneWork
<1>6. CASE SetMetadata /\ UNCHANGED initialized
  <2>1. UNCHANGED <<sequence_queue, running_queue, warm>>
    BY <1>6 DEF SetMetadata
  <2> QED
    BY <1>1, <1>6, <2>1, PlanLengths, SameLengths DEF LaneWork
<1>7. CASE LaunchMicrobatch
  <2>1. UNCHANGED <<sequence_queue, running_queue, warm, initialized>>
    BY <1>7 DEF LaunchMicrobatch
  <2> QED
    BY <1>1, <1>7, <2>1, LaunchLengths, SameLengths DEF LaneWork
<1>8. CASE StartRound \/ EndRound \/ RefillMicrobatch \/ UNCHANGED vars
  <2>1. UNCHANGED <<sequence_queue, running_queue, seq, warm, initialized>>
    BY <1>8 DEF StartRound, EndRound, RefillMicrobatch, vars, schedVars
  <2> QED
    BY <2>1, SameLengths DEF LaneWork
<1>9. WarmUpAndRefill => \/ SetMetadata /\ UNCHANGED initialized
                         \/ HitUpdate /\ UNCHANGED initialized
                         \/ Refill /\ UNCHANGED <<warm, initialized>>
  BY DEF WarmUpAndRefill, Refill, FillSequenceQueue, PushSeq, FillRunningQueue, Admit,
         EndAdmit
<1> QED
  BY <1>2, <1>3, <1>4, <1>5, <1>6, <1>7, <1>8, <1>9 DEF Next

\* Every step of the loop is a step of continuous batching or is not seen there.
LEMMA PipelineStep ==
  ASSUME PipelineInv, LaneWork, [Next]_vars
  PROVE  [CB!Next]_CB!vars
<1>1. SchedInv /\ TypeOK /\ Running \subseteq Seqs
  BY DEF PipelineInv, SchedInv, TypeOK, Running
<1>2. CASE HitUpdate
  BY <1>1, <1>2, HitMoves, BatchingProgress DEF HitUpdate, CB!Next
<1>3. CASE InitializeMicrobatches
  <2>1. /\ UNCHANGED <<sequence_queue, running_queue>>
        /\ \A s \in Seqs \ Running : seq'[s] = seq[s]
        /\ ~ SteadyState => seq' = seq
    BY <1>3 DEF InitializeMicrobatches
  <2>2. CASE SteadyState
    <3>1. \A s \in Running : Left(s)' \in 1 .. Left(s)
      <4> SUFFICES ASSUME NEW s \in Running PROVE Left(s)' \in 1 .. Left(s)
        OBVIOUS
      <4>1. seq[s] \in Sequence
        BY <1>1 DEF TypeOK
      <4> QED
        BY <1>3, <2>2, <4>1, SeededLeft DEF Left, Sequence
    <3>2. \A s \in Seqs \ Running : Left(s)' = Left(s)
      BY <2>1 DEF Left
    <3> QED
      BY <1>1, <2>1, <3>1, <3>2, BatchingSeed DEF CB!Next
  <2>3. CASE ~ SteadyState
    BY <2>1, <2>3, BatchingStutter DEF Left
  <2> QED
    BY <2>2, <2>3
<1>4. CASE CompleteMicrobatch
  <2>1. UNCHANGED sequence_queue
    BY <1>4 DEF CompleteMicrobatch
  <2>2. \A s \in Running \ in_flight : ~ Done(seq[s])
    <3> SUFFICES ASSUME NEW s \in Running PROVE ~ Done(seq[s])
      OBVIOUS
    <3>1. seq[s] \in Sequence
      BY <1>1 DEF TypeOK
    <3> QED
      BY <3>1 DEF LaneWork, LiveUnfinished, Done, Sequence
  <2>3. CB!Progress
    BY <1>1, <1>4, <2>1, <2>2, CompleteMoves, BatchingProgress
  <2> QED
    BY <2>3 DEF CB!Next
<1>5. CASE LaunchMicrobatch
  <2>1. \A s \in Seqs : Left(s)' = Left(s)
    BY <1>1, <1>5, LaunchLengths DEF Left
  <2> QED
    BY <1>5, <2>1, BatchingStutter DEF LaunchMicrobatch
<1>6. CASE StartRound \/ EndRound \/ RefillMicrobatch \/ UNCHANGED vars
  <2>1. UNCHANGED <<sequence_queue, running_queue, seq>>
    BY <1>6 DEF StartRound, EndRound, RefillMicrobatch, vars, schedVars
  <2> QED
    BY <2>1, BatchingStutter DEF Left
<1> QED
  BY <1>1, <1>2, <1>3, <1>4, <1>5, <1>6, BatchingPlan, BatchingRefill
     DEF Next, WarmUpAndRefill

\* The pipelined loop implements continuous batching: oldest first into a free
\* slot of a replica, tokens for a microbatch at a time, and the slot back with
\* the last token, if every sequence comes with work.  A sequence that starts
\* decode with its whole output would never be launched and never be removed:
\* the program demands an output of more than one token for its decode mode.
THEOREM PipelineImplementsBatching == HasWork => (Spec => ImplementsBatching)
<1> SUFFICES ASSUME HasWork PROVE Spec => ImplementsBatching
  OBVIOUS
<1>1. Init => CB!Init
  BY BatchingInit DEF Init
<1>2. Init => LaneWork
  <2> SUFFICES ASSUME Init PROVE LaneWork
    OBVIOUS
  <2>1. Running = {} /\ Waiting = {} /\ warm = HittingIters
    BY DEF Init, SchedInit, Running, Waiting
  <2> QED
    BY <2>1, PipelineAssumption DEF LaneWork, LiveUnfinished, AtPromptEnd
<1>3. PipelineInv /\ LaneWork /\ [Next]_vars => LaneWork'
  BY LaneWorkKept
<1>4. PipelineInv /\ LaneWork /\ [Next]_vars => [CB!Next]_CB!vars
  BY PipelineStep
<1> QED
  BY <1>1, <1>2, <1>3, <1>4, PipelineInvariant, PTL DEF Spec, ImplementsBatching, CB!Spec

=============================================================================
