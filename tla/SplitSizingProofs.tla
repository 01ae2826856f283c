------------------------- MODULE SplitSizingProofs -------------------------
(***************************************************************************)
(* What main runs for a disaggregated system: the sizing of its memory and *)
(* the loop over its two machines.                                         *)
(*                                                                         *)
(* The disaggregated loop keeps the scheduler's invariant, and its two     *)
(* clocks are kept in order, for every number of sequences, replicas,      *)
(* slots and tokens, every workload and all durations of iterations.  For  *)
(* every model the layers are dealt to the stages without a gap, and a     *)
(* batch that the memory check capped fits in each of them.  A row of the  *)
(* results states the wear of the device that wrote most in this run, for  *)
(* every number of devices, whatever they write and when.                  *)
(***************************************************************************)
EXTENDS SumGenSplit, Sizing, SchedulerProofs

-----------------------------------------------------------------------------
(* One sequence *)

\* A distance stays a distance when the clock moves on.
LEMMA CloserNat ==
  ASSUME NEW a \in Nat, NEW t \in IterTimes
  PROVE  Closer(a, t) \in Nat
BY SplitAssumption DEF Closer, Most

\* ... and the order of two distances is kept.
LEMMA CloserOrder ==
  ASSUME NEW a \in Nat, NEW b \in Nat, a <= b, NEW t \in IterTimes
  PROVE  Closer(a, t) <= Closer(b, t)
BY SplitAssumption DEF Closer, Most

\* What an update does to the milestones of a sequence.
LEMMA AdvancedMilestones ==
  ASSUME NEW r \in Sequence, Bounded(r), r.current_len < r.input_len => ~ r.record
  PROVE  LET a == Advanced(r)
         IN  /\ a.gen_ahead = r.gen_ahead
             /\ a.current_len < a.input_len => ~ a.record
             /\ ~ Done(Updated(r)) /\ ~ (a.current_len < a.input_len) => ~ AtMilestone(a)
             /\ r.current_len < r.input_len /\ ~ (a.current_len < a.input_len) => Reported(r)
             /\ Reported(r) /\ r.num_process_token = 0 => AtMilestone(r)
<1> DEFINE u == Updated(r)
           a == Advanced(r)
<1>1. /\ u.current_len = r.current_len + r.num_process_token
      /\ u.input_len = r.input_len /\ u.total_len = r.total_len
      /\ u.record = r.record /\ u.gen_ahead = r.gen_ahead
  BY DEF Updated, Sequence
<1>2. /\ a.record = (r.record \/ FirstToken(u))
      /\ a.gen_ahead = r.gen_ahead
      /\ a.current_len = r.current_len + r.num_process_token
      /\ a.input_len = r.input_len /\ a.total_len = r.total_len
  <2> DEFINE rec == r.record \/ FirstToken(u)
             sum == r.sum_stage /\ u.current_len # r.input_len
  <2>1. u = [r EXCEPT !.current_len = r.current_len + r.num_process_token,
                      !.num_process_token = 0, !.sum_stage = sum]
    BY <1>1 DEF Updated
  <2>2. a = [u EXCEPT !.record = rec]
    BY <1>1 DEF Advanced
  <2> HIDE DEF rec, sum, u, a
  <2>3. /\ a.record = rec /\ a.gen_ahead = r.gen_ahead
        /\ a.current_len = r.current_len + r.num_process_token
        /\ a.input_len = r.input_len /\ a.total_len = r.total_len
    BY <2>1, <2>2 DEF Sequence
  <2> QED
    BY <2>3 DEF rec
<1>3. /\ r.current_len \in Nat /\ r.num_process_token \in Nat
      /\ r.input_len \in Nat /\ r.total_len \in Nat
      /\ r.current_len < r.input_len => r.current_len + r.num_process_token <= r.input_len
  BY DEF Sequence, Bounded
<1> HIDE DEF u, a
<1>4. a.current_len < a.input_len => ~ a.record
  <2>1. a.current_len < a.input_len =>
          r.current_len < r.input_len /\ u.current_len # u.input_len
    BY <1>1, <1>2, <1>3
  <2> QED
    BY <1>2, <2>1, Zenon DEF FirstToken
<1>5. ~ Done(u) /\ ~ (a.current_len < a.input_len) => ~ AtMilestone(a)
  BY <1>1, <1>2, <1>3 DEF FirstToken, Done, AtMilestone
<1>6. r.current_len < r.input_len /\ ~ (a.current_len < a.input_len)
        => Done(u) \/ FirstToken(u)
  BY <1>1, <1>2, <1>3 DEF FirstToken
<1>7. (Done(u) \/ FirstToken(u)) /\ r.num_process_token = 0 => AtMilestone(r)
  BY <1>1, <1>3 DEF FirstToken, Done, AtMilestone
<1> QED
  BY <1>2, <1>4, <1>5, <1>6, <1>7 DEF Reported, u, a

\* Reporting changes nothing but gen_start_time.
LEMMA AddLatencyFields ==
  ASSUME NEW r \in Sequence, NEW t \in Nat
  PROVE  LET a == AddLatency(r, t)
         IN  /\ a.gen_ahead = t
             /\ a.current_len = r.current_len /\ a.num_process_token = r.num_process_token
             /\ a.input_len = r.input_len /\ a.total_len = r.total_len
             /\ a.record = r.record
             /\ AtMilestone(a) <=> AtMilestone(r)
BY DEF AddLatency, Sequence, AtMilestone

-----------------------------------------------------------------------------
(* The machines *)

\* An iteration of the gen machine keeps the invariant.
LEMMA RunGenInv ==
  ASSUME SplitInv, NEW t \in IterTimes, RunGen(t)
  PROVE  SplitInv'
<1> DEFINE g(s) == IF Reported(seq[s]) THEN 0 ELSE Closer(seq[s].gen_ahead, t)
<1>1. /\ pc = "run" /\ pc' = "inject" /\ ~ HasSumSeq /\ warm = 0
      /\ Pop(Running)
      /\ UNCHANGED <<sequence_queue, rotate, to_push, to_admit, warm, seeded>>
  BY DEF RunGen, SplitInv, SchedInv, CountersOK
<1>2. /\ SchedInv /\ SplitTypeOK /\ ClockInv /\ TypeOK
      /\ \A s \in Seqs : seq[s] \in Sequence /\ Bounded(seq[s])
  BY DEF SplitInv, SchedInv, TypeOK
<1>3. \A s \in Seqs : g(s) \in Nat /\ prefill_ahead[s] \in Nat
                      /\ Closer(prefill_ahead[s], t) \in Nat
  BY <1>2, CloserNat DEF SplitTypeOK, Sequence
<1>4. \A s \in Seqs : seq'[s] = IF s \notin Running THEN seq[s]
                                ELSE AddLatency(Advanced(seq[s]), g(s))
  BY DEF RunGen
<1>5. \A s \in Seqs : prefill_ahead'[s] = Closer(prefill_ahead[s], t)
  BY DEF RunGen
<1> HIDE DEF g
<1>6. \A s \in Seqs : seq'[s] \in Sequence /\ Bounded(seq'[s])
  BY <1>2, <1>3, <1>4, AdvancedBounded, AddLatencyBounded
<1>7. SchedInv'
  <2>1. seq' \in [Seqs -> Sequence]
    BY <1>6 DEF RunGen
  <2>2. running_queue' \in [Dp -> SUBSET Seqs] /\ SlotCapacity' /\ OnePlace'
    BY <1>1, <1>2, PopShrinks DEF SchedInv
  <2>3. TypeOK' /\ CountersOK'
    BY <1>1, <1>2, <2>1, <2>2 DEF TypeOK, CountersOK
  <2> QED
    BY <1>6, <2>2, <2>3 DEF SchedInv
<1>8. SplitTypeOK'
  <2>1. prefill_ahead' \in [Seqs -> Nat]
    BY <1>3 DEF RunGen
  <2>2. sum_ahead' \in Nat
    BY <1>2, CloserNat DEF RunGen, SplitTypeOK
  <2>3. seeded_remaining' \in Int /\ turnover' \subseteq Seqs
    <3>1. turnover \cap Departed \in SUBSET Seqs
      BY <1>2 DEF SplitTypeOK
    <3>2. SeededDepartures \in Nat
      BY <3>1, SubsetCardinality DEF SeededDepartures
    <3> QED
      BY <1>2, <3>2 DEF RunGen, SplitTypeOK
  <2> QED
    BY <1>1, <1>2, <1>7, <2>1, <2>2, <2>3 DEF SplitTypeOK, SchedInv
<1>9. ClockInv'
  <2>1. Waiting' = Waiting
    BY <1>1 DEF Waiting
  <2>2. Waiting \subseteq Seqs
    BY <1>2 DEF Waiting, TypeOK
  <2>3. ASSUME NEW s \in Seqs, prefill_ahead[s] = 0 PROVE prefill_ahead'[s] = 0
    BY <1>5, <2>3, SplitAssumption DEF Closer, Most
  <2>4. \A s \in Waiting' : prefill_ahead'[s] = 0
    BY <1>2, <2>1, <2>2, <2>3 DEF ClockInv
  <2>5. ~ (SteadyState /\ ~ seeded)
    BY <1>1, <1>2 DEF ClockInv
  <2>6. ASSUME NEW s \in Seqs
        PROVE  /\ IsSum(s)' => ~ seq'[s].record
               /\ (~ IsSum(s))' /\ seq'[s].num_process_token > 0 => seq'[s].gen_ahead = 0
    <3>1. CASE s \notin Running
      BY <1>2, <1>4, <3>1 DEF ClockInv, IsSum
    <3>2. CASE s \in Running
      <4>1. Advanced(seq[s]) \in Sequence /\ Advanced(seq[s]).num_process_token = 0
        BY <1>2, AdvancedBounded
      <4>2. Advanced(seq[s]).current_len < Advanced(seq[s]).input_len
              => ~ Advanced(seq[s]).record
        BY <1>2, AdvancedMilestones DEF ClockInv, IsSum
      <4>3. /\ seq'[s].current_len = Advanced(seq[s]).current_len
            /\ seq'[s].input_len = Advanced(seq[s]).input_len
            /\ seq'[s].record = Advanced(seq[s]).record
            /\ seq'[s].num_process_token = 0
        BY <1>3, <1>4, <3>2, <4>1, AddLatencyFields
      <4> QED
        BY <4>2, <4>3 DEF IsSum
    <3> QED
      BY <3>1, <3>2
  <2>7. ASSUME NEW s \in Running'
        PROVE  /\ prefill_ahead'[s] <= seq'[s].gen_ahead
               /\ ~ AtMilestone(seq'[s])
    <3> DEFINE a == Advanced(seq[s])
    <3>1. s \in Running /\ ~ Done(Updated(seq[s]))
      BY <1>1, <2>7, StaysRunning
    <3>2. /\ s \in Seqs /\ ~ IsSum(s)
          /\ seq[s].gen_ahead \in Nat /\ seq[s].num_process_token \in Nat
          /\ seq[s].current_len \in Nat /\ seq[s].input_len \in Nat
      BY <1>1, <1>2, <3>1 DEF Running, TypeOK, HasSumSeq, Sequence
    <3>3. a \in Sequence /\ a.input_len = seq[s].input_len
          /\ a.current_len = seq[s].current_len + seq[s].num_process_token
      BY <1>2, <3>2, AdvancedBounded
    <3>4. ~ (a.current_len < a.input_len)
      BY <3>2, <3>3 DEF IsSum
    <3>5. /\ ~ AtMilestone(a)
          /\ Reported(seq[s]) /\ seq[s].num_process_token = 0 => AtMilestone(seq[s])
      BY <1>2, <3>1, <3>2, <3>4, AdvancedMilestones DEF ClockInv, IsSum
    <3>6. seq'[s] = AddLatency(a, g(s))
      BY <1>4, <3>1, <3>2
    <3> HIDE DEF a
    <3>7. seq'[s].gen_ahead = g(s) /\ ~ AtMilestone(seq'[s])
      BY <1>3, <3>2, <3>3, <3>5, <3>6, AddLatencyFields
    <3>8. /\ prefill_ahead[s] <= seq[s].gen_ahead
          /\ seq[s].num_process_token > 0 => seq[s].gen_ahead = 0
          /\ AtMilestone(seq[s]) => prefill_ahead[s] = 0
      BY <1>2, <3>1, <3>2 DEF ClockInv
    <3>9. CASE Reported(seq[s])
      <4>1. prefill_ahead[s] = 0
        BY <1>3, <3>2, <3>5, <3>8, <3>9
      <4> QED
        BY <2>3, <3>2, <3>7, <3>9, <4>1 DEF g
    <3>10. CASE ~ Reported(seq[s])
      <4>1. Closer(prefill_ahead[s], t) <= Closer(seq[s].gen_ahead, t)
        BY <1>3, <3>2, <3>8, CloserOrder
      <4> QED
        BY <1>5, <3>2, <3>7, <3>10, <4>1 DEF g
    <3> QED
      BY <3>7, <3>9, <3>10
  <2> QED
    BY <1>1, <2>4, <2>5, <2>6, <2>7 DEF ClockInv
<1> QED
  BY <1>7, <1>8, <1>9 DEF SplitInv

\* An iteration of the sum machine keeps the invariant.
LEMMA RunSumInv ==
  ASSUME SplitInv, NEW t \in IterTimes, RunSum(t)
  PROVE  SplitInv'
<1> DEFINE g(s) == SumGenStart(seq[s], t)
<1>1. /\ pc = "run" /\ pc' = "set" /\ warm = 0
      /\ Pop(InPrefill) /\ InPrefill \subseteq Running
      /\ UNCHANGED <<sequence_queue, rotate, to_push, to_admit, warm, seeded>>
  BY DEF RunSum, SplitInv, SchedInv, CountersOK, InPrefill
<1>2. /\ SchedInv /\ SplitTypeOK /\ ClockInv /\ TypeOK
      /\ \A s \in Seqs : seq[s] \in Sequence /\ Bounded(seq[s])
  BY DEF SplitInv, SchedInv, TypeOK
<1>3. sum_ahead + t \in Nat /\ \A s \in Seqs : g(s) \in Nat
  BY <1>2, SplitAssumption DEF SplitTypeOK, SumGenStart
<1>4. \A s \in Seqs : seq'[s] = IF s \in InPrefill
                                THEN AddLatency(Advanced(seq[s]), g(s)) ELSE seq[s]
  BY DEF RunSum
<1>5. \A s \in Seqs : prefill_ahead'[s] = IF s \in InPrefill THEN sum_ahead + t
                                          ELSE prefill_ahead[s]
  BY DEF RunSum
<1> HIDE DEF g
<1>6. \A s \in Seqs : seq'[s] \in Sequence /\ Bounded(seq'[s])
  BY <1>2, <1>3, <1>4, AdvancedBounded, AddLatencyBounded
<1>7. SchedInv'
  <2>1. seq' \in [Seqs -> Sequence]
    BY <1>6 DEF RunSum
  <2>2. running_queue' \in [Dp -> SUBSET Seqs] /\ SlotCapacity' /\ OnePlace'
    BY <1>1, <1>2, PopShrinks DEF SchedInv
  <2>3. TypeOK' /\ CountersOK'
    BY <1>1, <1>2, <2>1, <2>2 DEF TypeOK, CountersOK
  <2> QED
    BY <1>6, <2>2, <2>3 DEF SchedInv
<1>8. SplitTypeOK'
  <2>1. prefill_ahead' \in [Seqs -> Nat]
    BY <1>2, <1>3 DEF RunSum, SplitTypeOK
  <2> QED
    BY <1>1, <1>2, <1>3, <1>7, <2>1 DEF RunSum, SplitTypeOK, SchedInv
<1>9. ClockInv'
  <2>1. Waiting' = Waiting /\ Waiting \subseteq Seqs
    BY <1>1, <1>2 DEF Waiting, TypeOK
  <2>2. \A s \in Waiting : s \notin InPrefill
    BY <1>1, <1>2 DEF SchedInv, OnePlace, Running
  <2>3. \A s \in Waiting' : prefill_ahead'[s] = 0
    BY <1>2, <1>5, <2>1, <2>2 DEF ClockInv
  <2>4. ~ (SteadyState /\ ~ seeded)
    BY <1>1, <1>2 DEF ClockInv
  <2>5. ASSUME NEW s \in InPrefill
        PROVE  /\ IsSum(s)' => ~ seq'[s].record
               /\ seq'[s].num_process_token = 0
               /\ s \in Running' /\ (~ IsSum(s))' =>
                    /\ prefill_ahead'[s] <= seq'[s].gen_ahead
                    /\ ~ AtMilestone(seq'[s])
    <3> DEFINE a == Advanced(seq[s])
    <3>1. s \in Seqs /\ IsSum(s)
      BY <1>1, <1>2 DEF InPrefill, Running, TypeOK
    <3>2. /\ a \in Sequence /\ a.num_process_token = 0
          /\ a.input_len = seq[s].input_len
      BY <1>2, <3>1, AdvancedBounded
    <3>3. /\ a.current_len < a.input_len => ~ a.record
          /\ ~ Done(Updated(seq[s])) /\ ~ (a.current_len < a.input_len) => ~ AtMilestone(a)
          /\ ~ (a.current_len < a.input_len) => Reported(seq[s])
      BY <1>2, <3>1, AdvancedMilestones DEF ClockInv, IsSum
    <3>4. seq'[s] = AddLatency(a, g(s))
      BY <1>4, <3>1
    <3> HIDE DEF a
    <3>5. /\ seq'[s].gen_ahead = g(s)
          /\ seq'[s].current_len = a.current_len /\ seq'[s].input_len = a.input_len
          /\ seq'[s].num_process_token = 0 /\ seq'[s].record = a.record
          /\ AtMilestone(seq'[s]) <=> AtMilestone(a)
      BY <1>3, <3>1, <3>2, <3>4, AddLatencyFields
    <3>6. IsSum(s)' <=> a.current_len < a.input_len
      BY <3>5 DEF IsSum
    <3>7. ASSUME s \in Running', (~ IsSum(s))'
          PROVE  prefill_ahead'[s] <= seq'[s].gen_ahead /\ ~ AtMilestone(seq'[s])
      <4>1. ~ Done(Updated(seq[s]))
        BY <1>1, <3>7, StaysRunning
      <4>2. seq'[s].gen_ahead = sum_ahead + t /\ prefill_ahead'[s] = sum_ahead + t
        BY <1>5, <3>1, <3>3, <3>5, <3>6, <3>7 DEF g, SumGenStart
      <4> QED
        BY <1>3, <3>3, <3>5, <3>6, <3>7, <4>1, <4>2
    <3> QED
      BY <3>3, <3>5, <3>6, <3>7
  <2>6. ASSUME NEW s \in Seqs, s \notin InPrefill
        PROVE  /\ seq'[s] = seq[s] /\ prefill_ahead'[s] = prefill_ahead[s]
               /\ (IsSum(s)' <=> IsSum(s))
               /\ s \in Running' => s \in Running
    BY <1>1, <1>4, <1>5, <2>6, StaysRunning DEF IsSum
  <2>7. \A s \in Seqs :
          /\ IsSum(s)' => ~ seq'[s].record
          /\ (~ IsSum(s))' /\ seq'[s].num_process_token > 0 => seq'[s].gen_ahead = 0
    BY <1>2, <2>5, <2>6 DEF ClockInv
  <2>8. Running' \subseteq Seqs
    BY <1>7 DEF SchedInv, TypeOK, Running
  <2>9. \A s \in Running' : (~ IsSum(s))' =>
          /\ prefill_ahead'[s] <= seq'[s].gen_ahead
          /\ AtMilestone(seq'[s]) => prefill_ahead'[s] = 0
    BY <1>2, <2>5, <2>6, <2>8 DEF ClockInv
  <2> QED
    BY <1>1, <2>3, <2>4, <2>7, <2>9 DEF ClockInv
<1> QED
  BY <1>7, <1>8, <1>9 DEF SplitInv

-----------------------------------------------------------------------------
(* Planning, idling, the warm-up and the refill *)

\* A step that leaves the fields of the sequences, the queues and the history
\* alone keeps the order of the clocks, if an iteration is not begun unseeded.
LEMMA IdleSplitInv ==
  ASSUME SplitInv, RunIdle
  PROVE  SplitInv'
<1>1. TypeOK' /\ CountersOK'
  BY DEF SplitInv, SchedInv, TypeOK, CountersOK, RunIdle
<1>2. SlotCapacity' /\ OnePlace'
  BY QueuesUnchanged DEF SplitInv, SchedInv, RunIdle
<1>3. SchedInv' /\ SplitTypeOK'
  BY <1>1, <1>2 DEF SplitInv, SchedInv, SplitTypeOK, RunIdle, splitVars
<1>4. ClockInv'
  BY DEF SplitInv, ClockInv, RunIdle, splitVars, Running, Waiting, IsSum
<1> QED
  BY <1>3, <1>4 DEF SplitInv

\* Planning an iteration keeps the invariant: a decode token is planned only
\* when gen_start_time has passed.
LEMMA PlanIterationInv ==
  ASSUME SplitInv, PlanIteration
  PROVE  SplitInv'
<1>1. SchedInv'
  BY SetMetadataInv DEF SplitInv, PlanIteration
<1>2. SplitTypeOK'
  BY <1>1 DEF SplitInv, SchedInv, SplitTypeOK, PlanIteration, splitVars
<1>3. /\ TypeOK /\ ClockInv
      /\ UNCHANGED <<sequence_queue, running_queue, warm, prefill_ahead, seeded>>
      /\ SteadyState => seeded
  BY DEF SplitInv, SchedInv, PlanIteration, SetMetadata, splitVars
<1>4. Running' = Running /\ Waiting' = Waiting /\ Running \subseteq Seqs
  BY <1>3 DEF Running, Waiting, TypeOK
<1>5. ASSUME NEW s \in Seqs
      PROVE  /\ seq'[s].current_len = seq[s].current_len
             /\ seq'[s].input_len = seq[s].input_len
             /\ seq'[s].total_len = seq[s].total_len
             /\ seq'[s].record = seq[s].record
             /\ seq'[s].gen_ahead = seq[s].gen_ahead
             /\ \/ seq'[s].num_process_token = seq[s].num_process_token
                \/ s \in Running /\ seq'[s].num_process_token = TokensToProcess(s)
  <2>1. seq[s] \in Sequence
    BY <1>3 DEF TypeOK
  <2>2. seq'[s] = IF s \in Running
                  THEN [seq[s] EXCEPT !.num_process_token = TokensToProcess(s)]
                  ELSE seq[s]
    BY DEF PlanIteration, SetMetadata
  <2> QED
    BY <2>1, <2>2 DEF Sequence
<1>6. \A s \in Seqs : (IsSum(s)' <=> IsSum(s)) /\ (AtMilestone(seq'[s]) <=> AtMilestone(seq[s]))
  BY <1>5 DEF IsSum, AtMilestone
<1>7. ASSUME NEW s \in Seqs, ~ IsSum(s), seq'[s].num_process_token > 0
      PROVE  seq[s].gen_ahead = 0
  <2>1. CASE GenScheduled(s)
    BY <2>1 DEF GenScheduled
  <2>2. CASE ~ GenScheduled(s)
    BY <1>3, <1>5, <1>7, <2>2 DEF TokensToProcess, ClockInv
  <2> QED
    BY <2>1, <2>2
<1>8. ClockInv'
  BY <1>3, <1>4, <1>5, <1>6, <1>7 DEF ClockInv
<1> QED
  BY <1>1, <1>2, <1>8 DEF SplitInv

\* ForgetDeparted keeps the history within its type and never raises it.
LEMMA ForgetDepartedFacts ==
  ASSUME SplitTypeOK, ForgetDeparted
  PROVE  /\ prefill_ahead' \in [Seqs -> Nat]
         /\ \A s \in Seqs : prefill_ahead'[s] = IF s \in Running THEN prefill_ahead[s] ELSE 0
         /\ UNCHANGED <<sum_ahead, seeded, turnover, seeded_remaining>>
BY DEF SplitTypeOK, ForgetDeparted

\* A warm-up iteration keeps the invariant: no prefill has a history yet.
LEMMA HitSplitInv ==
  ASSUME SplitInv, HitUpdate, ForgetDeparted
  PROVE  SplitInv'
<1>1. SchedInv'
  BY HitUpdateInv DEF SplitInv
<1>2. SplitTypeOK'
  BY <1>1, ForgetDepartedFacts DEF SplitInv, SchedInv, SplitTypeOK
<1>3. /\ TypeOK /\ ClockInv /\ pc = "hit" /\ pc' = "inject0" /\ warm > 0
      /\ \A s \in Seqs : seq[s] \in Sequence /\ Bounded(seq[s])
  BY DEF SplitInv, SchedInv, CountersOK, HitUpdate, TypeOK
<1>4. \A s \in Seqs : prefill_ahead'[s] = 0
  BY <1>3, ForgetDepartedFacts DEF SplitInv, ClockInv
<1>5. Running' \subseteq Seqs /\ Waiting' \subseteq Seqs
  BY <1>1 DEF SchedInv, TypeOK, Running, Waiting
<1>6. ASSUME NEW s \in Seqs
      PROVE  /\ IsSum(s)' => ~ seq'[s].record
             /\ (~ IsSum(s))' /\ seq'[s].num_process_token > 0 => seq'[s].gen_ahead = 0
  <2>1. CASE s \in Running
    <3>1. seq'[s] = Advanced(seq[s])
      BY <2>1 DEF HitUpdate
    <3>2. Advanced(seq[s]).num_process_token = 0
      BY <1>3, AdvancedBounded
    <3>3. Advanced(seq[s]).current_len < Advanced(seq[s]).input_len
            => ~ Advanced(seq[s]).record
      BY <1>3, AdvancedMilestones DEF ClockInv, IsSum
    <3> QED
      BY <3>1, <3>2, <3>3 DEF IsSum
  <2>2. CASE s \notin Running
    BY <1>3, <2>2 DEF HitUpdate, ClockInv, IsSum
  <2> QED
    BY <2>1, <2>2
<1>7. \A s \in Running' : prefill_ahead'[s] <= seq'[s].gen_ahead
  BY <1>1, <1>4, <1>5 DEF SchedInv, TypeOK, Sequence
<1>8. ~ (SteadyState /\ ~ seeded) /\ seeded' = seeded
  BY <1>3, ForgetDepartedFacts DEF SplitInv, ClockInv
<1>9. ClockInv'
  BY <1>4, <1>5, <1>6, <1>7, <1>8 DEF ClockInv
<1> QED
  BY <1>1, <1>2, <1>9 DEF SplitInv

\* The refill keeps the invariant: a sequence that enters a batch has no
\* history left from the one that had its identity before.
LEMMA RefillSplitInv ==
  ASSUME SplitInv, Refill, ForgetDeparted
  PROVE  SplitInv'
<1>1. SchedInv'
  BY RefillInv DEF SplitInv
<1>2. SplitTypeOK'
  BY <1>1, ForgetDepartedFacts DEF SplitInv, SchedInv, SplitTypeOK
<1>3. /\ TypeOK /\ ClockInv /\ SchedInv
      /\ pc' \notin {"hit", "run"} /\ UNCHANGED <<warm, seeded>>
  BY ForgetDepartedFacts
     DEF SplitInv, SchedInv, Refill, FillSequenceQueue, PushSeq, FillRunningQueue, Admit,
         EndAdmit
<1>4. \A s \in Running : s \in Running' /\ seq'[s] = seq[s]
  BY <1>3, RefillKeepsRunning
<1>5. \A s \in Seqs : \/ seq'[s] = seq[s]
                      \/ /\ s \notin Running
                         /\ seq'[s].num_process_token = 0 /\ ~ seq'[s].record
  BY <1>3, RefillCreates, WorkloadUntouched
<1>6. \A s \in Seqs : prefill_ahead'[s] = IF s \in Running THEN prefill_ahead[s] ELSE 0
  BY ForgetDepartedFacts DEF SplitInv
<1>7. \A s \in Seqs : prefill_ahead[s] = 0 => prefill_ahead'[s] = 0
  BY <1>6
<1>8. Running' \subseteq Seqs /\ Waiting' \subseteq Seqs
  BY <1>1 DEF SchedInv, TypeOK, Running, Waiting
<1>9. \A s \in Waiting' : prefill_ahead'[s] = 0
  <2>1. \A s \in Waiting' : s \notin Running'
    BY <1>1 DEF SchedInv, OnePlace, Running
  <2> QED
    BY <1>4, <1>6, <1>8, <2>1
<1>10. \A s \in Seqs :
         /\ IsSum(s)' => ~ seq'[s].record
         /\ (~ IsSum(s))' /\ seq'[s].num_process_token > 0 => seq'[s].gen_ahead = 0
  BY <1>3, <1>5 DEF ClockInv, IsSum
<1>11. ASSUME NEW s \in Running', (~ IsSum(s))'
       PROVE  /\ prefill_ahead'[s] <= seq'[s].gen_ahead
              /\ AtMilestone(seq'[s]) => prefill_ahead'[s] = 0
  <2>1. CASE s \in Running
    BY <1>3, <1>4, <1>6, <1>8, <1>11, <2>1 DEF ClockInv, IsSum
  <2>2. CASE s \notin Running
    BY <1>1, <1>6, <1>8, <2>2 DEF SchedInv, TypeOK, Sequence
  <2> QED
    BY <2>1, <2>2
<1>12. SteadyState /\ ~ seeded' => \A s \in Seqs : seq'[s].num_process_token = 0
  BY <1>3, <1>5 DEF ClockInv
<1>13. ClockInv'
  BY <1>3, <1>7, <1>9, <1>10, <1>11, <1>12 DEF ClockInv
<1> QED
  BY <1>1, <1>2, <1>13 DEF SplitInv

-----------------------------------------------------------------------------
(* The seeding *)

\* A seeded sequence is within its bounds.
LEMMA SeededBounded ==
  ASSUME TypeOK, NEW s \in Running, NEW order \in Rankings(Running),
         Bounded(seq[s]), seq[s].num_process_token = 0
  PROVE  /\ Seeded(s, order) \in Sequence
         /\ Bounded(Seeded(s, order))
         /\ ~ (Seeded(s, order).current_len < Seeded(s, order).input_len)
         /\ Seeded(s, order).num_process_token = 0
<1> DEFINE batch == running_queue[RankOf(s)]
           before == {u \in batch : order[u] < order[s]}
           n == Cardinality(batch)
           i == Cardinality(before)
<1>1. batch \in SUBSET Seqs /\ before \in SUBSET Seqs /\ s \in batch
  BY RankOfRunning DEF TypeOK
<1>2. /\ IsFiniteSet(batch) /\ n \in Nat
      /\ IsFiniteSet(before) /\ i \in Nat
  BY <1>1, SubsetCardinality
<1>3. s \notin before
  <2>1. order[s] \in Int
    BY DEF Rankings
  <2> QED
    BY <2>1
<1>4. n > 0 /\ i <= n - 1
  <2>1. /\ Cardinality(batch \ {s}) = n - 1 /\ IsFiniteSet(batch \ {s})
        /\ n > 0
    BY <1>1, <1>2, FS_RemoveElement, FS_EmptySet
  <2>2. before \subseteq batch \ {s}
    BY <1>3
  <2>3. i <= Cardinality(batch \ {s})
    BY <2>1, <2>2, FS_Subset
  <2> QED
    BY <2>1, <2>3
<1> DEFINE m == Most(0, seq[s].total_len - seq[s].input_len - 1)
<1>5. /\ seq[s] \in Sequence /\ seq[s].input_len \in Nat /\ seq[s].total_len \in Nat
      /\ seq[s].input_len <= seq[s].total_len
      /\ m \in Nat /\ m <= seq[s].total_len - seq[s].input_len
  BY <1>1 DEF TypeOK, Sequence, Bounded, Most
<1> HIDE DEF m, n, i
<1>6. Generated(seq[s], i, n) \in Nat /\ Generated(seq[s], i, n) <= m
  <2>1. CASE n = 1
    BY <1>5, <2>1 DEF Generated
  <2>2. CASE n # 1
    <3>1. Generated(seq[s], i, n) = (i * m) \div (n - 1)
      BY <2>2 DEF Generated, m
    <3> QED
      BY <1>2, <1>4, <1>5, <2>2, <3>1, ShareBounded
  <2> QED
    BY <2>1, <2>2
<1> DEFINE len == seq[s].input_len + Generated(seq[s], i, n)
<1>7. len \in Nat /\ len >= seq[s].input_len /\ len <= seq[s].total_len
  BY <1>5, <1>6
<1>8. Seeded(s, order) = [seq[s] EXCEPT !.current_len = len]
  BY DEF Seeded, n, i
<1> HIDE DEF len
<1> QED
  BY <1>5, <1>7, <1>8 DEF Sequence, Bounded

\* Seeding keeps the invariant: nothing has run yet.
LEMMA SeedInv ==
  ASSUME SplitInv, SeedSteadyStateBatch
  PROVE  SplitInv'
<1>1. /\ TypeOK /\ ClockInv /\ SplitTypeOK /\ SchedInv /\ seeded' = TRUE
      /\ UNCHANGED <<sequence_queue, running_queue, rotate, to_push, to_admit, warm, pc,
                     sum_ahead, prefill_ahead>>
  BY DEF SplitInv, SchedInv, SeedSteadyStateBatch
<1>2. \A s \in Seqs : prefill_ahead[s] = 0 /\ seq[s].num_process_token = 0
  BY <1>1 DEF ClockInv, SeedSteadyStateBatch
<1>3. PICK order \in Rankings(Running) :
        seq' = [s \in Seqs |-> IF s \in Running THEN Seeded(s, order) ELSE seq[s]]
  BY DEF SeedSteadyStateBatch
<1>4. Running' = Running /\ Waiting' = Waiting /\ Running \in SUBSET Seqs
      /\ Waiting \subseteq Seqs
  BY <1>1 DEF Running, Waiting, TypeOK
<1>5. ASSUME NEW s \in Seqs
      PROVE  /\ seq'[s] \in Sequence /\ Bounded(seq'[s])
             /\ seq'[s].num_process_token = 0
             /\ IsSum(s)' => ~ seq'[s].record
  <2>1. seq[s] \in Sequence /\ Bounded(seq[s]) /\ seq[s].num_process_token = 0
    BY <1>1, <1>2 DEF SchedInv, TypeOK
  <2>2. CASE s \in Running
    BY <1>1, <1>3, <2>1, <2>2, SeededBounded DEF IsSum
  <2>3. CASE s \notin Running
    BY <1>1, <1>3, <2>1, <2>3 DEF ClockInv, IsSum
  <2> QED
    BY <2>2, <2>3
<1>6. seq' \in [Seqs -> Sequence]
  BY <1>3, <1>5
<1>7. SchedInv'
  <2>1. TypeOK' /\ CountersOK'
    BY <1>1, <1>6 DEF TypeOK, SchedInv, CountersOK
  <2>2. SlotCapacity' /\ OnePlace'
    BY <1>1, QueuesUnchanged DEF SchedInv
  <2> QED
    BY <1>5, <2>1, <2>2 DEF SchedInv
<1>8. SplitTypeOK'
  <2>1. Cardinality(Running) \in Nat
    BY <1>4, SubsetCardinality
  <2> QED
    BY <1>1, <1>4, <1>7, <2>1 DEF SplitTypeOK, SchedInv, SeedSteadyStateBatch
<1>9. ClockInv'
  <2>1. \A s \in Seqs : seq'[s].gen_ahead \in Nat
    BY <1>5 DEF Sequence
  <2> QED
    BY <1>1, <1>2, <1>4, <1>5, <2>1 DEF ClockInv
<1> QED
  BY <1>7, <1>8, <1>9 DEF SplitInv

-----------------------------------------------------------------------------
(* Theorems *)

\* The invariant holds at the start ...
LEMMA InitSplitInv == Init => SplitInv
<1> SUFFICES ASSUME Init PROVE SplitInv
  OBVIOUS
<1>1. SchedInv
  BY SchedInitInv DEF Init
<1>2. SplitTypeOK
  <2>1. prefill_ahead \in [Seqs -> Nat]
    BY DEF Init
  <2>2. sum_ahead \in Nat /\ seeded_remaining \in Int
    BY DEF Init
  <2>3. turnover \subseteq Seqs
    BY DEF Init
  <2>4. seeded \in BOOLEAN
    BY DEF Init
  <2> QED
    BY <1>1, <2>1, <2>2, <2>3, <2>4 DEF SplitTypeOK, SchedInv
<1>3. ClockInv
  <2>1. \A s \in Seqs : /\ prefill_ahead[s] = 0 /\ ~ IsSum(s) /\ seq[s].gen_ahead = 0
                        /\ seq[s].num_process_token = 0
    BY DEF Init, SchedInit, IsSum, Unborn, NewSequence
  <2>2. Running = {} /\ Waiting = {} /\ pc = "inject0"
    BY DEF Init, SchedInit, Running, Waiting
  <2> QED
    BY <2>1, <2>2 DEF ClockInv
<1> QED
  BY <1>1, <1>2, <1>3 DEF SplitInv

\* ... and every step keeps it.
LEMMA NextSplitInv ==
  ASSUME SplitInv, [Next]_vars
  PROVE  SplitInv'
<1>1. CASE UNCHANGED vars
  <2>1. TypeOK' /\ CountersOK'
    BY <1>1 DEF SplitInv, SchedInv, TypeOK, CountersOK, vars, schedVars
  <2>2. SlotCapacity' /\ OnePlace'
    BY <1>1, QueuesUnchanged DEF SplitInv, SchedInv, vars, schedVars
  <2>3. SchedInv' /\ SplitTypeOK'
    BY <1>1, <2>1, <2>2 DEF SplitInv, SchedInv, SplitTypeOK, vars, schedVars, splitVars
  <2>4. ClockInv'
    BY <1>1 DEF SplitInv, ClockInv, vars, schedVars, splitVars, Running, Waiting, IsSum
  <2> QED
    BY <2>3, <2>4 DEF SplitInv
<1> QED
  BY <1>1, SeedInv, PlanIterationInv, IdleSplitInv, RunGenInv, RunSumInv, HitSplitInv,
     RefillSplitInv DEF Next

\* The invariant holds throughout the disaggregated loop.
THEOREM SplitInvariant == Spec => []SplitInv
BY InitSplitInv, NextSplitInv, PTL DEF Spec

\* Type correctness.
THEOREM SplitTypes == Spec => []SplitTypeOK
<1>1. SplitInv => SplitTypeOK
  BY DEF SplitInv
<1> QED
  BY <1>1, SplitInvariant, PTL

\* No replica ever holds more sequences than it has slots, and a live sequence
\* is in one place only.
THEOREM SplitQueues == Spec => [](SlotCapacity /\ OnePlace)
<1>1. SplitInv => SlotCapacity /\ OnePlace
  BY DEF SplitInv, SchedInv
<1> QED
  BY <1>1, SplitInvariant, PTL

\* No step of either machine goes past the end of a prompt or of a sequence.
THEOREM SplitLandsOnBoundaries == Spec => []LandsOnBoundaries
<1>1. SplitInv => LandsOnBoundaries
  BY InvLands DEF SplitInv
<1> QED
  BY <1>1, SplitInvariant, PTL

\* The gen machine gives a sequence a token only once total_time has reached
\* the end of its prefill on the sum machine.
THEOREM SplitDecodeAfterPrefill == Spec => []DecodeAfterPrefill
<1>1. SplitInv => DecodeAfterPrefill
  <2> SUFFICES ASSUME SplitInv, NEW s \in Running, ~ IsSum(s),
                      seq[s].num_process_token > 0
               PROVE  prefill_ahead[s] = 0
    BY DEF DecodeAfterPrefill
  <2>1. s \in Seqs
    BY DEF SplitInv, SchedInv, TypeOK, Running
  <2>2. prefill_ahead[s] \in Nat
    BY <2>1 DEF SplitInv, SplitTypeOK
  <2>3. prefill_ahead[s] <= seq[s].gen_ahead /\ seq[s].gen_ahead = 0
    BY <2>1 DEF SplitInv, ClockInv
  <2> QED
    BY <2>2, <2>3
<1> QED
  BY <1>1, SplitInvariant, PTL

-----------------------------------------------------------------------------
(* What an iteration of the sum machine leaves alone *)

\* An iteration of the sum machine moves prompts only.
THEOREM SplitSumMachineOnlyPrefills == Spec => SumMachineOnlyPrefills
<1> DEFINE A == HasSumSeq /\ pc = "run" =>
                  \A s \in Running : ~ IsSum(s) => seq'[s] = seq[s]
<1>1. ASSUME SplitInv, [Next]_vars PROVE A
  <2> SUFFICES ASSUME HasSumSeq, pc = "run", NEW s \in Running, ~ IsSum(s)
               PROVE  seq'[s] = seq[s]
    OBVIOUS
  <2>1. s \in Seqs
    BY <1>1 DEF SplitInv, SchedInv, TypeOK, Running
  <2>2. CASE \E t \in IterTimes : RunSum(t)
    BY <2>1, <2>2 DEF RunSum, InPrefill
  <2>3. CASE RunIdle \/ UNCHANGED vars
    BY <2>3 DEF RunIdle, vars, schedVars
  <2>4. ASSUME NEW t \in IterTimes PROVE ~ RunGen(t)
    BY DEF RunGen
  <2>5. ~ SeedSteadyStateBatch /\ ~ PlanIteration /\ ~ HitUpdate /\ ~ Refill
    BY DEF SeedSteadyStateBatch, PlanIteration, SetMetadata, HitUpdate, Refill,
           FillSequenceQueue, PushSeq, FillRunningQueue, Admit, EndAdmit
  <2> QED
    BY <1>1, <2>2, <2>3, <2>4, <2>5 DEF Next
<1>2. SplitInv /\ [Next]_vars => [A]_vars
  BY <1>1
<1> QED
  BY <1>2, SplitInvariant, PTL DEF Spec, SumMachineOnlyPrefills

-----------------------------------------------------------------------------
(* The count of the seeded sequences *)

\* The seeded sequences that are left run, past their prompts, and are counted.
TurnoverInv ==
  seeded =>
    /\ warm = 0
    /\ turnover \subseteq Running
    /\ \A s \in turnover : ~ IsSum(s)
    /\ seeded_remaining = Cardinality(turnover)

\* The sequences a gen iteration removes are those that depart.
LEMMA GenRemovesDeparted ==
  ASSUME NEW t \in IterTimes, RunGen(t)
  PROVE  Running' = Running \ Departed
<1>1. \A d \in Dp : running_queue'[d]
                      = {s \in running_queue[d] : s \in Running => ~ Done(Updated(seq[s]))}
  BY DEF RunGen, Pop
<1> QED
  BY <1>1 DEF Running, Departed

\* A gen iteration lowers the counter by the seeded sequences that leave, also
\* when several leave at once or with sequences that were never seeded.
LEMMA RunGenTurnover ==
  ASSUME SplitInv, TurnoverInv, NEW t \in IterTimes, RunGen(t)
  PROVE  TurnoverInv'
<1> SUFFICES ASSUME seeded PROVE TurnoverInv'
  BY DEF RunGen, TurnoverInv
<1>1. /\ seeded' /\ warm' = warm /\ turnover' = turnover \ Departed
      /\ seeded_remaining' = seeded_remaining - Cardinality(turnover \cap Departed)
  BY DEF RunGen, SeededDepartures
<1>2. /\ warm = 0 /\ turnover \subseteq Running /\ seeded_remaining = Cardinality(turnover)
      /\ \A s \in turnover : ~ IsSum(s)
      /\ turnover \in SUBSET Seqs
  BY DEF TurnoverInv, SplitInv, SplitTypeOK
<1>3. turnover' \subseteq Running'
  BY <1>1, <1>2, GenRemovesDeparted
<1>4. ASSUME NEW s \in turnover' PROVE (~ IsSum(s))'
  <2>1. s \in Seqs /\ s \in Running /\ ~ IsSum(s)
    BY <1>1, <1>2
  <2>2. seq[s] \in Sequence /\ Bounded(seq[s])
    BY <2>1 DEF SplitInv, SchedInv, TypeOK
  <2>3. PICK g \in Nat : seq'[s] = AddLatency(Advanced(seq[s]), g)
    <3>1. seq[s].gen_ahead \in Nat
      BY <2>2 DEF Sequence
    <3>2. (IF Reported(seq[s]) THEN 0 ELSE Closer(seq[s].gen_ahead, t)) \in Nat
      BY <3>1, CloserNat
    <3> QED
      BY <2>1, <3>2 DEF RunGen
  <2>4. /\ seq'[s].current_len = seq[s].current_len + seq[s].num_process_token
        /\ seq'[s].input_len = seq[s].input_len
    BY <2>2, <2>3, AdvancedBounded, AddLatencyFields
  <2> QED
    BY <2>1, <2>2, <2>4 DEF IsSum, Sequence
<1>5. Cardinality(turnover \ Departed)
        = Cardinality(turnover) - Cardinality(turnover \cap Departed)
  BY <1>2, SubsetCardinality, FS_Difference
<1> QED
  BY <1>1, <1>2, <1>3, <1>4, <1>5 DEF TurnoverInv

\* A sum iteration moves none of the seeded sequences.
LEMMA RunSumTurnover ==
  ASSUME SplitInv, TurnoverInv, NEW t \in IterTimes, RunSum(t)
  PROVE  TurnoverInv'
<1> SUFFICES ASSUME seeded PROVE TurnoverInv'
  BY DEF RunSum, TurnoverInv
<1>1. UNCHANGED <<warm, seeded, turnover, seeded_remaining>>
  BY DEF RunSum
<1>2. ASSUME NEW s \in turnover PROVE s \in Running' /\ (~ IsSum(s))'
  <2>1. s \in Seqs /\ s \in Running /\ s \notin InPrefill
    BY DEF TurnoverInv, SplitInv, SplitTypeOK, InPrefill
  <2>2. seq'[s] = seq[s]
    BY <2>1 DEF RunSum
  <2>3. s \in Running'
    BY <2>1 DEF RunSum, Pop, Running
  <2> QED
    BY <2>2, <2>3 DEF TurnoverInv, IsSum
<1> QED
  BY <1>1, <1>2 DEF TurnoverInv

\* Every sequence is seeded past its prompt.
LEMMA SeedTurnover ==
  ASSUME SplitInv, SeedSteadyStateBatch
  PROVE  TurnoverInv'
<1>1. /\ turnover' = Running /\ Running' = Running
      /\ seeded_remaining' = Cardinality(Running) /\ warm' = 0
  BY DEF SeedSteadyStateBatch, Running
<1>2. ASSUME NEW s \in Running PROVE (~ IsSum(s))'
  <2>1. PICK order \in Rankings(Running) :
          seq' = [u \in Seqs |-> IF u \in Running THEN Seeded(u, order) ELSE seq[u]]
    BY DEF SeedSteadyStateBatch
  <2>2. s \in Seqs
    BY DEF SplitInv, SchedInv, TypeOK, Running
  <2>3. Bounded(seq[s]) /\ seq[s].num_process_token = 0 /\ TypeOK
    BY <2>2 DEF SplitInv, SchedInv, ClockInv, SeedSteadyStateBatch
  <2> QED
    BY <2>1, <2>2, <2>3, SeededBounded DEF IsSum
<1> QED
  BY <1>1, <1>2 DEF TurnoverInv

\* A step that keeps the running sequences as they are keeps the count.
LEMMA KeptTurnover ==
  ASSUME TurnoverInv, UNCHANGED <<seeded, turnover, seeded_remaining>>,
         warm' = warm,
         \A s \in Running : /\ s \in Running'
                            /\ seq'[s].current_len = seq[s].current_len
                            /\ seq'[s].input_len = seq[s].input_len
  PROVE  TurnoverInv'
BY DEF TurnoverInv, IsSum

\* Planning, idling and the refill keep the count; there is no warm-up any more.
LEMMA OthersTurnover ==
  ASSUME SplitInv, TurnoverInv,
         PlanIteration \/ RunIdle \/ UNCHANGED vars
           \/ ((HitUpdate \/ Refill) /\ ForgetDeparted)
  PROVE  TurnoverInv'
<1>1. CASE PlanIteration
  <2>1. ASSUME NEW s \in Running
        PROVE  /\ seq'[s].current_len = seq[s].current_len
               /\ seq'[s].input_len = seq[s].input_len
    <3>1. seq[s] \in Sequence /\ s \in Seqs
      BY DEF SplitInv, SchedInv, TypeOK, Running
    <3>2. seq'[s] = [seq[s] EXCEPT !.num_process_token = TokensToProcess(s)]
      BY <1>1, <3>1 DEF PlanIteration, SetMetadata
    <3> QED
      BY <3>1, <3>2 DEF Sequence
  <2>2. Running' = Running /\ UNCHANGED <<seeded, turnover, seeded_remaining, warm>>
    BY <1>1 DEF PlanIteration, SetMetadata, splitVars, Running
  <2> QED
    BY <2>1, <2>2, KeptTurnover
<1>2. CASE RunIdle \/ UNCHANGED vars
  BY <1>2, KeptTurnover DEF RunIdle, vars, schedVars, splitVars, Running
<1>3. CASE HitUpdate /\ ForgetDeparted
  <2>1. warm > 0
    BY <1>3 DEF HitUpdate, SplitInv, SchedInv, CountersOK
  <2>2. ~ seeded
    BY <2>1 DEF TurnoverInv
  <2> QED
    BY <1>3, <2>2 DEF TurnoverInv, ForgetDeparted
<1>4. CASE Refill /\ ForgetDeparted
  <2>1. \A s \in Running : s \in Running' /\ seq'[s] = seq[s]
    BY <1>4, RefillKeepsRunning DEF SplitInv
  <2>2. warm' = warm
    BY <1>4 DEF Refill, FillSequenceQueue, PushSeq, FillRunningQueue, Admit, EndAdmit
  <2> QED
    BY <1>4, <2>1, <2>2, KeptTurnover DEF ForgetDeparted
<1> QED
  BY <1>1, <1>2, <1>3, <1>4

\* seeded_remaining counts the seeded sequences that still hold a slot, however
\* their ends coincide and whatever arrives meanwhile.
THEOREM SplitSeededRemaining == Spec => []SeededRemainingCounts
<1>1. Init => TurnoverInv
  BY DEF Init, TurnoverInv
<1>2. ASSUME SplitInv, TurnoverInv, [Next]_vars PROVE TurnoverInv'
  <2>1. CASE SeedSteadyStateBatch
    BY <1>2, <2>1, SeedTurnover
  <2>2. CASE \E t \in IterTimes : RunGen(t) \/ RunSum(t)
    BY <1>2, <2>2, RunGenTurnover, RunSumTurnover
  <2>3. CASE PlanIteration \/ RunIdle \/ UNCHANGED vars
               \/ ((HitUpdate \/ Refill) /\ ForgetDeparted)
    BY <1>2, <2>3, OthersTurnover
  <2> QED
    BY <1>2, <2>1, <2>2, <2>3 DEF Next
<1>3. ASSUME TurnoverInv PROVE SeededRemainingCounts
  <2> SUFFICES ASSUME seeded PROVE seeded_remaining = Cardinality(turnover \cap Running)
    BY DEF SeededRemainingCounts
  <2>1. turnover \cap Running = turnover
    BY <1>3 DEF TurnoverInv
  <2> QED
    BY <1>3, <2>1 DEF TurnoverInv
<1> QED
  BY <1>1, <1>2, <1>3, SplitInvariant, PTL DEF Spec

-----------------------------------------------------------------------------
(* Continuous batching *)

\* No sequence that holds or awaits a slot is finished, and the sequences of a
\* steady state, which knows no warm-up, have not moved before they are seeded.
SplitWork ==
  /\ LiveUnfinished
  /\ SteadyState => warm = 0 /\ (~ seeded => AtPromptEnd)

\* The gen machine moves every running sequence by its tokens ...
LEMMA GenMoves ==
  ASSUME SplitInv, NEW t \in IterTimes, RunGen(t)
  PROVE  /\ \A s \in Running :
              /\ seq'[s].current_len = seq[s].current_len + seq[s].num_process_token
              /\ seq'[s].total_len = seq[s].total_len
         /\ \A s \in Seqs \ Running : seq'[s] = seq[s]
         /\ Pop(Running) /\ UNCHANGED sequence_queue
<1>1. ASSUME NEW s \in Running
      PROVE  /\ seq'[s].current_len = seq[s].current_len + seq[s].num_process_token
             /\ seq'[s].total_len = seq[s].total_len
  <2>1. s \in Seqs /\ seq[s] \in Sequence /\ Bounded(seq[s])
    BY DEF SplitInv, SchedInv, TypeOK, Running
  <2>2. PICK g \in Nat : seq'[s] = AddLatency(Advanced(seq[s]), g)
    <3>1. seq[s].gen_ahead \in Nat
      BY <2>1 DEF Sequence
    <3>2. (IF Reported(seq[s]) THEN 0 ELSE Closer(seq[s].gen_ahead, t)) \in Nat
      BY <3>1, CloserNat
    <3> QED
      BY <2>1, <3>2 DEF RunGen
  <2> QED
    BY <2>1, <2>2, AdvancedBounded, AddLatencyFields
<1> QED
  BY <1>1 DEF RunGen

\* ... and the sum machine the prompts.
LEMMA SumMoves ==
  ASSUME SplitInv, NEW t \in IterTimes, RunSum(t)
  PROVE  /\ \A s \in InPrefill :
              /\ seq'[s].current_len = seq[s].current_len + seq[s].num_process_token
              /\ seq'[s].total_len = seq[s].total_len
         /\ \A s \in Seqs \ InPrefill : seq'[s] = seq[s]
         /\ Pop(InPrefill) /\ UNCHANGED sequence_queue
<1>1. ASSUME NEW s \in InPrefill
      PROVE  /\ seq'[s].current_len = seq[s].current_len + seq[s].num_process_token
             /\ seq'[s].total_len = seq[s].total_len
  <2>1. s \in Seqs /\ seq[s] \in Sequence /\ Bounded(seq[s])
    BY DEF SplitInv, SchedInv, TypeOK, Running, InPrefill
  <2>2. PICK g \in Nat : seq'[s] = AddLatency(Advanced(seq[s]), g)
    <3>1. SumGenStart(seq[s], t) \in Nat
      BY SplitAssumption DEF SumGenStart, SplitInv, SplitTypeOK
    <3> QED
      BY <2>1, <3>1 DEF RunSum
  <2> QED
    BY <2>1, <2>2, AdvancedBounded, AddLatencyFields
<1> QED
  BY <1>1 DEF RunSum

\* Seeding gives a sequence less than its output.
LEMMA SeedLeaves ==
  ASSUME SplitInv, SplitWork, SeedSteadyStateBatch, NEW s \in Running
  PROVE  /\ seq'[s].total_len = seq[s].total_len
         /\ seq'[s].current_len \in seq[s].current_len .. seq[s].total_len - 1
<1> DEFINE B == running_queue[RankOf(s)]
<1>1. PICK order \in Rankings(Running) :
        seq' = [u \in Seqs |-> IF u \in Running THEN Seeded(u, order) ELSE seq[u]]
  BY DEF SeedSteadyStateBatch
<1>2. s \in Seqs /\ s \in B /\ B \in SUBSET Seqs /\ B \subseteq Running
  BY RankOfRunning DEF SplitInv, SchedInv, Running, TypeOK
<1> DEFINE before == {u \in B : order[u] < order[s]}
           i == Cardinality(before)
           n == Cardinality(B)
<1>3. i \in Nat /\ n \in Nat /\ i < n
  <2>1. s \notin before
    <3>1. order[s] \in Int
      BY DEF Rankings
    <3> QED
      BY <3>1
  <2>2. n \in Nat /\ IsFiniteSet(B) /\ i \in Nat /\ before \subseteq B \ {s}
    BY <1>2, <2>1, SubsetCardinality
  <2>3. /\ Cardinality(B \ {s}) = n - 1 /\ IsFiniteSet(B \ {s})
    BY <1>2, <2>2, FS_RemoveElement
  <2> HIDE DEF before
  <2>4. i <= Cardinality(B \ {s})
    BY <2>2, <2>3, FS_Subset
  <2> HIDE DEF B
  <2> QED
    BY <2>2, <2>3, <2>4
<1>4. Seeded(s, order) = [seq[s] EXCEPT !.current_len = seq[s].input_len + Generated(seq[s], i, n)]
  BY DEF Seeded
<1> HIDE DEF i, n
<1>5. /\ seq[s] \in Sequence /\ seq[s].current_len = seq[s].input_len
      /\ seq[s].current_len < seq[s].total_len
  BY <1>2 DEF SplitInv, SchedInv, TypeOK, SplitWork, LiveUnfinished, AtPromptEnd,
       SeedSteadyStateBatch
<1> DEFINE g == Generated(seq[s], i, n)
<1>6. g \in 0 .. seq[s].total_len - seq[s].input_len - 1
  BY <1>3, <1>5, GeneratedBelow
<1>7. seq'[s] = [seq[s] EXCEPT !.current_len = seq[s].input_len + g]
  BY <1>1, <1>2, <1>4
<1> HIDE DEF g
<1>8. seq'[s].current_len = seq[s].input_len + g /\ seq'[s].total_len = seq[s].total_len
  BY <1>5, <1>7 DEF Sequence
<1> QED
  BY <1>5, <1>6, <1>8 DEF Sequence

\* No machine leaves a finished sequence in a slot.
LEMMA SplitWorkKept ==
  ASSUME HasWork, SplitInv, SplitWork, [Next]_vars
  PROVE  SplitWork'
<1>1. SchedInv /\ TypeOK /\ LiveUnfinished /\ \A s \in Running \cup Waiting : s \in Seqs
  BY DEF SplitInv, SchedInv, TypeOK, Running, Waiting, SplitWork
<1>2. CASE Refill /\ ForgetDeparted
  <2>1. UNCHANGED <<warm, seeded>>
    BY <1>2 DEF ForgetDeparted, Refill, FillSequenceQueue, PushSeq, FillRunningQueue, Admit,
       EndAdmit
  <2> QED
    BY <1>1, <1>2, <2>1, RefillKeepsUnfinished, RefillKeepsPromptEnd, SplitAssumption
       DEF SplitWork
<1>3. CASE HitUpdate /\ ForgetDeparted
  <2>1. warm > 0 /\ ~ SteadyState
    BY <1>1, <1>3 DEF HitUpdate, SchedInv, CountersOK, SplitWork, TypeOK
  <2>2. LiveUnfinished'
    BY <1>1, <1>3, HitMoves, UpdateKeepsUnfinished
  <2> QED
    BY <2>1, <2>2 DEF SplitWork
<1>4. CASE SeedSteadyStateBatch
  <2>1. /\ Running' = Running /\ Waiting' = Waiting /\ warm' = warm /\ seeded' = TRUE
        /\ \A s \in Seqs \ Running : seq'[s] = seq[s]
    BY <1>4 DEF SeedSteadyStateBatch, Running, Waiting
  <2>2. ASSUME NEW s \in Running \cup Waiting
        PROVE  seq'[s].current_len < seq'[s].total_len
    <3>1. CASE s \in Running
      <4>1. seq[s] \in Sequence
        BY <1>1 DEF TypeOK
      <4> QED
        BY <1>4, <3>1, <4>1, SeedLeaves DEF Sequence
    <3>2. CASE s \notin Running
      BY <1>1, <2>1, <3>2 DEF LiveUnfinished
    <3> QED
      BY <3>1, <3>2
  <2> QED
    BY <2>1, <2>2 DEF SplitWork, LiveUnfinished
<1>5. CASE \E t \in IterTimes : RunGen(t) \/ RunSum(t)
  <2>1. PICK t \in IterTimes : RunGen(t) \/ RunSum(t)
    BY <1>5
  <2>2. UNCHANGED <<warm, seeded>> /\ (SteadyState => seeded)
    BY <2>1 DEF RunGen, RunSum, SplitInv, ClockInv
  <2>3. InPrefill \subseteq Running
    BY DEF InPrefill
  <2>4. LiveUnfinished'
    <3>1. CASE RunGen(t)
      BY <1>1, <3>1, GenMoves, UpdateKeepsUnfinished
    <3>2. CASE RunSum(t)
      BY <1>1, <2>3, <3>2, SumMoves, UpdateKeepsUnfinished
    <3> QED
      BY <2>1, <3>1, <3>2
  <2> QED
    BY <2>2, <2>4 DEF SplitWork
<1>6. CASE PlanIteration
  <2>1. UNCHANGED <<sequence_queue, running_queue, warm, seeded>> /\ SetMetadata
    BY <1>6 DEF PlanIteration, SetMetadata, splitVars
  <2> QED
    BY <1>1, <2>1, PlanLengths, SameLengths DEF SplitWork
<1>7. CASE RunIdle \/ UNCHANGED vars
  <2>1. UNCHANGED <<sequence_queue, running_queue, seq, warm, seeded>>
    BY <1>7 DEF RunIdle, vars, schedVars, splitVars
  <2> QED
    BY <2>1, SameLengths DEF SplitWork
<1> QED
  BY <1>2, <1>3, <1>4, <1>5, <1>6, <1>7 DEF Next

\* Every step of the loop is a step of continuous batching or is not seen there.
LEMMA SplitStep ==
  ASSUME SplitInv, SplitWork, [Next]_vars
  PROVE  [CB!Next]_CB!vars
<1>1. SchedInv /\ TypeOK
  BY DEF SplitInv, SchedInv
<1>2. CASE HitUpdate
  BY <1>1, <1>2, HitMoves, BatchingProgress DEF CB!Next
<1>3. CASE SeedSteadyStateBatch
  <2>1. /\ UNCHANGED <<sequence_queue, running_queue>>
        /\ \A s \in Seqs \ Running : Left(s)' = Left(s)
    BY <1>3 DEF SeedSteadyStateBatch, Left
  <2>2. ASSUME NEW s \in Running PROVE Left(s)' \in 1 .. Left(s)
    <3>1. seq[s] \in Sequence
      BY <1>1 DEF TypeOK, Running
    <3> QED
      BY <1>3, <3>1, SeedLeaves DEF Left, Sequence
  <2> QED
    BY <1>1, <2>1, <2>2, BatchingSeed DEF CB!Next
<1>4. ASSUME NEW t \in IterTimes, RunGen(t) PROVE CB!Progress
  BY <1>1, <1>4, GenMoves, BatchingProgress
<1>5. ASSUME NEW t \in IterTimes, RunSum(t) PROVE CB!Progress
  <2>1. InPrefill \in SUBSET Running
    BY DEF InPrefill
  <2>2. ASSUME NEW s \in Running PROVE ~ Done(seq[s])
    <3>1. seq[s] \in Sequence
      BY <1>1 DEF TypeOK, Running
    <3> QED
      BY <3>1 DEF SplitWork, LiveUnfinished, Done, Sequence
  <2> QED
    BY <1>1, <1>5, <2>1, <2>2, SumMoves, BatchingProgress
<1>6. CASE RunIdle \/ UNCHANGED vars
  <2>1. UNCHANGED <<sequence_queue, running_queue, seq>>
    BY <1>6 DEF RunIdle, vars, schedVars
  <2> QED
    BY <2>1, BatchingStutter DEF Left
<1> QED
  BY <1>1, <1>2, <1>3, <1>4, <1>5, <1>6, BatchingPlan, BatchingRefill
     DEF Next, PlanIteration, CB!Next

\* The two machines of the disaggregated loop implement continuous batching, if
\* every sequence comes with work: an iteration of the sum machine removes only
\* what it moves, and would pass over a sequence that never had a token to get.
THEOREM SplitImplementsBatching == HasWork => (Spec => ImplementsBatching)
<1> SUFFICES ASSUME HasWork PROVE Spec => ImplementsBatching
  OBVIOUS
<1>1. Init => CB!Init
  BY BatchingInit DEF Init
<1>2. Init => SplitWork
  <2> SUFFICES ASSUME Init PROVE SplitWork
    OBVIOUS
  <2>1. Running = {} /\ Waiting = {} /\ warm = HittingIters
    BY DEF Init, SchedInit, Running, Waiting
  <2> QED
    BY <2>1, SplitAssumption DEF SplitWork, LiveUnfinished, AtPromptEnd
<1>3. SplitInv /\ SplitWork /\ [Next]_vars => SplitWork'
  BY SplitWorkKept
<1>4. SplitInv /\ SplitWork /\ [Next]_vars => [CB!Next]_CB!vars
  BY SplitStep
<1> QED
  BY <1>1, <1>2, <1>3, <1>4, SplitInvariant, PTL DEF Spec, ImplementsBatching, CB!Spec

-----------------------------------------------------------------------------
(* The sizing: what a row of the wear states *)

allVars == <<memoryVars, wearVars>>

\* What was written since the first decode row is the difference to the
\* baseline taken there.
WearInv ==
  /\ written \in [WearDevices -> Nat]
  /\ since \in [WearDevices -> Nat]
  /\ time \in Nat /\ startTime \in Nat
  /\ started \in BOOLEAN
  /\ started => /\ baseline \in [WearDevices -> Nat]
                /\ \A d \in WearDevices : since[d] = written[d] - baseline[d]
  /\ ~ started => since = None

-----------------------------------------------------------------------------
(* The largest of a set *)

\* Max finds the largest element of a finite set, and 0 changes nothing.
LEMMA MaxWithZero ==
  ASSUME NEW S \in SUBSET Nat, IsFiniteSet(S), S # {}
  PROVE  Max({0} \union S) = Max(S)
<1>1. PICK x \in S : \A y \in S : x >= y
  BY LargestElement
<1>2. \A z \in S : (\A y \in S : z >= y) => z = x
  BY <1>1
<1>3. Max(S) = x
  BY <1>1, <1>2 DEF Max
<1>4. x \in {0} \union S /\ \A y \in {0} \union S : x >= y
  BY <1>1
<1>5. \A z \in {0} \union S : (\A y \in {0} \union S : z >= y) => z = x
  BY <1>1, <1>4
<1>6. Max({0} \union S) = x
  BY <1>4, <1>5 DEF Max
<1> QED
  BY <1>3, <1>6

\* The values of a counter of the devices.
LEMMA WearValues ==
  ASSUME NEW f \in [WearDevices -> Nat]
  PROVE  /\ Range(f) = {f[d] : d \in WearDevices}
         /\ Range(f) \in SUBSET Nat
         /\ IsFiniteSet(Range(f)) /\ Range(f) # {}
<1>1. Range(f) = {f[d] : d \in WearDevices} /\ Range(f) \in SUBSET Nat
  BY DEF Range
<1>2. f \in Surjection(WearDevices, Range(f))
  BY <1>1 DEF Surjection
<1>3. IsFiniteSet(Range(f))
  BY <1>2, WearAssumption, FS_Surjection
<1> QED
  BY <1>1, <1>3, WearAssumption

-----------------------------------------------------------------------------
(* The invariant *)

LEMMA InitWearInv == SizingInit => WearInv
<1> SUFFICES ASSUME SizingInit PROVE WearInv
  OBVIOUS
<1>1. started = FALSE
  BY DEF SizingInit, WearInit
<1>2. written = None /\ since = None /\ time = 0 /\ startTime = 0
  BY DEF SizingInit, WearInit
<1> QED
  BY <1>1, <1>2 DEF WearInv, None

\* A new run forgets the old baseline.
LEMMA ResetWearInv ==
  ASSUME WearInv, ResetPEC
  PROVE  WearInv'
BY DEF WearInv, ResetPEC, None

\* A pass adds as much to what was written since as to what was written.
LEMMA PassWearInv ==
  ASSUME WearInv, WritePass
  PROVE  WearInv'
<1>1. PICK bytes \in [WearDevices -> WriteSizes] :
        /\ written' = [d \in WearDevices |-> written[d] + bytes[d]]
        /\ since' = IF started THEN [d \in WearDevices |-> since[d] + bytes[d]] ELSE since
  BY DEF WritePass
<1>2. \A d \in WearDevices : bytes[d] \in Nat
  BY WearAssumption
<1>3. time' = time + 1 /\ UNCHANGED <<started, startTime, baseline>>
  BY DEF WritePass
<1>4. /\ written' \in [WearDevices -> Nat] /\ since' \in [WearDevices -> Nat]
      /\ time' \in Nat /\ startTime' \in Nat /\ started' \in BOOLEAN
  BY <1>1, <1>2, <1>3 DEF WearInv
<1>5. started => \A d \in WearDevices : since'[d] = written'[d] - baseline[d]
  BY <1>1, <1>2 DEF WearInv
<1> QED
  BY <1>1, <1>3, <1>4, <1>5 DEF WearInv

\* A row takes the baseline or leaves everything as it is.
LEMMA RowWearInv ==
  ASSUME WearInv, NEW type, NEW hbf, Row(type, hbf)
  PROVE  WearInv'
<1>1. CASE FirstDecodeRow
  <2>1. /\ ~ started /\ started' = TRUE /\ startTime' = time /\ baseline' = written
        /\ UNCHANGED <<written, time, since>> /\ since = None
    BY <1>1 DEF FirstDecodeRow, WearInv
  <2>2. \A d \in WearDevices : since[d] = written[d] - written[d]
    BY <2>1 DEF WearInv, None
  <2> QED
    BY <2>1, <2>2 DEF WearInv
<1>2. CASE LaterDecodeRow \/ OtherRow
  BY <1>2 DEF LaterDecodeRow, OtherRow, WearInv, None
<1> QED
  BY <1>1, <1>2 DEF Row

LEMMA NextWearInv ==
  ASSUME WearInv, [SizingNext]_allVars
  PROVE  WearInv'
<1>1. CASE UNCHANGED wearVars
  BY <1>1 DEF wearVars, WearInv, None
<1>2. CASE RunIteration
  BY <1>2, ResetWearInv DEF RunIteration
<1>3. CASE Iterate
  BY <1>3, PassWearInv, RowWearInv DEF Iterate, WearNext
<1> QED
  BY <1>1, <1>2, <1>3 DEF SizingNext, CheckMemorySize, allVars

-----------------------------------------------------------------------------
(* The theorem *)

\* A decode row states the wear of the device that wrote most since the first
\* decode row of the run, over the time since then.
THEOREM RowStatesWorstDevice == SizingSpec => RowOfWorstDevice
<1> DEFINE Stated ==
      pec' # pec /\ pec' # Zero =>
        /\ started
        /\ pec'.bytes = Max(Range(since))
        /\ pec'.elapsed = time - startTime
<1>1. ASSUME WearInv, [SizingNext]_allVars PROVE Stated
  <2> SUFFICES ASSUME pec' # pec, pec' # Zero
               PROVE  /\ started
                      /\ pec'.bytes = Max(Range(since))
                      /\ pec'.elapsed = time - startTime
    OBVIOUS
  <2>1. LaterDecodeRow
    BY <1>1 DEF SizingNext, CheckMemorySize, RunIteration, Iterate, WearNext, WritePass, Row,
         ResetPEC, FirstDecodeRow, OtherRow, allVars, wearVars
  <2>2. started /\ pec' = ThreeYearPEC
    BY <2>1 DEF LaterDecodeRow
  <2>3. pec' = [bytes |-> Max({0} \union {written[d] - baseline[d] : d \in WearDevices}),
                elapsed |-> time - startTime]
    BY <2>2 DEF ThreeYearPEC
  <2>4. {written[d] - baseline[d] : d \in WearDevices} = Range(since)
    <3>1. Range(since) = {since[d] : d \in WearDevices}
      BY <1>1, WearValues DEF WearInv
    <3> QED
      BY <1>1, <2>2, <3>1 DEF WearInv
  <2>5. Max({0} \union Range(since)) = Max(Range(since))
    BY <1>1, WearValues, MaxWithZero DEF WearInv
  <2> QED
    BY <2>2, <2>3, <2>4, <2>5
<1>2. WearInv /\ [SizingNext]_allVars => [Stated]_wearVars
  BY <1>1
<1>3. [][Stated]_wearVars => RowOfWorstDevice
  BY DEF RowOfWorstDevice
<1>4. SizingSpec => SizingInit /\ [][SizingNext]_allVars
  BY DEF SizingSpec, allVars
<1> QED
  BY <1>2, <1>3, <1>4, InitWearInv, NextWearInv, PTL

-----------------------------------------------------------------------------
(* The configuration *)

\* What is asked of a configuration and of the order of its stages, which
\* never change.
MemoryInv == c \in Configurations /\ priority \in Priorities(c.pp)

\* The layers that are left over, and the stages that take one of them.
Remainder == c.layers % c.pp
Extra == {priority[i] : i \in 1 .. Remainder}

LEMMA StageStartIsSum ==
  ASSUME NEW s \in Nat
  PROVE  AddsUpTo(StageStart(s), [x \in Nat |-> LayerCount(x)], 0 .. s - 1)
<1> DEFINE S == 0 .. s - 1
           f == [x \in Nat |-> LayerCount(x)]
           F(g) == g = [t \in SUBSET S |->
             IF t = {} THEN 0
             ELSE LayerCount(CHOOSE x \in t : TRUE) + g[t \ {CHOOSE x \in t : TRUE}]]
           iter == CHOOSE g : F(g)
<1>1. StageStart(s) = iter[S]
  BY DEF StageStart, MapThenSumSet, MapThenFoldSet
<1>2. ASSUME NEW g PROVE SumsUp(g, f, S) <=> F(g)
  <2>1. ASSUME NEW t \in SUBSET S, t # {}
        PROVE  f[CHOOSE x \in t : TRUE] = LayerCount(CHOOSE x \in t : TRUE)
    <3>1. (CHOOSE x \in t : TRUE) \in t
      BY <2>1
    <3>2. t \subseteq Nat
      OBVIOUS
    <3> QED
      BY <3>1, <3>2
  <2> HIDE DEF f, S
  <2> QED
    BY <2>1 DEF SumsUp
<1>3. \E g : SumsUp(g, f, S)
  <2>1. IsFiniteSet(S)
    BY FS_Interval
  <2> HIDE DEF f, S
  <2> QED
    BY <2>1, SumExists
<1> HIDE DEF F, f, S
<1>4. F(iter)
  <2>1. \E g : F(g)
    BY <1>2, <1>3
  <2> QED
    BY <2>1
<1>5. SumsUp(iter, f, S)
  BY <1>2, <1>4
<1> QED
  BY <1>1, <1>5 DEF AddsUpTo, f, S

-----------------------------------------------------------------------------
(* Layers of the stages *)

\* A stage has the whole part of the layers, or one more.
LEMMA LayerCounts ==
  ASSUME MemoryInv
  PROVE  /\ c.pp \in Nat \ {0} /\ c.layers \in Nat
         /\ c.layers \div c.pp \in Nat \ {0} /\ Remainder \in 0 .. c.pp - 1
         /\ c.layers = (c.layers \div c.pp) * c.pp + Remainder
         /\ \A s : LayerCount(s) =
              (c.layers \div c.pp) + (IF s \in Extra THEN 1 ELSE 0)
         /\ \A s : LayerCount(s) \in Nat \ {0}
<1>1. c.pp \in Nat \ {0} /\ c.layers \in Nat \ {0} /\ c.layers >= c.pp
  BY MemoryAssumption DEF MemoryInv, Configuration
<1>2. /\ c.layers \div c.pp \in Nat /\ c.layers % c.pp \in 0 .. c.pp - 1
      /\ c.layers = (c.layers \div c.pp) * c.pp + (c.layers % c.pp)
  BY <1>1, Division
<1>3. c.layers \div c.pp # 0
  BY <1>1, <1>2
<1>4. \A s : LayerCount(s) = (c.layers \div c.pp) + (IF s \in Extra THEN 1 ELSE 0)
  BY DEF LayerCount, Extra, Remainder
<1>5. \A s : LayerCount(s) \in Nat \ {0}
  BY <1>2, <1>3, <1>4
<1> QED
  BY <1>1, <1>2, <1>3, <1>4, <1>5 DEF Remainder

\* A stage begins where the one before it ends.
LEMMA StageStarts ==
  ASSUME MemoryInv
  PROVE  /\ StageStart(0) = 0
         /\ \A s \in Nat : StageStart(s) \in Int
                           /\ StageStart(s + 1) = StageStart(s) + LayerCount(s)
<1>1. StageStart(0) = 0
  <2>1. 0 .. 0 - 1 = {}
    OBVIOUS
  <2> QED
    BY <2>1, StageStartIsSum, SumOfNone
<1>2. ASSUME NEW s \in Nat
      PROVE  StageStart(s) \in Int /\ StageStart(s + 1) = StageStart(s) + LayerCount(s)
  <2> DEFINE f == [x \in Nat |-> LayerCount(x)]
             S == 0 .. s - 1
             v == StageStart(s)
             w == StageStart(s + 1)
  <2>1. AddsUpTo(v, f, S)
    BY StageStartIsSum
  <2>2. AddsUpTo(w, f, S \cup {s})
    <3>1. s + 1 \in Nat /\ 0 .. (s + 1) - 1 = S \cup {s}
      OBVIOUS
    <3> HIDE DEF S
    <3>2. AddsUpTo(w, f, 0 .. (s + 1) - 1)
      BY <3>1, StageStartIsSum
    <3> QED
      BY <3>1, <3>2
  <2>3. IntValued(f, S \cup {s}) /\ f[s] = LayerCount(s)
    BY LayerCounts DEF IntValued
  <2>4. IsFiniteSet(S) /\ s \notin S
    BY FS_Interval
  <2> HIDE DEF f, S, v, w
  <2>5. v \in Int /\ w = v + f[s]
    BY <2>1, <2>2, <2>3, <2>4, SumOfOneMore
  <2> QED
    BY <2>3, <2>5 DEF v, w
<1> QED
  BY <1>1, <1>2

\* The first n stages hold the layers below StageStart(n), in order.
LEMMA StagesInOrder ==
  ASSUME MemoryInv
  PROVE  \A n \in Nat :
           /\ UNION {StageLayers(s) : s \in 0 .. n - 1} = 0 .. StageStart(n) - 1
           /\ \A s \in 0 .. n - 1 : StageStart(s) + LayerCount(s) <= StageStart(n)
           /\ StageStart(n) \in Nat
<1> DEFINE Covered(n) == /\ UNION {StageLayers(s) : s \in 0 .. n - 1} = 0 .. StageStart(n) - 1
                         /\ \A s \in 0 .. n - 1 : StageStart(s) + LayerCount(s) <= StageStart(n)
                         /\ StageStart(n) \in Nat
           N == {n \in Nat : Covered(n)}
<1>1. 0 \in N
  BY StageStarts
<1>2. ASSUME NEW n \in Nat, n \in N PROVE n + 1 \in N
  <2>1. /\ StageStart(n) \in Nat /\ LayerCount(n) \in Nat \ {0}
        /\ StageStart(n + 1) = StageStart(n) + LayerCount(n)
        /\ StageLayers(n) = StageStart(n) .. StageStart(n) + LayerCount(n) - 1
    BY <1>2, StageStarts, LayerCounts DEF StageLayers
  <2>2. 0 .. (n + 1) - 1 = (0 .. n - 1) \cup {n}
    OBVIOUS
  <2>3. UNION {StageLayers(s) : s \in (0 .. n - 1) \cup {n}}
          = (UNION {StageLayers(s) : s \in 0 .. n - 1}) \cup StageLayers(n)
    OBVIOUS
  <2>4. UNION {StageLayers(s) : s \in 0 .. n - 1} = 0 .. StageStart(n) - 1
    BY <1>2
  <2>5. UNION {StageLayers(s) : s \in 0 .. (n + 1) - 1} = 0 .. StageStart(n + 1) - 1
    <3>1. (0 .. StageStart(n) - 1) \cup (StageStart(n) .. StageStart(n) + LayerCount(n) - 1)
            = 0 .. StageStart(n + 1) - 1
      BY <2>1
    <3> QED
      BY <2>1, <2>2, <2>3, <2>4, <3>1
  <2>6. ASSUME NEW s \in 0 .. (n + 1) - 1
        PROVE  StageStart(s) + LayerCount(s) <= StageStart(n + 1)
    <3>1. CASE s = n
      BY <2>1, <3>1
    <3>2. CASE s # n
      <4>1. s \in 0 .. n - 1 /\ StageStart(s) \in Int /\ LayerCount(s) \in Nat
        BY <3>2, StageStarts, LayerCounts
      <4>2. StageStart(s) + LayerCount(s) <= StageStart(n)
        BY <1>2, <4>1
      <4> QED
        BY <2>1, <4>1, <4>2
    <3> QED
      BY <3>1, <3>2
  <2>7. StageStart(n + 1) \in Nat
    BY <2>1
  <2> QED
    BY <2>5, <2>6, <2>7
<1>3. Nat \subseteq N
  <2> HIDE DEF N
  <2> QED
    BY <1>1, <1>2, SetInduction
<1> QED
  BY <1>3

\* The stages that take a layer more are as many as there are such layers.
LEMMA ExtraStages ==
  ASSUME MemoryInv
  PROVE  /\ Extra \subseteq 0 .. c.pp - 1
         /\ IsFiniteSet(Extra) /\ Cardinality(Extra) = Remainder
<1> DEFINE R == 1 .. Remainder
           p == [i \in R |-> priority[i]]
<1>1. /\ c.pp \in Nat \ {0} /\ Remainder \in 0 .. c.pp - 1
      /\ priority \in [1 .. c.pp -> 0 .. c.pp - 1] /\ IsInjective(priority)
  BY LayerCounts DEF MemoryInv, Priorities
<1>2. R \subseteq 1 .. c.pp
  BY <1>1
<1>3. Extra \subseteq 0 .. c.pp - 1
  BY <1>1, <1>2 DEF Extra
<1>4. \A i, j \in R : priority[i] = priority[j] => i = j
  <2>1. DOMAIN priority = 1 .. c.pp
    BY <1>1
  <2> HIDE DEF R
  <2> QED
    BY <1>1, <1>2, <2>1 DEF IsInjective
<1>5. p \in Surjection(R, Extra) /\ p \in Injection(R, Extra)
  <2> HIDE DEF R
  <2>1. Extra = {priority[i] : i \in R}
    BY DEF Extra, R
  <2> QED
    BY <1>4, <2>1 DEF Surjection, Injection, IsInjective
<1>6. IsFiniteSet(R) /\ Cardinality(R) = Remainder
  BY <1>1, FS_Interval
<1>7. p \in Bijection(R, Extra)
  BY <1>5 DEF Bijection
<1> QED
  BY <1>3, <1>6, <1>7, FS_Bijection DEF ExistsBijection

\* The last stage ends with the last layer.
LEMMA LastStageEnds ==
  ASSUME MemoryInv
  PROVE  StageStart(c.pp) = c.layers
<1> DEFINE q == c.layers \div c.pp
           before(n) == Extra \cap (0 .. n - 1)
           N == {n \in Nat : StageStart(n) = q * n + Cardinality(before(n))}
<1>1. /\ c.pp \in Nat \ {0} /\ q \in Nat /\ c.layers = q * c.pp + Remainder
      /\ \A s : LayerCount(s) = q + (IF s \in Extra THEN 1 ELSE 0)
  BY LayerCounts
<1>2. /\ Extra \subseteq 0 .. c.pp - 1
      /\ IsFiniteSet(Extra) /\ Cardinality(Extra) = Remainder
  BY ExtraStages
<1> HIDE DEF q
<1>3. 0 \in N
  <2>1. before(0) = {} /\ q * 0 = 0
    BY <1>1
  <2>2. StageStart(0) = 0 /\ Cardinality(before(0)) = 0
    BY <2>1, StageStarts, FS_EmptySet
  <2> HIDE DEF before
  <2> QED
    BY <2>1, <2>2
<1>4. ASSUME NEW n \in Nat, n \in N PROVE n + 1 \in N
  <2> DEFINE B == before(n)
             A == before(n + 1)
  <2>1. IsFiniteSet(B) /\ n \notin B /\ A = IF n \in Extra THEN B \cup {n} ELSE B
    <3>1. B \in SUBSET Extra /\ n \notin B
      OBVIOUS
    <3>2. A = IF n \in Extra THEN B \cup {n} ELSE B
      <4>1. 0 .. (n + 1) - 1 = (0 .. n - 1) \cup {n}
        OBVIOUS
      <4> QED
        BY <4>1
    <3> QED
      BY <1>2, <3>1, <3>2, FS_Subset
  <2>2. StageStart(n) = q * n + Cardinality(B)
    BY <1>4
  <2> HIDE DEF A, B
  <2>3. Cardinality(B) \in Nat /\ Cardinality(A) = Cardinality(B) + (IF n \in Extra THEN 1 ELSE 0)
    <3>1. Cardinality(B) \in Nat
      BY <2>1, FS_CardinalityType
    <3>2. Cardinality(B \cup {n}) = Cardinality(B) + 1
      BY <2>1, FS_AddElement
    <3> QED
      BY <2>1, <3>1, <3>2
  <2>4. StageStart(n + 1) = StageStart(n) + LayerCount(n)
    BY StageStarts
  <2>5. q * (n + 1) = q * n + q /\ q * n \in Nat
    BY <1>1
  <2>6. StageStart(n + 1) = q * (n + 1) + Cardinality(A)
    BY <1>1, <2>2, <2>3, <2>4, <2>5
  <2> QED
    BY <2>6 DEF A
<1>5. c.pp \in N
  <2> HIDE DEF N
  <2> QED
    BY <1>1, <1>3, <1>4, SetInduction
<1>6. before(c.pp) = Extra
  BY <1>2
<1>7. StageStart(c.pp) = q * c.pp + Cardinality(before(c.pp))
  BY <1>5
<1> QED
  BY <1>1, <1>2, <1>6, <1>7

\* The order of the stages names each of them once.
LEMMA EveryStageIsSorted ==
  ASSUME MemoryInv, NEW s \in 0 .. c.pp - 1
  PROVE  \E i \in 1 .. c.pp : priority[i] = s
<1>1. /\ c.pp \in Nat \ {0}
      /\ priority \in [1 .. c.pp -> 0 .. c.pp - 1] /\ IsInjective(priority)
  BY LayerCounts DEF MemoryInv, Priorities
<1> DEFINE I == 1 .. c.pp
           S == 0 .. c.pp - 1
<1>2. IsFiniteSet(S) /\ Cardinality(S) = c.pp /\ Cardinality(I) = c.pp
  <2> DEFINE n == c.pp
  <2>1. n \in Nat \ {0} /\ n - 1 \in Int /\ ~ (0 > n - 1) /\ ~ (1 > n)
    BY <1>1
  <2> HIDE DEF n
  <2>2. IsFiniteSet(0 .. n - 1) /\ Cardinality(0 .. n - 1) = n
    BY <2>1, FS_Interval
  <2>3. Cardinality(1 .. n) = n
    BY <2>1, FS_Interval
  <2> QED
    BY <2>2, <2>3 DEF n
<1>3. priority \in Injection(I, S)
  BY <1>1 DEF Injection, IsInjective
<1> HIDE DEF I, S
<1>4. priority \in Surjection(I, S)
  BY <1>2, <1>3, FS_Injection
<1> QED
  BY <1>4 DEF Surjection, I, S

\* A stage nearer to the middle never has fewer layers.
LEMMA MiddleStagesFirst ==
  ASSUME MemoryInv, NEW s \in 0 .. c.pp - 1, NEW t \in 0 .. c.pp - 1,
         FromCentre(c.pp, s) < FromCentre(c.pp, t)
  PROVE  LayerCount(s) >= LayerCount(t)
<1>1. /\ c.layers \div c.pp \in Nat /\ Remainder \in 0 .. c.pp - 1 /\ c.pp \in Nat
      /\ \A u : LayerCount(u) = (c.layers \div c.pp) + (IF u \in Extra THEN 1 ELSE 0)
  BY LayerCounts
<1>2. ASSUME t \in Extra PROVE s \in Extra
  <2>1. PICK i \in 1 .. Remainder : t = priority[i]
    BY <1>2 DEF Extra
  <2>2. PICK j \in 1 .. c.pp : s = priority[j]
    BY EveryStageIsSorted
  <2>3. i \in 1 .. c.pp
    BY <1>1
  <2>4. \A k, m \in 1 .. c.pp :
          k < m => FromCentre(c.pp, priority[k]) <= FromCentre(c.pp, priority[m])
    BY DEF MemoryInv, Priorities
  <2>5. \A u \in 0 .. c.pp - 1 : FromCentre(c.pp, u) \in Int
    BY <1>1 DEF FromCentre, AbsDiff
  <2>6. ~ (i < j)
    BY <2>1, <2>2, <2>3, <2>4, <2>5
  <2>7. j \in 1 .. Remainder
    BY <1>1, <2>6
  <2> QED
    BY <2>2, <2>7 DEF Extra
<1> QED
  BY <1>1, <1>2

LEMMA MemoryInvPartitions == MemoryInv => LayersPartitioned
<1> SUFFICES ASSUME MemoryInv PROVE LayersPartitioned
  OBVIOUS
<1> DEFINE stages == 0 .. c.pp - 1
<1>1. c.pp \in Nat /\ \A s \in stages : s \in Nat
  BY LayerCounts
<1>2. UNION {StageLayers(s) : s \in stages} = 0 .. c.layers - 1
  BY <1>1, StagesInOrder, LastStageEnds
<1>3. ASSUME NEW s \in stages PROVE StageLayers(s) # {}
  <2>1. StageStart(s) \in Int /\ LayerCount(s) \in Nat \ {0}
    BY <1>1, StageStarts, LayerCounts
  <2>2. StageStart(s) \in StageLayers(s)
    BY <2>1 DEF StageLayers
  <2> QED
    BY <2>2
<1>4. ASSUME NEW s \in stages, NEW t \in stages, s < t,
             NEW l \in StageLayers(s), NEW m \in StageLayers(t)
      PROVE  l < m
  <2>1. s \in 0 .. t - 1 /\ t \in Nat /\ s \in Nat
    BY <1>1, <1>4
  <2>2. StageStart(s) + LayerCount(s) <= StageStart(t)
    BY <2>1, StagesInOrder
  <2>3. StageStart(s) \in Int /\ LayerCount(s) \in Nat /\ StageStart(t) \in Int
    BY <2>1, StageStarts, LayerCounts
  <2> QED
    BY <2>2, <2>3 DEF StageLayers
<1>5. ASSUME NEW s \in stages, NEW t \in stages, FromCentre(c.pp, s) < FromCentre(c.pp, t)
      PROVE  LayerCount(s) >= LayerCount(t)
  BY <1>5, MiddleStagesFirst
<1> HIDE DEF stages
<1> QED
  BY <1>2, <1>3, <1>4, <1>5 DEF LayersPartitioned, stages

-----------------------------------------------------------------------------
(* Caches of the stages *)

\* The key and value heads of a device.
KvHeads == NumKvHeads \div NeTp

LEMMA KvHeadsOfDevice == KvHeads \in Nat \ {0} /\ TotalLen \in Nat \ {0}
<1>1. /\ NumKvHeads \in Nat \ {0} /\ NeTp \in Nat \ {0} /\ NumKvHeads % NeTp = 0
      /\ InputLen \in Nat \ {0} /\ OutputLen \in Nat \ {0}
  BY MemoryAssumption
<1>2. /\ NumKvHeads \div NeTp \in Nat
      /\ NumKvHeads = (NumKvHeads \div NeTp) * NeTp + (NumKvHeads % NeTp)
  BY <1>1, Division
<1>3. NumKvHeads \div NeTp # 0
  BY <1>1, <1>2
<1> QED
  BY <1>1, <1>2, <1>3 DEF KvHeads, TotalLen

\* The rows a layer keeps of a sequence.
RowsKept == [l \in Nat |-> EffectiveKvLen(l, TotalLen)]

LEMMA RowsArePositive == \A l \in Nat : RowsKept[l] \in Nat \ {0}
<1>1. Window \in Nat \ {0}
  BY MemoryAssumption
<1>2. \A l \in Nat : EffectiveKvLen(l, TotalLen) \in Nat \ {0}
  BY <1>1, KvHeadsOfDevice DEF EffectiveKvLen
<1> QED
  BY <1>2 DEF RowsKept

\* The layers of a stage.
LEMMA LayersOfStage ==
  ASSUME MemoryInv, NEW s \in Nat
  PROVE  /\ StageLayers(s) \subseteq Nat /\ StageLayers(s) # {}
         /\ IsFiniteSet(StageLayers(s))
         /\ Cardinality(StageLayers(s)) = LayerCount(s)
<1> DEFINE a == StageStart(s)
           n == LayerCount(s)
<1>1. a \in Nat /\ n \in Nat \ {0}
  BY StagesInOrder, LayerCounts
<1> HIDE DEF a, n
<1>2. StageLayers(s) = a .. a + n - 1
  BY DEF StageLayers, a, n
<1>3. a + n - 1 \in Int /\ a \in a .. a + n - 1 /\ ~ (a > a + n - 1) /\ (a + n - 1) - a + 1 = n
  BY <1>1
<1>4. IsFiniteSet(a .. a + n - 1) /\ Cardinality(a .. a + n - 1) = n
  BY <1>1, <1>3, FS_Interval
<1>5. a .. a + n - 1 \subseteq Nat
  BY <1>1
<1> QED
  BY <1>2, <1>3, <1>4, <1>5 DEF n

\* Where the check counts heads, a sequence needs the rows of every layer of a stage.
LEMMA KvPerSeqIsSum ==
  ASSUME MemoryInv, NEW s \in Nat, ~ CountsRows
  PROVE  \E v : /\ AddsUpTo(v, RowsKept, StageLayers(s))
                /\ KvPerSeq(s) = 2 * v * HeadDim * KvHeads * PrecisionByte
<1> DEFINE S == StageLayers(s)
           f == RowsKept
           F(g) == g = [t \in SUBSET S |->
             IF t = {} THEN 0
             ELSE EffectiveKvLen(CHOOSE x \in t : TRUE, TotalLen)
                    + g[t \ {CHOOSE x \in t : TRUE}]]
           iter == CHOOSE g : F(g)
<1>1. KvPerSeq(s) = 2 * iter[S] * HeadDim * KvHeads * PrecisionByte
  BY DEF KvPerSeq, OfLayers, MapThenSumSet, MapThenFoldSet, KvHeads
<1>2. S \subseteq Nat /\ IsFiniteSet(S)
  BY LayersOfStage
<1>3. ASSUME NEW g PROVE SumsUp(g, f, S) <=> F(g)
  <2>1. ASSUME NEW t \in SUBSET S, t # {}
        PROVE  f[CHOOSE x \in t : TRUE] = EffectiveKvLen(CHOOSE x \in t : TRUE, TotalLen)
    <3>1. (CHOOSE x \in t : TRUE) \in t
      BY <2>1
    <3>2. t \subseteq Nat
      BY <1>2
    <3> QED
      BY <3>1, <3>2 DEF RowsKept
  <2> HIDE DEF f, S
  <2> QED
    BY <2>1 DEF SumsUp
<1>4. \E g : SumsUp(g, f, S)
  <2> HIDE DEF f, S
  <2> QED
    BY <1>2, SumExists
<1> HIDE DEF F, f, S
<1>5. F(iter)
  <2>1. \E g : F(g)
    BY <1>3, <1>4
  <2> QED
    BY <2>1
<1>6. SumsUp(iter, f, S)
  BY <1>3, <1>5
<1> HIDE DEF iter
<1>7. AddsUpTo(iter[S], f, S)
  BY <1>6 DEF AddsUpTo
<1> QED
  BY <1>1, <1>7 DEF f, S

\* The cache of a stage is the sum of those of its layers.
LEMMA CacheIsSum ==
  ASSUME MemoryInv, NEW s \in Nat, NEW b
  PROVE  AddsUpTo(Cache(s, b), [l \in Nat |-> CacheBytes(l, b)], StageLayers(s))
<1> DEFINE S == StageLayers(s)
           f == [l \in Nat |-> CacheBytes(l, b)]
           F(g) == g = [t \in SUBSET S |->
             IF t = {} THEN 0
             ELSE CacheBytes(CHOOSE x \in t : TRUE, b) + g[t \ {CHOOSE x \in t : TRUE}]]
           iter == CHOOSE g : F(g)
<1>1. Cache(s, b) = iter[S]
  BY DEF Cache, OfLayers, MapThenSumSet, MapThenFoldSet
<1>2. S \subseteq Nat /\ IsFiniteSet(S)
  BY LayersOfStage
<1>3. ASSUME NEW g PROVE SumsUp(g, f, S) <=> F(g)
  <2>1. ASSUME NEW t \in SUBSET S, t # {}
        PROVE  f[CHOOSE x \in t : TRUE] = CacheBytes(CHOOSE x \in t : TRUE, b)
    <3>1. (CHOOSE x \in t : TRUE) \in t
      BY <2>1
    <3>2. t \subseteq Nat
      BY <1>2
    <3> QED
      BY <3>1, <3>2
  <2> HIDE DEF f, S
  <2> QED
    BY <2>1 DEF SumsUp
<1>4. \E g : SumsUp(g, f, S)
  <2> HIDE DEF f, S
  <2> QED
    BY <1>2, SumExists
<1> HIDE DEF F, f, S
<1>5. F(iter)
  <2>1. \E g : F(g)
    BY <1>3, <1>4
  <2> QED
    BY <2>1
<1>6. SumsUp(iter, f, S)
  BY <1>3, <1>5
<1> HIDE DEF iter
<1>7. AddsUpTo(iter[S], f, S)
  BY <1>6 DEF AddsUpTo
<1> QED
  BY <1>1, <1>7 DEF f, S

LEMMA ProductsArePositive ==
  \A x, y \in Nat \ {0} : x * y \in Nat \ {0}
OBVIOUS

\* On heads, a stage keeps for a batch what it needs for each sequence, times
\* the batch.
LEMMA HeadCachesScale ==
  ASSUME MemoryInv, NEW s \in Nat, NEW b \in Int, ~ CountsRows
  PROVE  /\ KvPerSeq(s) \in Nat \ {0}
         /\ c.attention # "absorbed" => Cache(s, b) = b * KvPerSeq(s)
<1> DEFINE f == RowsKept
           m == [l \in Nat |-> CacheBytes(l, b)]
           S == StageLayers(s)
           w == Cache(s, b)
           k == b * KvHeads * 2 * HeadDim * PrecisionByte
<1>1. PICK v : AddsUpTo(v, f, S) /\ KvPerSeq(s) = 2 * v * HeadDim * KvHeads * PrecisionByte
  BY KvPerSeqIsSum
<1>2. AddsUpTo(w, m, S)
  BY CacheIsSum
<1>3. S \subseteq Nat /\ S # {} /\ IsFiniteSet(S)
  BY LayersOfStage
<1>4. \A x \in S : f[x] \in Nat \ {0}
  BY <1>3, RowsArePositive
<1>5. v \in Nat \ {0}
  <2> HIDE DEF f, S
  <2> QED
    BY <1>1, <1>3, <1>4, SumOfPositive
<1>6. HeadDim \in Nat \ {0} /\ PrecisionByte \in Nat \ {0} /\ KvHeads \in Nat \ {0}
  BY MemoryAssumption, KvHeadsOfDevice
<1>7. ASSUME c.attention # "absorbed", NEW x \in S PROVE m[x] = k * f[x]
  <2>1. x \in Nat /\ f[x] = EffectiveKvLen(x, TotalLen) /\ f[x] \in Int
    BY <1>3, <1>4 DEF RowsKept
  <2>2. CacheBytes(x, b) = HeadCache(EffectiveKvLen(x, TotalLen), b)
    <3>1. /\ c.attention \in Attentions
          /\ c.attention = "latent" => ~c.compressed
          /\ c.chunked => c.attention = "standard"
      BY MemoryAssumption DEF MemoryInv, Configuration, CountsRows
    <3>2. ~ c.chunked => EffectiveKvLen(x, TotalLen) = TotalLen
      BY DEF EffectiveKvLen
    <3> QED
      BY <1>7, <3>1, <3>2 DEF CacheBytes, Attentions
  <2>3. m[x] = b * KvHeads * 2 * f[x] * HeadDim * PrecisionByte
    BY <2>1, <2>2 DEF HeadCache, KvHeads
  <2>4. \A h, r, d, p \in Int : b * h * 2 * r * d * p = (b * h * 2 * d * p) * r
    OBVIOUS
  <2> HIDE DEF f, m
  <2> QED
    BY <1>6, <2>1, <2>3, <2>4
<1>8. c.attention # "absorbed" => w = k * v
  <2> SUFFICES ASSUME c.attention # "absorbed" PROVE w = k * v
    OBVIOUS
  <2>1. k \in Int
    BY <1>6
  <2>2. IntValued(f, S)
    BY <1>4 DEF IntValued
  <2>3. Multiples(m, k, f, S)
    BY <1>7 DEF Multiples
  <2> HIDE DEF f, m, S, w, k
  <2>4. IsFiniteSet(S) /\ AddsUpTo(v, f, S)
    BY <1>1, <1>3
  <2>5. v \in Int /\ w = k * v
    BY <1>2, <2>1, <2>2, <2>3, <2>4, SumOfMultiples
  <2> QED
    BY <2>5
<1>9. KvPerSeq(s) \in Nat \ {0}
  <2>1. 2 * v \in Nat \ {0}
    BY <1>5
  <2>2. 2 * v * HeadDim \in Nat \ {0}
    BY <1>6, <2>1, ProductsArePositive
  <2>3. 2 * v * HeadDim * KvHeads \in Nat \ {0}
    BY <1>6, <2>2, ProductsArePositive
  <2>4. 2 * v * HeadDim * KvHeads * PrecisionByte \in Nat \ {0}
    BY <1>6, <2>3, ProductsArePositive
  <2> QED
    BY <1>1, <2>4
<1>10. \A h, r, d, p \in Int : (b * h * 2 * d * p) * r = b * (2 * r * d * h * p)
  OBVIOUS
<1>11. c.attention # "absorbed" => w = b * (2 * v * HeadDim * KvHeads * PrecisionByte)
  <2> HIDE DEF w
  <2> QED
    BY <1>5, <1>6, <1>8, <1>10
<1> QED
  BY <1>1, <1>9, <1>11

\* The rows that are kept are those of a layer, once for each.
LEMMA RowsCacheIsProduct ==
  ASSUME MemoryInv, NEW s \in Nat, NEW b \in Int, c.attention = "absorbed" \/ CountsRows
  PROVE  Cache(s, b) = LatentRowsCache(TotalLen, b) * LayerCount(s) /\ Cache(s, b) \in Int
<1> DEFINE m == [l \in Nat |-> CacheBytes(l, b)]
           S == StageLayers(s)
           w == Cache(s, b)
           k == LatentRowsCache(TotalLen, b)
           n == LayerCount(s)
<1>1. /\ QkRopeHeadDim \in Nat /\ KvLoraRank \in Nat
      /\ PrecisionByte \in Nat \ {0} /\ TotalLen \in Nat \ {0}
  BY MemoryAssumption, KvHeadsOfDevice
<1>2. n \in Nat \ {0} /\ S \subseteq Nat /\ IsFiniteSet(S) /\ Cardinality(S) = n
  BY LayerCounts, LayersOfStage
<1>3. k \in Int
  BY <1>1 DEF LatentRowsCache
<1>4. \A x \in S : m[x] = k
  <2>1. c.attention \in Attentions
    BY MemoryAssumption DEF MemoryInv, Configuration
  <2> QED
    BY <1>2, <2>1 DEF CacheBytes, CountsRows, Attentions
<1>5. AddsUpTo(w, m, S)
  BY CacheIsSum
<1> HIDE DEF m, S, w, k, n
<1>6. w = k * n
  BY <1>2, <1>3, <1>4, <1>5, SumOfEqual
<1>7. w \in Int
  BY <1>2, <1>3, <1>6
<1> QED
  BY <1>6, <1>7 DEF w, k, n

\* The same of compressed rows.
LEMMA CompressedCachesScale ==
  ASSUME MemoryInv, NEW s \in Nat, NEW b \in Int, CountsRows
  PROVE  KvPerSeq(s) \in Nat \ {0} /\ Cache(s, b) = b * KvPerSeq(s)
<1> DEFINE w == Cache(s, b)
           n == LayerCount(s)
<1>1. /\ QkRopeHeadDim \in Nat \ {0}
      /\ KvLoraRank \in Nat /\ PrecisionByte \in Nat \ {0} /\ TotalLen \in Nat \ {0}
  BY MemoryAssumption, KvHeadsOfDevice DEF MemoryInv, CountsRows
<1>2. n \in Nat \ {0}
  BY LayerCounts
<1>3. w = (b * (TotalLen * KvLoraRank + TotalLen * QkRopeHeadDim) * PrecisionByte) * n
  BY RowsCacheIsProduct DEF LatentRowsCache
<1>4. KvPerSeq(s) = TotalLen * (KvLoraRank + QkRopeHeadDim) * n * PrecisionByte
  BY DEF KvPerSeq
<1> HIDE DEF w, n
<1>5. KvPerSeq(s) \in Nat \ {0}
  <2>1. KvLoraRank + QkRopeHeadDim \in Nat \ {0}
    BY <1>1
  <2>2. TotalLen * (KvLoraRank + QkRopeHeadDim) \in Nat \ {0}
    BY <1>1, <2>1, ProductsArePositive
  <2>3. TotalLen * (KvLoraRank + QkRopeHeadDim) * n \in Nat \ {0}
    BY <1>2, <2>2, ProductsArePositive
  <2> QED
    BY <1>1, <1>4, <2>3, ProductsArePositive
<1>6. \A t, r, q, p, l \in Int :
        (b * (t * r + t * q) * p) * l = b * (t * (r + q) * l * p)
  OBVIOUS
<1>7. w = b * (TotalLen * (KvLoraRank + QkRopeHeadDim) * n * PrecisionByte)
  BY <1>1, <1>2, <1>3, <1>6
<1> QED
  BY <1>4, <1>5, <1>7 DEF w

\* The check agrees with the caches wherever it counts what is kept.
LEMMA CachesScale ==
  ASSUME MemoryInv, NEW s \in Nat
  PROVE  /\ KvPerSeq(s) \in Nat \ {0}
         /\ \A b \in Int : Cache(s, b) \in Int
         /\ (c.attention = "absorbed" => c.compressed) =>
               \A b \in Int : Cache(s, b) = b * KvPerSeq(s)
<1>1. 0 \in Int
  OBVIOUS
<1>2. KvPerSeq(s) \in Nat \ {0}
  BY <1>1, HeadCachesScale, CompressedCachesScale
<1>3. ASSUME NEW b \in Int, c.attention = "absorbed" => c.compressed
      PROVE  Cache(s, b) = b * KvPerSeq(s)
  <2>1. CASE CountsRows
    BY <2>1, CompressedCachesScale
  <2>2. CASE ~CountsRows
    <3>1. c.attention # "absorbed"
      BY <1>3, <2>2 DEF CountsRows
    <3> QED
      BY <2>2, <3>1, HeadCachesScale
  <2> QED
    BY <2>1, <2>2
<1>4. ASSUME NEW b \in Int PROVE Cache(s, b) \in Int
  <2>1. CASE c.attention = "absorbed"
    BY <2>1, RowsCacheIsProduct
  <2>2. CASE c.attention # "absorbed"
    <3>1. Cache(s, b) = b * KvPerSeq(s)
      BY <1>3, <2>2
    <3> QED
      BY <1>2, <3>1
  <2> QED
    BY <2>1, <2>2
<1> QED
  BY <1>2, <1>3, <1>4

-----------------------------------------------------------------------------
(* A smaller batch *)

\* The activations of a configuration are a whole number.
LEMMA ActivationType ==
  ASSUME c \in Configurations, batchPerDp \in Nat
  PROVE  Activation \in Int
<1> DEFINE heads == NumHeads \div NeTp
           rows == ActBatch * (IF c.decode THEN 1 ELSE InputLen)
           expertRows == ExpertBatch * (IF c.decode THEN 1 ELSE InputLen)
           context == IF c.decode THEN TotalLen ELSE InputLen
<1>1. /\ {NeTp, ETp, NumHeads, HeadDim, PrecisionByte, InputLen, OutputLen,
          NumRoutedExpert, TopK, FfnWay} \subseteq Nat \ {0}
      /\ {HiddenDim, QLoraRank, KvLoraRank, QkRopeHeadDim, IntermediateDim,
          ExpertIntermediateDim, NVocab, NumSharedExpert, TracedActivation} \subseteq Nat
      /\ c.pp \in Nat \ {0} /\ c.dp \in Nat \ {0}
  BY MemoryAssumption DEF Configuration
<1>2. \A x, y \in Nat : x + y \in Nat /\ x * y \in Nat
  OBVIOUS
<1>3. \A x \in Nat, n \in Nat \ {0} : x \div n \in Nat
  BY Division
<1>4. ActBatch \in Nat
  <2>1. batchPerDp + c.pp - 1 \in Nat
    BY <1>1
  <2> QED
    BY <1>1, <1>3, <2>1 DEF ActBatch
<1>5. ExpertBatch \in Nat
  <2>1. ActBatch * c.dp \in Nat
    BY <1>1, <1>2, <1>4
  <2>2. ActBatch * c.dp * TopK \in Nat
    BY <1>1, <1>2, <2>1
  <2> QED
    BY <1>1, <1>3, <2>2 DEF ExpertBatch
<1>6. ExpertsPerDevice \in Nat
  <2>1. NeTp * c.dp \in Nat \ {0} /\ NumRoutedExpert * ETp \in Nat
    BY <1>1, ProductsArePositive
  <2> QED
    BY <1>3, <2>1 DEF ExpertsPerDevice
<1>7. heads \in Nat /\ context \in Nat /\ TotalLen \in Nat
  BY <1>1, <1>3 DEF TotalLen
<1>8. rows \in Nat /\ expertRows \in Nat
  BY <1>1, <1>2, <1>4, <1>5
<1>9. LoraRank(QLoraRank) \in Nat /\ LoraRank(KvLoraRank) \in Nat /\ LoraRank(QkRopeHeadDim) \in Nat
  BY <1>1 DEF LoraRank
<1>10. LayerActivation \in Int
  <2> DEFINE keysAndValues ==
        CASE c.attention = "absorbed" -> 2 * heads * KvLoraRank
          [] c.attention # "absorbed" /\ c.decode /\ c.compressed ->
               2 * TotalLen * HeadDim * heads
          [] OTHER -> 2 * HeadDim * heads
        a == 2 * HiddenDim + LoraRank(QLoraRank) + LoraRank(KvLoraRank)
                 + LoraRank(QkRopeHeadDim)
                 + (3 * LoraRank(QkRopeHeadDim) + HeadDim) * heads
                 + heads * HeadDim
                 + keysAndValues
                 + 2 * context * heads
        e == (ExpertsPerDevice + NumSharedExpert) * expertRows *
             (3 * ExpertIntermediateDim + HiddenDim)
  <2>1. LayerActivation = PrecisionByte * (rows * a + e)
    BY DEF LayerActivation
  <2>2. keysAndValues \in Int
    <3> HIDE DEF heads
    <3>1. /\ 2 * heads * KvLoraRank \in Int /\ 2 * TotalLen * HeadDim * heads \in Int
          /\ 2 * HeadDim * heads \in Int
      BY <1>1, <1>7
    <3> QED
      BY <3>1
  <2> HIDE DEF keysAndValues, heads, context, rows, expertRows
  <2>3. a \in Int
    <3>1. (3 * LoraRank(QkRopeHeadDim) + HeadDim) * heads \in Int /\ heads * HeadDim \in Int
          /\ 2 * context * heads \in Int /\ 2 * HiddenDim \in Int
      BY <1>1, <1>7, <1>9
    <3> QED
      BY <1>9, <2>2, <3>1
  <2>4. e \in Int
    BY <1>1, <1>6, <1>8
  <2> HIDE DEF a, e
  <2> QED
    BY <1>1, <1>8, <2>1, <2>3, <2>4
<1>11. FlashDecodeActivation \in Int
  <2> DEFINE d1 == (IntermediateDim * (FfnWay - 1)) \div NeTp
             d2 == (HiddenDim * (c.dp - 1)) \div c.dp
             d3 == (ExpertIntermediateDim * (FfnWay - 1)) \div ETp
             d4 == NVocab \div NeTp
             dense == ActBatch * (2 * HiddenDim + d1)
             expert == ExpertBatch * (2 * HiddenDim + d2 + d3)
             lmHead == Larger(ActBatch * (HiddenDim + d4), ActBatch * NVocab)
  <2>1. FlashDecodeActivation = PrecisionByte * Larger(Larger(dense, expert), lmHead)
    BY DEF FlashDecodeActivation
  <2>2. FfnWay - 1 \in Nat /\ c.dp - 1 \in Nat
    BY <1>1
  <2>3. /\ IntermediateDim * (FfnWay - 1) \in Nat /\ HiddenDim * (c.dp - 1) \in Nat
        /\ ExpertIntermediateDim * (FfnWay - 1) \in Nat
    BY <1>1, <1>2, <2>2
  <2>4. d1 \in Nat /\ d2 \in Nat /\ d3 \in Nat /\ d4 \in Nat
    BY <1>1, <1>3, <2>3
  <2> HIDE DEF d1, d2, d3, d4
  <2>5. dense \in Int /\ expert \in Int /\ lmHead \in Int
    BY <1>1, <1>4, <1>5, <2>4 DEF Larger
  <2> HIDE DEF dense, expert, lmHead
  <2>6. Larger(Larger(dense, expert), lmHead) \in Int
    BY <2>5 DEF Larger
  <2> QED
    BY <1>1, <2>1, <2>6
<1> QED
  BY <1>1, <1>10, <1>11 DEF Activation

\* What is left of the capacity, shared out to sequences.
LEMMA SequencesThatFit ==
  ASSUME NEW avail \in Nat, NEW kv \in Nat \ {0}
  PROVE  /\ avail \div kv \in Nat
         /\ \A b \in Int : b <= avail \div kv => b * kv <= avail
         /\ \A b \in Int : b > avail \div kv => b * kv > avail
<1> DEFINE q == avail \div kv
           r == avail % kv
<1>1. q \in Nat /\ r \in 0 .. kv - 1 /\ avail = q * kv + r
  BY Division
<1> HIDE DEF q, r
<1>2. \A b \in Int : b <= q => b * kv <= q * kv
  BY <1>1
<1>3. \A b \in Int : b >= q + 1 => b * kv >= q * kv + kv
  BY <1>1
<1>4. \A b \in Int : b * kv \in Int
  OBVIOUS
<1>5. q * kv \in Int
  BY <1>1
<1> QED
  BY <1>1, <1>2, <1>3, <1>4, <1>5 DEF q

\* The batch of a replica: one sequence is kept in reserve.
LEMMA OneInReserve ==
  ASSUME NEW dp \in Nat \ {0}, NEW q \in Nat
  PROVE  LET b == Quotient(dp * q - 1, dp)
         IN  b \in Int /\ b <= q /\ b + 2 >= q + 1
<1>1. CASE q = 0
  <2>1. dp * q - 1 = -1 /\ ~ (dp * q - 1 >= 0) /\ -(dp * q - 1) = 1
    BY <1>1
  <2>2. 1 \div dp \in Nat /\ 1 = (1 \div dp) * dp + (1 % dp) /\ 1 % dp \in 0 .. dp - 1
    BY Division
  <2>3. 1 \div dp <= 1
    BY <2>2
  <2>4. Quotient(dp * q - 1, dp) = -(1 \div dp)
    BY <2>1 DEF Quotient
  <2> QED
    BY <1>1, <2>2, <2>3, <2>4
<1>2. CASE q # 0
  <2>1. q - 1 \in Nat /\ dp - 1 \in 0 .. dp - 1
    BY <1>2
  <2>2. (q - 1) * dp + (dp - 1) = dp * q - 1
    OBVIOUS
  <2>3. (dp * q - 1) \div dp = q - 1
    BY <2>1, <2>2, DivisionUnique
  <2>4. dp * q - 1 >= 0
    <3>1. (q - 1) * dp \in Nat
      BY <2>1
    <3> QED
      BY <2>2, <3>1
  <2>5. Quotient(dp * q - 1, dp) = q - 1
    BY <2>3, <2>4 DEF Quotient
  <2> QED
    BY <2>1, <2>5
<1> QED
  BY <1>1, <1>2

-----------------------------------------------------------------------------
(* The check *)

StageStats == [total : Int, fixed : Int, kvPerSeq : Nat \ {0}, bufferExceeded : BOOLEAN]

\* Until the check has decided, the batch is that of the configuration; every
\* stage that was evaluated has left what one more sequence needs there; and a
\* batch that was capped fits.
CapInv ==
  /\ MemoryInv
  /\ stats \in Seq(StageStats)
  /\ \A i \in 1 .. Len(stats) : stats[i].kvPerSeq = KvPerSeq(i - 1)
  /\ outcome = "checking" => totalBatch = c.batch /\ batchPerDp = c.batch \div c.dp
  /\ CappedBatchFits

LEMMA StageStatsType ==
  ASSUME MemoryInv, batchPerDp = c.batch \div c.dp, NEW s \in Nat
  PROVE  StageMemory(s) \in StageStats
<1>1. batchPerDp \in Nat
  <2>1. c.batch \in Nat \ {0} /\ c.dp \in Nat \ {0}
    BY MemoryAssumption DEF MemoryInv, Configuration
  <2> QED
    BY <2>1, Division
<1>2. Activation \in Int /\ c.hbf \in BOOLEAN
  BY <1>1, ActivationType, MemoryAssumption DEF MemoryInv, Configuration
<1>3. Weight(s) \in Int
  <2>1. LayerCount(s) \in Nat /\ LayerWeight \in Nat /\ VocabWeight \in Nat
    BY LayerCounts, MemoryAssumption
  <2>2. LayerWeight * LayerCount(s) \in Int
    BY <2>1
  <2> QED
    BY <2>1, <2>2 DEF Weight
<1>4. KvPerSeq(s) \in Nat \ {0} /\ Cache(s, batchPerDp) \in Int
  BY <1>1, CachesScale
<1> DEFINE act == IF c.hbf THEN 0 ELSE Activation
           over == c.hbf /\ Activation > c.buffer
<1>5. StageMemory(s) = [total |-> act + Weight(s) + Cache(s, batchPerDp),
                        fixed |-> act + Weight(s),
                        kvPerSeq |-> KvPerSeq(s),
                        bufferExceeded |-> over]
  BY DEF StageMemory
<1>6. over \in BOOLEAN
  OBVIOUS
<1>7. act \in Int
  BY <1>2
<1> HIDE DEF act, over
<1> QED
  BY <1>3, <1>4, <1>5, <1>6, <1>7 DEF StageStats

\* What a sequence needs depends on the configuration and the order of the
\* stages alone.
LEMMA KvPerSeqUnchanged ==
  ASSUME UNCHANGED <<c, priority>>
  PROVE  \A s : KvPerSeq(s)' = KvPerSeq(s) /\ \A b : Cache(s, b)' = Cache(s, b)
BY DEF KvPerSeq, CountsRows, Cache, OfLayers, CacheBytes, EffectiveKvLen, TotalLen, HeadCache,
       LatentRowsCache, StageLayers, StageStart, LayerCount, MapThenSumSet, MapThenFoldSet

\* A stage that is evaluated is the next one.
LEMMA EvaluateCapInv ==
  ASSUME CapInv, EvaluateStage
  PROVE  CapInv'
<1> DEFINE n == Len(stats)
           m == StageMemory(n)
<1>1. /\ outcome = "checking" /\ stats' = Append(stats, m)
      /\ UNCHANGED <<c, priority, outcome, totalBatch, batchPerDp>>
  BY DEF EvaluateStage
<1>2. n \in Nat /\ stats \in Seq(StageStats) /\ MemoryInv /\ batchPerDp = c.batch \div c.dp
  BY <1>1 DEF CapInv
<1>3. m \in StageStats /\ m.kvPerSeq = KvPerSeq(n)
  <2>1. m.kvPerSeq = KvPerSeq(n)
    BY DEF StageMemory
  <2> QED
    BY <1>2, <2>1, StageStatsType
<1>4. MemoryInv'
  BY <1>1, <1>2 DEF MemoryInv, Priorities, FromCentre, AbsDiff
<1>5. \A i \in 1 .. Len(stats') : stats'[i].kvPerSeq = KvPerSeq(i - 1)
  <2> HIDE DEF m
  <2>1. Len(stats') = n + 1 /\ stats'[n + 1] = m /\ \A i \in 1 .. n : stats'[i] = stats[i]
    BY <1>1, <1>2, <1>3
  <2>2. ASSUME NEW i \in 1 .. Len(stats') PROVE stats'[i].kvPerSeq = KvPerSeq(i - 1)
    <3>1. CASE i = n + 1
      <4>1. i - 1 = n
        BY <1>2, <3>1
      <4> HIDE DEF n
      <4> QED
        BY <1>3, <2>1, <3>1, <4>1
    <3>2. CASE i # n + 1
      <4>1. i \in 1 .. n
        BY <1>2, <2>1, <3>2
      <4> QED
        BY <2>1, <4>1 DEF CapInv
    <3> QED
      BY <3>1, <3>2
  <2> QED
    BY <2>2
<1>6. \A i \in 1 .. Len(stats') : stats'[i].kvPerSeq = KvPerSeq(i - 1)'
  BY <1>1, <1>5, KvPerSeqUnchanged
<1>7. stats' \in Seq(StageStats)
  <2> HIDE DEF m
  <2> QED
    BY <1>1, <1>2, <1>3
<1>8. CappedBatchFits'
  BY <1>1 DEF CappedBatchFits
<1> QED
  BY <1>1, <1>2, <1>4, <1>6, <1>7, <1>8 DEF CapInv, StageStats

\* The smallest share of the stages, less the sequence in reserve, fits in each
\* of them, and two more do not fit in the stage it is the share of.
LEMMA CappedCapInv ==
  ASSUME CapInv, Capped
  PROVE  CapInv'
<1> DEFINE N == 1 .. Len(stats)
           avail(i) == c.capacity - stats[i].fixed
           q(i) == avail(i) \div stats[i].kvPerSeq
           S == {c.dp * q(i) : i \in N}
           counted == c.attention = "absorbed" => c.compressed
<1>1. /\ Len(stats) = c.pp /\ \A i \in N : c.capacity >= stats[i].fixed
      /\ totalBatch' = CapLimitedBatch /\ batchPerDp' = Quotient(CapLimitedBatch, c.dp)
      /\ UNCHANGED <<c, priority, stats>> /\ outcome' = "run"
  BY DEF Capped, Evaluated
<1>2. c.pp \in Nat \ {0} /\ c.dp \in Nat \ {0} /\ c.capacity \in Nat /\ MemoryInv
  BY MemoryAssumption DEF CapInv, MemoryInv, Configuration
<1>3. ASSUME NEW i \in N
      PROVE  /\ stats[i].fixed \in Int /\ stats[i].kvPerSeq \in Nat \ {0}
             /\ stats[i].kvPerSeq = KvPerSeq(i - 1) /\ avail(i) \in Nat
  <2>1. stats[i] \in StageStats /\ stats[i].kvPerSeq = KvPerSeq(i - 1)
    BY DEF CapInv
  <2>2. stats[i].fixed \in Int /\ stats[i].kvPerSeq \in Nat \ {0}
    BY <2>1 DEF StageStats
  <2>3. c.capacity >= stats[i].fixed
    BY <1>1
  <2> QED
    BY <1>2, <2>1, <2>2, <2>3
<1>4. ASSUME NEW i \in N
      PROVE  /\ q(i) \in Nat
             /\ \A b \in Int : b <= q(i) => b * KvPerSeq(i - 1) <= avail(i)
             /\ \A b \in Int : b > q(i) => b * KvPerSeq(i - 1) > avail(i)
  <2> DEFINE a == avail(i)
             kv == stats[i].kvPerSeq
  <2>1. a \in Nat /\ kv \in Nat \ {0} /\ kv = KvPerSeq(i - 1)
    BY <1>3
  <2> HIDE DEF a, kv
  <2>2. /\ a \div kv \in Nat
        /\ \A b \in Int : b <= a \div kv => b * kv <= a
        /\ \A b \in Int : b > a \div kv => b * kv > a
    BY <2>1, SequencesThatFit
  <2> QED
    BY <2>1, <2>2 DEF a, kv
<1> HIDE DEF q, avail
<1>5. PICK k \in N : \A i \in N : q(k) <= q(i) /\ Min(S) = c.dp * q(k)
  <2>1. S \in SUBSET Nat /\ S # {}
    <3>1. \A i \in N : c.dp * q(i) \in Nat
      BY <1>2, <1>4
    <3>2. 1 \in N
      BY <1>1, <1>2
    <3> QED
      BY <3>1, <3>2
  <2>2. PICK x \in S : \A y \in S : x <= y
    BY <2>1, LeastElement
  <2>3. PICK k \in N : x = c.dp * q(k)
    BY <2>2
  <2>4. Min(S) = x
    <3> HIDE DEF S
    <3>1. \A z \in S : (\A y \in S : z <= y) => z = x
      BY <2>1, <2>2
    <3> QED
      BY <2>2, <3>1 DEF Min
  <2>5. ASSUME NEW i \in N PROVE q(k) <= q(i)
    <3>1. c.dp * q(k) <= c.dp * q(i)
      BY <2>2, <2>3
    <3>2. \A d \in Nat \ {0}, x1, y1 \in Nat : d * x1 <= d * y1 => x1 <= y1
      <4> SUFFICES ASSUME NEW d \in Nat \ {0}, NEW x1 \in Nat, NEW y1 \in Nat, x1 > y1
                   PROVE  d * x1 > d * y1
        BY SMT
      <4>1. d * x1 >= d * (y1 + 1) /\ d * (y1 + 1) = d * y1 + d /\ d * y1 \in Nat
        OBVIOUS
      <4> QED
        BY <4>1
    <3> QED
      BY <1>2, <1>4, <3>1, <3>2
  <2> QED
    BY <2>3, <2>4, <2>5
<1> DEFINE b == Quotient(c.dp * q(k) - 1, c.dp)
<1>6. batchPerDp' = b
  <2>1. CapLimitedBatch = Min(S) - 1
    BY DEF CapLimitedBatch, q, avail
  <2> HIDE DEF S
  <2> QED
    BY <1>1, <1>5, <2>1
<1>7. b \in Int /\ b <= q(k) /\ b + 2 >= q(k) + 1
  <2> DEFINE r == q(k)
             d == c.dp
  <2>1. r \in Nat /\ d \in Nat \ {0}
    BY <1>2, <1>4
  <2> HIDE DEF r, d
  <2>2. LET v == Quotient(d * r - 1, d) IN v \in Int /\ v <= r /\ v + 2 >= r + 1
    BY <2>1, OneInReserve
  <2> QED
    BY <2>2 DEF r, d
<1> HIDE DEF b, S
<1>8. ASSUME counted, NEW s \in 0 .. c.pp - 1
      PROVE  /\ s + 1 \in N /\ (s + 1) - 1 = s
             /\ Cache(s, b) = b * KvPerSeq(s) /\ Cache(s, b + 2) = (b + 2) * KvPerSeq(s)
             /\ KvPerSeq(s) \in Nat
  <2>1. s \in Nat /\ s + 1 \in N /\ (s + 1) - 1 = s
    BY <1>1, <1>2
  <2>2. KvPerSeq(s) \in Nat \ {0} /\ \A x \in Int : Cache(s, x) = x * KvPerSeq(s)
    BY <1>2, <1>8, <2>1, CachesScale
  <2>3. b \in Int /\ b + 2 \in Int
    BY <1>7
  <2> QED
    BY <2>1, <2>2, <2>3
<1>9. ASSUME counted, NEW s \in 0 .. c.pp - 1
      PROVE  stats[s + 1].fixed + Cache(s, b) <= c.capacity
  <2>1. b <= q(s + 1) /\ s + 1 \in N
    BY <1>4, <1>5, <1>7, <1>8, <1>9
  <2>2. b * KvPerSeq(s) <= avail(s + 1)
    BY <1>4, <1>7, <1>8, <1>9, <2>1
  <2>3. stats[s + 1].fixed \in Int /\ b * KvPerSeq(s) \in Int
    BY <1>3, <1>7, <1>8, <1>9
  <2> QED
    BY <1>2, <1>8, <1>9, <2>2, <2>3 DEF avail
<1>10. ASSUME counted
       PROVE  \E s \in 0 .. c.pp - 1 : stats[s + 1].fixed + Cache(s, b + 2) > c.capacity
  <2> DEFINE s == k - 1
  <2>1. s \in 0 .. c.pp - 1 /\ s + 1 = k
    BY <1>1, <1>2
  <2> HIDE DEF s
  <2>2. b + 2 \in Int /\ b + 2 > q(k)
    BY <1>4, <1>7
  <2>3. k - 1 = s
    BY <2>1
  <2>4. (b + 2) * KvPerSeq(s) > avail(k)
    BY <1>4, <2>2, <2>3
  <2>5. stats[k].fixed \in Int /\ (b + 2) * KvPerSeq(s) \in Int
    BY <1>3, <1>8, <1>10, <2>1, <2>2
  <2>6. stats[s + 1].fixed + Cache(s, b + 2) > c.capacity
    BY <1>2, <1>8, <1>10, <2>1, <2>4, <2>5 DEF avail
  <2> QED
    BY <2>1, <2>6
<1>11. CappedBatchFits'
  <2>1. counted =>
        /\ \A s \in 0 .. c.pp - 1 : stats'[s + 1].fixed + Cache(s, batchPerDp)' <= c'.capacity
        /\ \E s \in 0 .. c.pp - 1 : stats'[s + 1].fixed + Cache(s, batchPerDp + 2)' > c'.capacity
    BY <1>1, <1>6, <1>9, <1>10, KvPerSeqUnchanged
  <2> QED
    BY <1>1, <2>1 DEF CappedBatchFits
<1>12. MemoryInv' /\ \A i \in N : KvPerSeq(i - 1)' = KvPerSeq(i - 1)
  BY <1>1, <1>2, KvPerSeqUnchanged DEF MemoryInv, Priorities, FromCentre, AbsDiff
<1> QED
  BY <1>1, <1>11, <1>12 DEF CapInv, StageStats

\* Other steps cap nothing.
LEMMA OtherCapInv ==
  ASSUME CapInv, UNCHANGED <<c, priority, stats>>,
         \/ Fits \/ TooSmall \/ OutOfMemory
         \/ outcome' = "running"
         \/ UNCHANGED <<outcome, outOfMemory, totalBatch, batchPerDp>>
  PROVE  CapInv'
<1>1. MemoryInv' /\ stats' \in Seq(StageStats)
  BY DEF CapInv, MemoryInv, Priorities, FromCentre, AbsDiff, StageStats
<1>2. \A i \in 1 .. Len(stats') : stats'[i].kvPerSeq = KvPerSeq(i - 1)'
  BY KvPerSeqUnchanged DEF CapInv
<1>3. CASE Fits \/ TooSmall \/ OutOfMemory
  <2>1. outcome' # "checking"
    BY <1>3 DEF Fits, TooSmall, OutOfMemory
  <2>2. outcome' = "run" => totalBatch' = c'.batch
    BY <1>3 DEF Fits, TooSmall, OutOfMemory, Evaluated, CapInv
  <2>3. CappedBatchFits'
    BY <2>2 DEF CappedBatchFits
  <2> QED
    BY <1>1, <1>2, <2>1, <2>3 DEF CapInv
<1>4. CASE outcome' = "running"
  <2>1. CappedBatchFits'
    BY <1>4 DEF CappedBatchFits
  <2> QED
    BY <1>1, <1>2, <1>4, <2>1 DEF CapInv
<1>5. CASE UNCHANGED <<outcome, outOfMemory, totalBatch, batchPerDp>>
  <2>1. CappedBatchFits'
    BY <1>5, KvPerSeqUnchanged DEF CappedBatchFits, CapInv
  <2> QED
    BY <1>1, <1>2, <1>5, <2>1 DEF CapInv
<1> QED
  BY <1>3, <1>4, <1>5

LEMMA InitCapInv == SizingInit => CapInv
<1> SUFFICES ASSUME SizingInit PROVE CapInv
  OBVIOUS
<1>1. /\ c \in Configurations /\ priority \in Priorities(c.pp) /\ stats = << >>
      /\ totalBatch = c.batch /\ batchPerDp = c.batch \div c.dp
  BY DEF SizingInit, MemoryInit
<1>2. CappedBatchFits
  BY <1>1 DEF CappedBatchFits
<1> QED
  BY <1>1, <1>2 DEF CapInv, MemoryInv

LEMMA NextCapInv == CapInv /\ [SizingNext]_allVars => CapInv'
<1> SUFFICES ASSUME CapInv, [SizingNext]_allVars PROVE CapInv'
  OBVIOUS
<1>1. CASE EvaluateStage
  BY <1>1, EvaluateCapInv
<1>2. CASE Capped
  BY <1>2, CappedCapInv
<1>3. CASE Fits \/ TooSmall \/ OutOfMemory
  <2>1. UNCHANGED <<c, priority, stats>>
    BY <1>3 DEF Fits, TooSmall, OutOfMemory
  <2> QED
    BY <1>3, <2>1, OtherCapInv
<1>4. CASE RunIteration \/ Iterate \/ UNCHANGED allVars
  <2>1. /\ UNCHANGED <<c, priority, stats>>
        /\ outcome' = "running" \/ UNCHANGED <<outcome, outOfMemory, totalBatch, batchPerDp>>
    BY <1>4 DEF RunIteration, Iterate, allVars, memoryVars
  <2> QED
    BY <2>1, OtherCapInv
<1> QED
  BY <1>1, <1>2, <1>3, <1>4 DEF SizingNext, CheckMemorySize, MemoryNext

\* The layers are dealt to the stages without a gap, and those in the middle
\* have no fewer than those at the ends, for every number of layers and stages
\* and however equal stages are sorted.
THEOREM EveryLayerHasItsStage == SizingSpec => []LayersPartitioned
<1>1. CapInv => LayersPartitioned
  BY MemoryInvPartitions DEF CapInv
<1>2. SizingSpec => SizingInit /\ [][SizingNext]_allVars
  BY DEF SizingSpec, allVars
<1> QED
  BY <1>1, <1>2, InitCapInv, NextCapInv, PTL

\* The batch the check caps to fits in every stage, and two more sequences per
\* replica would not fit in the stage that limits it, for every model.
THEOREM CapIsTight == SizingSpec => []CappedBatchFits
<1>1. CapInv => CappedBatchFits
  BY DEF CapInv
<1>2. SizingSpec => SizingInit /\ [][SizingNext]_allVars
  BY DEF SizingSpec, allVars
<1> QED
  BY <1>1, <1>2, InitCapInv, NextCapInv, PTL
=============================================================================
