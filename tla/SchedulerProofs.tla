--------------------------- MODULE SchedulerProofs ---------------------------
(***************************************************************************)
(* What every operation of the scheduler preserves, for any number of      *)
(* sequences, replicas and slots and any workload, and what follows for    *)
(* the mixed loop, the scheduler's plainest driver.  The proofs about the  *)
(* other loops (SplitSizingProofs, PipelineDecodeProofs) rest on the       *)
(* lemmas of the first part.                                               *)
(***************************************************************************)
EXTENDS MixedLoop, NaturalFacts, FiniteSetTheorems, TLAPS

-----------------------------------------------------------------------------
(* Numbers and sets *)

\* A natural number divided by a positive one is a natural number.
LEMMA DivNat ==
  ASSUME NEW a \in Nat, NEW b \in Nat \ {0}
  PROVE  a \div b \in Nat
OBVIOUS

\* The share of the i-th of k + 1 sequences of m tokens is at most m.
LEMMA ShareBounded ==
  ASSUME NEW m \in Nat, NEW i \in Nat, NEW k \in Nat \ {0}, i <= k
  PROVE  (i * m) \div k \in Nat /\ (i * m) \div k <= m
<1>1. i * m \in Nat /\ i * m <= k * m
  OBVIOUS
<1> DEFINE q == (i * m) \div k
<1>2. q \in Nat
  BY <1>1, DivNat
<1>3. q * k <= i * m
  BY <1>1
<1> HIDE DEF q
<1>4. q * k <= m * k
  BY <1>1, <1>2, <1>3
<1>5. q <= m
  BY <1>2, <1>4
<1> QED
  BY <1>2, <1>5 DEF q

\* The number of slots of a replica is a natural number.
LEMMA SlotsNat == BatchSizePerDp \in Nat
BY SizesAssumption, DivNat DEF BatchSizePerDp

\* A set of sequences has a cardinality.
LEMMA SubsetCardinality ==
  ASSUME NEW S \in SUBSET Seqs
  PROVE  IsFiniteSet(S) /\ Cardinality(S) \in Nat
BY SeqsFinite, FS_Subset, FS_CardinalityType

\* The batch size is a number.
LEMMA BatchSizeNat == GetBatchSize \in Nat
<1>1. IsFiniteSet(Dp)
  BY SizesAssumption, FS_Interval DEF Dp
<1>2. IsFiniteSet(Dp \X Seqs)
  BY <1>1, SeqsFinite, FS_Product
<1>3. {p \in Dp \X Seqs : p[2] \in running_queue[p[1]]} \subseteq Dp \X Seqs
  OBVIOUS
<1> QED
  BY <1>2, <1>3, FS_Subset, FS_CardinalityType DEF GetBatchSize

-----------------------------------------------------------------------------
(* One sequence *)

\* A sequence of the workload starts within its bounds.
LEMMA WorkloadBounded ==
  ASSUME NEW w \in Workload
  PROVE  w \in Sequence /\ Bounded(w)
<1>1. PICK l \in Lengths : w = IF RealData THEN RealSeq(l) ELSE DummySeq(l)
  BY DEF Workload
<1>2. /\ l[1] \in Nat \ {0} /\ l[2] \in Nat \ {0}
      /\ Reused(l[1]) \in Nat /\ Reused(l[1]) <= l[1]
  BY LengthsAssumption
<1>3. DecodeMode \in BOOLEAN /\ PrefillMode \in BOOLEAN
  BY ModesAssumption
<1>4. CASE RealData
  BY <1>1, <1>2, <1>3, <1>4 DEF RealSeq, NewSequence, Sequence, Bounded
<1>5. CASE ~ RealData
  BY <1>1, <1>2, <1>3, <1>5 DEF DummySeq, NewSequence, Sequence, Bounded
<1> QED
  BY <1>4, <1>5

\* A new sequence has no tokens planned and nothing reported.
LEMMA WorkloadUntouched ==
  \A w \in Workload : w.num_process_token = 0 /\ w.record = FALSE
BY DEF Workload, RealSeq, DummySeq, NewSequence

\* Sequence::update and the milestone tests keep a sequence within its bounds,
\* never take tokens back, and leave none planned.
LEMMA AdvancedBounded ==
  ASSUME NEW r \in Sequence, Bounded(r)
  PROVE  /\ Advanced(r) \in Sequence
         /\ Bounded(Advanced(r))
         /\ Advanced(r).num_process_token = 0
         /\ Advanced(r).current_len = r.current_len + r.num_process_token
         /\ Advanced(r).input_len = r.input_len
         /\ Advanced(r).total_len = r.total_len
<1> DEFINE len == r.current_len + r.num_process_token
           sum == r.sum_stage /\ len # r.input_len
           rec == r.record \/ FirstToken(Updated(r))
           a == [input_len |-> r.input_len, total_len |-> r.total_len,
                 current_len |-> len, num_process_token |-> 0,
                 sum_stage |-> sum, record |-> rec, gen_ahead |-> r.gen_ahead]
<1>1. sum \in BOOLEAN
  OBVIOUS
<1>2. rec \in BOOLEAN
  OBVIOUS
<1>3. Updated(r) = [r EXCEPT !.current_len = len, !.num_process_token = 0,
                             !.sum_stage = sum]
  BY DEF Updated
<1>4. Updated(r).record = r.record
  BY <1>3 DEF Sequence
<1>5. Advanced(r) = [Updated(r) EXCEPT !.record = rec]
  BY <1>4 DEF Advanced
<1> HIDE DEF sum, rec
<1>6. Advanced(r) = a
  BY <1>3, <1>5 DEF Sequence
<1>7. a \in Sequence
  BY <1>1, <1>2 DEF Sequence
<1>8. Bounded(a)
  BY DEF Bounded, Sequence
<1> QED
  BY <1>6, <1>7, <1>8

\* Reporting a sequence only moves its gen_start_time.
LEMMA AddLatencyBounded ==
  ASSUME NEW r \in Sequence, Bounded(r), NEW t \in Nat
  PROVE  AddLatency(r, t) \in Sequence /\ Bounded(AddLatency(r, t))
BY DEF Sequence, Bounded, AddLatency

-----------------------------------------------------------------------------
(* Planning an iteration *)

\* A running sequence is in the batch its rank names.
LEMMA RankOfRunning ==
  ASSUME TypeOK, NEW s \in Running
  PROVE  RankOf(s) \in Dp /\ s \in running_queue[RankOf(s)]
BY DEF Running, RankOf

\* The share of a prompt is a number of tokens that ends with the prompt.
LEMMA SumTokensBounded ==
  ASSUME TypeOK, NEW s \in Running, IsSum(s)
  PROVE  SumTokens(s) \in Nat /\ SumTokens(s) <= seq[s].input_len - seq[s].current_len
<1> DEFINE n == Cardinality(SumOf(RankOf(s)))
<1>1. s \in Seqs /\ s \in SumOf(RankOf(s))
  BY RankOfRunning DEF SumOf, TypeOK
<1>2. SumOf(RankOf(s)) \in SUBSET Seqs
  BY RankOfRunning DEF SumOf, TypeOK
<1>3. n \in Nat \ {0}
  BY <1>1, <1>2, SubsetCardinality, FS_EmptySet
<1>4. MaxProcessToken \div n \in Nat
  BY <1>3, DivNat, SizesAssumption
<1>5. seq[s].input_len \in Nat /\ seq[s].current_len \in Nat
  BY <1>1 DEF TypeOK, Sequence
<1>6. seq[s].current_len < seq[s].input_len
  BY DEF IsSum
<1> HIDE DEF n
<1> QED
  BY <1>4, <1>5, <1>6 DEF SumTokens, Least, n

\* What setMetadata plans for a running sequence stays within its phase.
LEMMA TokensBounded ==
  ASSUME TypeOK, NEW s \in Running, Bounded(seq[s])
  PROVE  LET r == [seq[s] EXCEPT !.num_process_token = TokensToProcess(s)]
         IN  r \in Sequence /\ Bounded(r)
<1>1. seq[s] \in Sequence
  BY DEF Running, TypeOK
<1>2. CASE IsSum(s)
  <2>1. SumTokens(s) \in Nat /\ SumTokens(s) <= seq[s].input_len - seq[s].current_len
    BY <1>2, SumTokensBounded
  <2> QED
    BY <1>1, <1>2, <2>1 DEF TokensToProcess, Sequence, Bounded, IsSum
<1>3. CASE ~ IsSum(s)
  BY <1>1, <1>3 DEF TokensToProcess, GenScheduled, Sequence, Bounded, IsSum
<1> QED
  BY <1>2, <1>3

-----------------------------------------------------------------------------
(* The operations *)

\* The initial state is within the invariant: the queues are empty.
LEMMA SchedInitInv == SchedInit => SchedInv
<1> SUFFICES ASSUME SchedInit PROVE SchedInv
  OBVIOUS
<1>1. TypeOK
  BY SizesAssumption DEF SchedInit, TypeOK, Dp, Unborn, NewSequence, Sequence
<1>2. CountersOK
  BY DEF SchedInit, CountersOK
<1>3. \A s \in Seqs : Bounded(seq[s])
  BY DEF SchedInit, Unborn, NewSequence, Bounded
<1>4. SlotCapacity
  BY SlotsNat, FS_EmptySet DEF SchedInit, SlotCapacity
<1>5. OnePlace
  BY DEF SchedInit, OnePlace
<1> QED
  BY <1>1, <1>2, <1>3, <1>4, <1>5 DEF SchedInv

\* A step that leaves the queues alone leaves what is said of them alone.
LEMMA QueuesUnchanged ==
  ASSUME SlotCapacity, OnePlace, UNCHANGED <<sequence_queue, running_queue>>
  PROVE  SlotCapacity' /\ OnePlace'
BY DEF SlotCapacity, OnePlace, Waiting

\* pop only takes sequences away from the batches.
LEMMA PopShrinks ==
  ASSUME TypeOK, SlotCapacity, OnePlace, NEW S, Pop(S), UNCHANGED sequence_queue
  PROVE  /\ running_queue' \in [Dp -> SUBSET Seqs]
         /\ SlotCapacity'
         /\ OnePlace'
<1>1. running_queue' \in [Dp -> SUBSET Seqs]
  BY DEF Pop, TypeOK
<1>2. \A d \in Dp : running_queue'[d] \subseteq running_queue[d]
  BY DEF Pop
<1>3. ASSUME NEW d \in Dp PROVE Cardinality(running_queue'[d]) <= BatchSizePerDp
  <2>1. running_queue[d] \in SUBSET Seqs /\ running_queue'[d] \in SUBSET Seqs
    BY <1>1 DEF TypeOK
  <2>2. Cardinality(running_queue'[d]) <= Cardinality(running_queue[d])
    BY <1>2, <2>1, SubsetCardinality, FS_Subset
  <2> QED
    BY <2>1, <2>2, SubsetCardinality, SlotsNat DEF SlotCapacity
<1>4. SlotCapacity'
  BY <1>3 DEF SlotCapacity
<1>5. OnePlace'
  BY <1>2 DEF OnePlace, Waiting
<1> QED
  BY <1>1, <1>4, <1>5

\* setMetadata keeps the invariant.
LEMMA SetMetadataInv ==
  ASSUME SchedInv, SetMetadata
  PROVE  SchedInv'
<1>1. \A s \in Seqs : seq'[s] \in Sequence /\ Bounded(seq'[s])
  BY TokensBounded DEF SchedInv, SetMetadata, TypeOK
<1>2. seq' \in [Seqs -> Sequence]
  BY <1>1 DEF SetMetadata
<1>3. TypeOK'
  BY <1>2 DEF SchedInv, TypeOK, SetMetadata
<1>4. CountersOK'
  BY DEF SchedInv, TypeOK, CountersOK, SetMetadata
<1>5. SlotCapacity' /\ OnePlace'
  BY QueuesUnchanged DEF SchedInv, SetMetadata
<1> QED
  BY <1>1, <1>3, <1>4, <1>5 DEF SchedInv

\* A warm-up iteration keeps the invariant.
LEMMA HitUpdateInv ==
  ASSUME SchedInv, HitUpdate
  PROVE  SchedInv'
<1>1. \A s \in Seqs : seq'[s] \in Sequence /\ Bounded(seq'[s])
  BY AdvancedBounded DEF SchedInv, HitUpdate, TypeOK
<1>2. seq' \in [Seqs -> Sequence]
  BY <1>1 DEF HitUpdate
<1>3. running_queue' \in [Dp -> SUBSET Seqs] /\ SlotCapacity' /\ OnePlace'
  BY PopShrinks DEF SchedInv, HitUpdate
<1>4. TypeOK'
  BY <1>2, <1>3 DEF SchedInv, TypeOK, CountersOK, HitUpdate
<1>5. CountersOK'
  BY DEF CountersOK, HitUpdate
<1> QED
  BY <1>1, <1>3, <1>4, <1>5 DEF SchedInv

\* Counting the requests to create keeps the invariant.
LEMMA FillSequenceQueueInv ==
  ASSUME SchedInv, FillSequenceQueue
  PROVE  SchedInv'
<1>1. \A n \in RequestsToInject : n \in Int
  <2>1. TotalBatchSize \in Nat /\ MaxArrivals \in Nat
    BY SizesAssumption
  <2>2. Fresh \in SUBSET Seqs
    BY DEF Fresh
  <2>3. Cardinality(Fresh) \in Nat
    BY <2>2, SubsetCardinality
  <2> QED
    BY <2>1, <2>3, BatchSizeNat DEF RequestsToInject, Most, Least
<1>2. TypeOK'
  BY <1>1 DEF SchedInv, TypeOK, FillSequenceQueue
<1>3. CountersOK'
  BY DEF CountersOK, FillSequenceQueue
<1>4. SlotCapacity' /\ OnePlace'
  BY QueuesUnchanged DEF SchedInv, FillSequenceQueue
<1> QED
  BY <1>2, <1>3, <1>4 DEF SchedInv, FillSequenceQueue

\* Creating a sequence keeps the invariant: it is new, so it is in one place.
LEMMA PushSeqInv ==
  ASSUME SchedInv, PushSeq
  PROVE  SchedInv'
<1>1. PICK s \in Fresh, w \in Workload :
        /\ seq' = [seq EXCEPT ![s] = w]
        /\ sequence_queue' = Append(sequence_queue, s)
  BY DEF PushSeq, Enqueued
<1>2. s \in Seqs /\ s \notin Running /\ s \notin Waiting
  BY DEF Fresh
<1>3. w \in Sequence /\ Bounded(w)
  BY WorkloadBounded
<1>4. sequence_queue \in Seq(Seqs) /\ seq \in [Seqs -> Sequence]
  BY DEF SchedInv, TypeOK
<1>5. /\ sequence_queue' \in Seq(Seqs)
      /\ Len(sequence_queue') = Len(sequence_queue) + 1
      /\ \A i \in 1 .. Len(sequence_queue) : sequence_queue'[i] = sequence_queue[i]
      /\ sequence_queue'[Len(sequence_queue) + 1] = s
  BY <1>1, <1>2, <1>4
<1>6. TypeOK'
  <2>1. seq' \in [Seqs -> Sequence]
    BY <1>1, <1>3, <1>4
  <2>2. to_push' \in Int
    BY DEF SchedInv, TypeOK, PushSeq
  <2> QED
    BY <1>5, <2>1, <2>2 DEF SchedInv, TypeOK, PushSeq
<1>7. CountersOK' /\ SlotCapacity'
  BY DEF SchedInv, CountersOK, SlotCapacity, PushSeq
<1>8. \A u \in Seqs : Bounded(seq'[u])
  BY <1>1, <1>3, <1>4 DEF SchedInv
<1>9. OnePlace'
  <2>1. Waiting' = Waiting \cup {s}
    <3>1. 1 .. Len(sequence_queue') = (1 .. Len(sequence_queue)) \cup {Len(sequence_queue) + 1}
      BY <1>4, <1>5
    <3> QED
      BY <3>1, <1>5 DEF Waiting
  <2>2. running_queue' = running_queue
    BY DEF PushSeq
  <2>3. \A d \in Dp : running_queue'[d] \cap Waiting' = {}
    BY <2>1, <2>2, <1>2 DEF SchedInv, OnePlace, Running
  <2>4. ASSUME NEW i \in 1 .. Len(sequence_queue'), NEW j \in 1 .. Len(sequence_queue'),
               sequence_queue'[i] = sequence_queue'[j]
        PROVE  i = j
    <3>1. \A k \in 1 .. Len(sequence_queue) : sequence_queue'[k] # s
      BY <1>2, <1>5 DEF Waiting
    <3>2. CASE i \in 1 .. Len(sequence_queue) /\ j \in 1 .. Len(sequence_queue)
      BY <3>2, <2>4, <1>5 DEF SchedInv, OnePlace
    <3>3. CASE ~ (i \in 1 .. Len(sequence_queue) /\ j \in 1 .. Len(sequence_queue))
      BY <3>1, <3>3, <2>4, <1>4, <1>5
    <3> QED
      BY <3>2, <3>3
  <2> QED
    BY <2>2, <2>3, <2>4 DEF SchedInv, OnePlace
<1> QED
  BY <1>6, <1>7, <1>8, <1>9 DEF SchedInv

\* Fixing the number of admissions keeps the invariant: it is at most the
\* length of the queue.
LEMMA FillRunningQueueInv ==
  ASSUME SchedInv, FillRunningQueue
  PROVE  SchedInv'
<1>1. TotalBatchSize \in Nat /\ Len(sequence_queue) \in Nat
  BY SizesAssumption DEF SchedInv, TypeOK
<1>2. to_admit' \in Int /\ to_admit' <= Len(sequence_queue)
  BY <1>1, BatchSizeNat DEF FillRunningQueue, Least
<1>3. TypeOK'
  BY <1>2 DEF SchedInv, TypeOK, FillRunningQueue
<1>4. CountersOK'
  BY <1>2 DEF CountersOK, FillRunningQueue
<1>5. SlotCapacity' /\ OnePlace'
  BY QueuesUnchanged DEF SchedInv, FillRunningQueue
<1> QED
  BY <1>3, <1>4, <1>5 DEF SchedInv, FillRunningQueue

\* Admitting the head of the queue keeps the invariant: the replica it goes to
\* has a free slot, and it leaves the queue.
LEMMA AdmitInv ==
  ASSUME SchedInv, Admit
  PROVE  SchedInv'
<1>1. /\ pc = "admit" /\ pc' = "admit" /\ to_admit > 0 /\ to_admit' = to_admit - 1
      /\ UNCHANGED <<seq, to_push, warm>>
  BY DEF Admit
<1>2. TypeOK /\ SlotCapacity /\ OnePlace /\ to_admit <= Len(sequence_queue)
  BY <1>1 DEF SchedInv, CountersOK
<1>3. CASE FreeFromRotate = {}
  <2>1. UNCHANGED <<sequence_queue, running_queue, rotate>>
    BY <1>3 DEF Admit
  <2>2. TypeOK'
    BY <1>1, <1>2, <2>1 DEF TypeOK
  <2>3. CountersOK'
    BY <1>1, <1>2, <2>1 DEF CountersOK, TypeOK
  <2>4. SlotCapacity' /\ OnePlace'
    BY <1>2, <2>1, QueuesUnchanged
  <2> QED
    BY <1>1, <2>2, <2>3, <2>4 DEF SchedInv
<1>4. CASE FreeFromRotate # {}
  <2> DEFINE h == Head(sequence_queue)
  <2>1. PICK k \in FreeFromRotate :
          /\ running_queue' =
               [running_queue EXCEPT ![(rotate + k) % DpDegree] = @ \cup {h}]
          /\ sequence_queue' = Tail(sequence_queue)
          /\ rotate' = NextRotate((rotate + k) % DpDegree)
    BY <1>4 DEF Admit, Dequeued
  <2> DEFINE d == (rotate + k) % DpDegree
  <2>2. d \in Dp /\ rotate' \in Dp
    <3>1. \A n \in Int : n % DpDegree \in Dp
      BY SizesAssumption DEF Dp
    <3>2. k \in Int /\ rotate \in Int
      BY <1>2 DEF FreeFromRotate, TypeOK, Dp
    <3>3. d \in Dp
      BY <3>1, <3>2
    <3> HIDE DEF d
    <3>4. d + 1 \in Int
      BY <3>3 DEF Dp
    <3>5. (d + 1) % DpDegree \in Dp
      BY <3>1, <3>4
    <3> QED
      BY <2>1, <3>3, <3>5 DEF NextRotate, d
  <2>3. Cardinality(running_queue[d]) < BatchSizePerDp
    BY DEF FreeFromRotate
  <2> HIDE DEF d
  <2>4. running_queue' = [running_queue EXCEPT ![d] = @ \cup {h}]
    BY <2>1 DEF d
  <2>5. /\ sequence_queue \in Seq(Seqs) /\ Len(sequence_queue) \in Nat
        /\ Len(sequence_queue) > 0 /\ sequence_queue # << >>
    BY <1>1, <1>2 DEF TypeOK
  <2>6. /\ sequence_queue' \in Seq(Seqs)
        /\ Len(sequence_queue') = Len(sequence_queue) - 1
        /\ \A i \in 1 .. Len(sequence_queue') : sequence_queue'[i] = sequence_queue[i + 1]
        /\ h = sequence_queue[1] /\ h \in Seqs
    BY <2>1, <2>5
  <2> HIDE DEF h
  <2>7. running_queue' \in [Dp -> SUBSET Seqs]
    BY <1>2, <2>2, <2>4, <2>6 DEF TypeOK
  <2>8. TypeOK'
    BY <1>1, <1>2, <2>2, <2>6, <2>7 DEF TypeOK
  <2>9. CountersOK'
    BY <1>1, <1>2, <2>5, <2>6 DEF CountersOK, TypeOK
  <2>10. SlotCapacity'
    <3>1. running_queue[d] \in SUBSET Seqs
      BY <1>2, <2>2 DEF TypeOK
    <3>2. IsFiniteSet(running_queue[d]) /\ Cardinality(running_queue[d]) \in Nat
      BY <3>1, SubsetCardinality
    <3>3. Cardinality(running_queue[d] \cup {h})
            = IF h \in running_queue[d] THEN Cardinality(running_queue[d])
                                        ELSE Cardinality(running_queue[d]) + 1
      BY <3>2, FS_AddElement
    <3>4. Cardinality(running_queue[d] \cup {h}) <= BatchSizePerDp
      BY <2>3, <3>2, <3>3, SlotsNat
    <3> QED
      BY <1>2, <2>2, <2>4, <3>4 DEF SlotCapacity, TypeOK
  <2>11. OnePlace'
    <3>1. Waiting' \subseteq Waiting /\ h \in Waiting /\ h \notin Waiting'
      <4>1. Waiting' \subseteq Waiting
        BY <2>5, <2>6 DEF Waiting
      <4>2. h \in Waiting
        BY <2>5, <2>6 DEF Waiting
      <4>3. \A i \in 1 .. Len(sequence_queue') : sequence_queue'[i] # h
        <5> SUFFICES ASSUME NEW i \in 1 .. Len(sequence_queue'), sequence_queue[i + 1] = h
                     PROVE  FALSE
          BY <2>6
        <5>1. 1 \in 1 .. Len(sequence_queue) /\ i + 1 \in 1 .. Len(sequence_queue)
          BY <2>5, <2>6
        <5>2. i + 1 = 1
          BY <1>2, <2>6, <5>1 DEF OnePlace
        <5> QED
          BY <5>2
      <4> QED
        BY <4>1, <4>2, <4>3 DEF Waiting
    <3>2. \A e \in Dp : h \notin running_queue[e]
      BY <1>2, <3>1 DEF OnePlace
    <3>3. \A e \in Dp : running_queue'[e] = IF e = d THEN running_queue[e] \cup {h}
                                                    ELSE running_queue[e]
      BY <1>2, <2>4 DEF TypeOK
    <3>4. ASSUME NEW e \in Dp PROVE running_queue'[e] \cap Waiting' = {}
      <4>1. running_queue[e] \cap Waiting = {}
        BY <1>2 DEF OnePlace
      <4>2. running_queue'[e] \subseteq running_queue[e] \cup {h}
        BY <3>3
      <4> QED
        BY <3>1, <4>1, <4>2
    <3>5. ASSUME NEW e \in Dp, NEW f \in Dp, e # f
          PROVE  running_queue'[e] \cap running_queue'[f] = {}
      BY <1>2, <3>2, <3>3, <3>5 DEF OnePlace
    <3>6. ASSUME NEW i \in 1 .. Len(sequence_queue'), NEW j \in 1 .. Len(sequence_queue'),
                 sequence_queue'[i] = sequence_queue'[j]
          PROVE  i = j
      <4>1. /\ i + 1 \in 1 .. Len(sequence_queue) /\ j + 1 \in 1 .. Len(sequence_queue)
            /\ sequence_queue[i + 1] = sequence_queue[j + 1]
        BY <2>5, <2>6, <3>6
      <4>2. i + 1 = j + 1
        BY <1>2, <4>1 DEF OnePlace
      <4> QED
        BY <4>2
    <3> QED
      BY <3>4, <3>5, <3>6 DEF OnePlace
  <2> QED
    BY <1>1, <2>8, <2>9, <2>10, <2>11 DEF SchedInv
<1> QED
  BY <1>3, <1>4

\* The end of the admissions keeps the invariant.
LEMMA EndAdmitInv ==
  ASSUME SchedInv, EndAdmit
  PROVE  SchedInv'
<1>1. TypeOK' /\ CountersOK'
  BY DEF SchedInv, TypeOK, CountersOK, EndAdmit
<1>2. SlotCapacity' /\ OnePlace'
  BY QueuesUnchanged DEF SchedInv, EndAdmit
<1> QED
  BY <1>1, <1>2 DEF SchedInv, EndAdmit

\* The refill keeps the invariant.
LEMMA RefillInv ==
  ASSUME SchedInv, Refill
  PROVE  SchedInv'
BY FillSequenceQueueInv, PushSeqInv, FillRunningQueueInv, AdmitInv, EndAdmitInv
   DEF Refill

\* A refill changes a sequence only by creating it.
LEMMA RefillCreates ==
  ASSUME SchedInv, Refill
  PROVE  \A s \in Seqs : \/ seq'[s] = seq[s]
                         \/ s \notin Running /\ seq'[s] \in Workload
<1>1. CASE PushSeq
  <2>1. PICK s \in Fresh, w \in Workload : seq' = [seq EXCEPT ![s] = w]
    BY <1>1 DEF PushSeq
  <2> QED
    BY <2>1 DEF SchedInv, TypeOK, Fresh
<1>2. CASE ~ PushSeq
  BY <1>2 DEF Refill, FillSequenceQueue, FillRunningQueue, Admit, EndAdmit
<1> QED
  BY <1>1, <1>2

\* The batches only grow in a refill, and a refill touches no running sequence.
LEMMA RefillKeepsRunning ==
  ASSUME SchedInv, Refill
  PROVE  \A s \in Running : s \in Running' /\ seq'[s] = seq[s]
<1>1. TypeOK
  BY DEF SchedInv
<1>2. CASE PushSeq
  <2>1. PICK s \in Fresh, w \in Workload : seq' = [seq EXCEPT ![s] = w]
    BY <1>2 DEF PushSeq
  <2> QED
    BY <1>1, <1>2, <2>1 DEF PushSeq, Fresh, Running, TypeOK
<1>3. CASE Admit
  <2>1. seq' = seq
    BY <1>3 DEF Admit
  <2>2. \A d \in Dp : running_queue[d] \subseteq running_queue'[d]
    <3>1. CASE FreeFromRotate = {}
      BY <1>3, <3>1 DEF Admit
    <3>2. CASE FreeFromRotate # {}
      <4>1. PICK k \in FreeFromRotate :
              running_queue' = [running_queue EXCEPT
                ![(rotate + k) % DpDegree] = @ \cup {Head(sequence_queue)}]
        BY <1>3, <3>2 DEF Admit
      <4> QED
        BY <1>1, <4>1 DEF TypeOK
    <3> QED
      BY <3>1, <3>2
  <2> QED
    BY <2>1, <2>2 DEF Running
<1>4. CASE FillSequenceQueue \/ FillRunningQueue \/ EndAdmit
  BY <1>4 DEF FillSequenceQueue, FillRunningQueue, EndAdmit, Running
<1> QED
  BY <1>2, <1>3, <1>4 DEF Refill

\* The invariant implies that a step lands on the boundaries of a sequence.
LEMMA InvLands == SchedInv => LandsOnBoundaries
BY DEF SchedInv, TypeOK, LandsOnBoundaries, Bounded, IsSum, Running

-----------------------------------------------------------------------------
(* Continuous batching: what a step is in the abstract specification *)

\* The tokens a sequence still needs, as the refinement mapping has them.
Left(s) == seq[s].total_len - seq[s].current_len

\* The requests of the abstract specification are where the sequences are.
LEMMA BatchingPlaces == CB!Active = Running /\ CB!Queued = Waiting
BY DEF CB!Active, CB!Queued, Running, Waiting

\* The instance counts as the scheduler does.
LEMMA BatchingCardinality ==
  ASSUME NEW S
  PROVE  CB!Cardinality(S) = Cardinality(S)
BY Zenon DEF CB!Cardinality, Cardinality

\* Empty queues are the abstract initial state.
LEMMA BatchingInit == SchedInit => CB!Init
<1> SUFFICES ASSUME SchedInit PROVE CB!Init
  OBVIOUS
<1>1. \A s \in Seqs : Left(s) = 0
  BY DEF SchedInit, Unborn, NewSequence, Left
<1>2. [s \in Seqs |-> Left(s)] \in [Seqs -> Nat]
  BY <1>1
<1> QED
  BY <1>2 DEF SchedInit, CB!Init, Left

\* A step that moves nothing between the queues and takes no token from what a
\* sequence still needs is not seen.
LEMMA BatchingStutter ==
  ASSUME UNCHANGED <<sequence_queue, running_queue>>,
         \A s \in Seqs : Left(s)' = Left(s)
  PROVE  UNCHANGED CB!vars
<1>1. [s \in Seqs |-> Left(s)'] = [s \in Seqs |-> Left(s)]
  OBVIOUS
<1> QED
  BY <1>1 DEF CB!vars, Left

\* Planning is not seen.
LEMMA BatchingPlan ==
  ASSUME SchedInv, SetMetadata
  PROVE  UNCHANGED CB!vars
<1>1. ASSUME NEW s \in Seqs PROVE Left(s)' = Left(s)
  <2>1. seq[s] \in Sequence
    BY DEF SchedInv, TypeOK
  <2>2. seq'[s] = IF s \in Running
                    THEN [seq[s] EXCEPT !.num_process_token = TokensToProcess(s)]
                    ELSE seq[s]
    BY DEF SetMetadata
  <2> QED
    BY <2>1, <2>2 DEF Left, Sequence
<1> QED
  BY <1>1, BatchingStutter DEF SetMetadata

\* Creating a sequence is an arrival.
LEMMA BatchingArrive ==
  ASSUME SchedInv, PushSeq
  PROVE  \E s \in Seqs : CB!Arrive(s)
<1>1. PICK s \in Fresh, w \in Workload :
        /\ seq' = [seq EXCEPT ![s] = w]
        /\ sequence_queue' = Append(sequence_queue, s)
  BY DEF PushSeq, Enqueued
<1>2. s \in Seqs /\ s \notin CB!Active \cup CB!Queued
  BY BatchingPlaces DEF Fresh
<1>3. seq'[s] = w /\ \A u \in Seqs \ {s} : seq'[u] = seq[u]
  BY <1>1, <1>2 DEF SchedInv, TypeOK
<1>4. Left(s)' \in Nat
  <2>1. w \in Sequence /\ Bounded(w)
    BY WorkloadBounded
  <2> QED
    BY <1>3, <2>1, WorkloadUntouched DEF Left, Sequence, Bounded
<1>5. \A u \in Seqs \ {s} : Left(u)' = Left(u)
  BY <1>3 DEF Left
<1>6. running_queue' = running_queue
  BY DEF PushSeq
<1> QED
  BY <1>1, <1>2, <1>4, <1>5, <1>6 DEF CB!Arrive, Left

\* An admission gives the oldest request a free slot, or is not seen.
LEMMA BatchingAdmit ==
  ASSUME SchedInv, Admit
  PROVE  (\E d \in Dp : CB!Admit(d)) \/ UNCHANGED CB!vars
<1>1. seq' = seq
  BY DEF Admit
<1>2. CASE FreeFromRotate = {}
  BY <1>1, <1>2, BatchingStutter DEF Admit, Left
<1>3. CASE FreeFromRotate # {}
  <2>1. PICK k \in FreeFromRotate :
          /\ running_queue' =
               [running_queue EXCEPT
                  ![(rotate + k) % DpDegree] = @ \cup {Head(sequence_queue)}]
          /\ sequence_queue' = Tail(sequence_queue)
    BY <1>3 DEF Admit, Dequeued
  <2> DEFINE d == (rotate + k) % DpDegree
  <2>2. d \in Dp
    <3>1. k \in Int /\ rotate \in Int
      BY DEF SchedInv, TypeOK, FreeFromRotate, Dp
    <3> QED
      BY <3>1, SizesAssumption DEF Dp
  <2>3. Cardinality(running_queue[d]) < BatchSizePerDp
    BY DEF FreeFromRotate
  <2>4. sequence_queue # << >>
    BY DEF SchedInv, TypeOK, CountersOK, Admit
  <2>5. [s \in Seqs |-> Left(s)'] = [s \in Seqs |-> Left(s)]
    BY <1>1 DEF Left
  <2>6. CB!Admit(d)
    BY <2>1, <2>3, <2>4, <2>5, BatchingCardinality DEF CB!Admit, Left
  <2> QED
    BY <2>2, <2>6
<1> QED
  BY <1>2, <1>3

\* A refill is arrivals and admissions.
LEMMA BatchingRefill ==
  ASSUME SchedInv, Refill
  PROVE  [CB!Next]_CB!vars
<1>1. CASE FillSequenceQueue \/ FillRunningQueue \/ EndAdmit
  BY <1>1, BatchingStutter DEF FillSequenceQueue, FillRunningQueue, EndAdmit, Left
<1> QED
  BY <1>1, BatchingArrive, BatchingAdmit DEF Refill, CB!Next

\* What is left shrinks, and a sequence goes when nothing is left, not before.
LEMMA BatchingMoves ==
  ASSUME TypeOK, UNCHANGED sequence_queue,
         \A s \in Running : Left(s)' \in 0 .. Left(s),
         \A s \in Seqs \ Running : Left(s)' = Left(s),
         running_queue' = [d \in Dp |-> {s \in running_queue[d] : Left(s)' # 0}]
  PROVE  CB!Progress
<1>1. \A s \in Seqs : IF s \in CB!Active THEN Left(s)' \in 0 .. Left(s)
                                        ELSE Left(s)' = Left(s)
  BY BatchingPlaces
<1>2. \A d \in Dp : {s \in running_queue[d] : Left(s)' # 0}
                      = {s \in running_queue[d] : [u \in Seqs |-> Left(u)'][s] # 0}
  BY DEF TypeOK
<1> QED
  BY <1>1, <1>2 DEF CB!Progress, Left

\* An update of some running sequences that pops the finished ones is progress,
\* if none of the others is finished.
LEMMA BatchingProgress ==
  ASSUME SchedInv, NEW S \in SUBSET Running, Pop(S), UNCHANGED sequence_queue,
         \A s \in S : /\ seq'[s].current_len = seq[s].current_len + seq[s].num_process_token
                      /\ seq'[s].total_len = seq[s].total_len,
         \A s \in Seqs \ S : seq'[s] = seq[s],
         \A s \in Running \ S : ~ Done(seq[s])
  PROVE  CB!Progress
<1>1. \A d \in Dp : running_queue[d] \subseteq Running /\ running_queue[d] \subseteq Seqs
  BY DEF SchedInv, TypeOK, Running
<1>2. \A s \in Running : s \in Seqs /\ seq[s] \in Sequence /\ Bounded(seq[s])
  BY DEF SchedInv, TypeOK, Running
<1>3. ASSUME NEW s \in S
      PROVE  Left(s)' \in 0 .. Left(s) /\ (Left(s)' = 0 <=> Done(Updated(seq[s])))
  BY <1>2, <1>3 DEF Left, Sequence, Bounded, Done, Updated
<1>4. ASSUME NEW s \in Running \ S PROVE Left(s)' \in 0 .. Left(s) /\ Left(s)' # 0
  BY <1>2, <1>4 DEF Left, Sequence, Bounded, Done
<1>5. \A s \in Seqs \ Running : Left(s)' = Left(s)
  BY DEF Left
<1>6. \A d \in Dp : {s \in running_queue[d] : s \in S => ~ Done(Updated(seq[s]))}
                      = {s \in running_queue[d] : Left(s)' # 0}
  BY <1>1, <1>3, <1>4
<1>7. running_queue' = [d \in Dp |-> {s \in running_queue[d] : Left(s)' # 0}]
  BY <1>6 DEF Pop
<1> QED
  BY <1>3, <1>4, <1>5, <1>7, BatchingMoves DEF SchedInv

\* So is taking work off sequences that keep some.
LEMMA BatchingSeed ==
  ASSUME TypeOK, UNCHANGED <<sequence_queue, running_queue>>,
         \A s \in Running : Left(s)' \in 1 .. Left(s),
         \A s \in Seqs \ Running : Left(s)' = Left(s)
  PROVE  CB!Progress
<1>1. \A s \in Running : Left(s)' \in 0 .. Left(s) /\ Left(s)' # 0
  OBVIOUS
<1>2. \A d \in Dp : {s \in running_queue[d] : Left(s)' # 0} = running_queue[d]
  BY <1>1 DEF Running
<1>3. running_queue' = [d \in Dp |-> {s \in running_queue[d] : Left(s)' # 0}]
  BY <1>2 DEF TypeOK
<1> QED
  BY <1>1, <1>3, BatchingMoves

-----------------------------------------------------------------------------
(* Sequences that come with work *)

\* Every sequence of the workload has a token to process.
HasWork == \A w \in Workload : w.current_len < w.total_len

\* A sequence that holds a slot or waits for one is not finished.
LiveUnfinished == \A s \in Running \cup Waiting : seq[s].current_len < seq[s].total_len

\* None has decoded a token yet.
AtPromptEnd == \A s \in Running \cup Waiting : seq[s].current_len = seq[s].input_len

\* In decode mode a sequence starts where its prompt ends.
LEMMA DecodeWorkload ==
  ASSUME DecodeMode, NEW w \in Workload
  PROVE  w.current_len = w.input_len
BY DEF Workload, RealSeq, DummySeq, NewSequence

\* A sequence that is still running after pop was running and is not done.
LEMMA StaysRunning ==
  ASSUME NEW S, Pop(S), NEW s \in Running'
  PROVE  s \in Running /\ (s \in S => ~ Done(Updated(seq[s])))
<1>1. PICK d \in Dp : s \in running_queue'[d]
  BY DEF Running
<1> QED
  BY <1>1 DEF Pop, Running

\* After a refill a live sequence is what it was, or new.
LEMMA RefillLive ==
  ASSUME SchedInv, Refill, NEW s \in Running' \cup Waiting'
  PROVE  (s \in Running \cup Waiting /\ seq'[s] = seq[s]) \/ seq'[s] \in Workload
<1>1. TypeOK
  BY DEF SchedInv
<1>2. CASE PushSeq
  <2>1. PICK u \in Fresh, w \in Workload :
          seq' = [seq EXCEPT ![u] = w] /\ sequence_queue' = Append(sequence_queue, u)
    BY <1>2 DEF PushSeq, Enqueued
  <2>2. Running' = Running
    BY <1>2 DEF PushSeq, Running
  <2>3. Waiting' \subseteq Waiting \cup {u}
    BY <1>1, <2>1 DEF Waiting, TypeOK, Fresh
  <2>4. u \in Seqs /\ Running \cup Waiting \subseteq Seqs
    BY <1>1 DEF Fresh, Running, Waiting, TypeOK
  <2> QED
    BY <1>1, <2>1, <2>2, <2>3, <2>4 DEF TypeOK
<1>3. CASE Admit
  <2>1. seq' = seq
    BY <1>3 DEF Admit
  <2>2. CASE FreeFromRotate = {}
    BY <1>3, <2>1, <2>2 DEF Admit, Running, Waiting
  <2>3. CASE FreeFromRotate # {}
    <3>1. PICK k \in FreeFromRotate :
            /\ running_queue' =
                 [running_queue EXCEPT
                    ![(rotate + k) % DpDegree] = @ \cup {Head(sequence_queue)}]
            /\ sequence_queue' = Tail(sequence_queue)
      BY <1>3, <2>3 DEF Admit, Dequeued
    <3>2. /\ sequence_queue \in Seq(Seqs) /\ Len(sequence_queue) \in Nat
          /\ Len(sequence_queue) > 0
      BY <1>3 DEF Admit, SchedInv, TypeOK, CountersOK
    <3>3. Head(sequence_queue) \in Waiting /\ Waiting' \subseteq Waiting
      BY <3>1, <3>2 DEF Waiting
    <3>4. Running' \subseteq Running \cup {Head(sequence_queue)}
      BY <1>1, <3>1 DEF Running, TypeOK
    <3> QED
      BY <2>1, <3>3, <3>4
  <2> QED
    BY <2>2, <2>3
<1>4. CASE FillSequenceQueue \/ FillRunningQueue \/ EndAdmit
  BY <1>4 DEF FillSequenceQueue, FillRunningQueue, EndAdmit, Running, Waiting
<1> QED
  BY <1>2, <1>3, <1>4 DEF Refill

\* An update that pops what it finishes leaves no finished sequence.
LEMMA UpdateKeepsUnfinished ==
  ASSUME SchedInv, LiveUnfinished, NEW S \in SUBSET Running, Pop(S), UNCHANGED sequence_queue,
         \A s \in S : /\ seq'[s].current_len = seq[s].current_len + seq[s].num_process_token
                      /\ seq'[s].total_len = seq[s].total_len,
         \A s \in Seqs \ S : seq'[s] = seq[s]
  PROVE  LiveUnfinished'
<1>1. /\ TypeOK /\ \A s \in Running \cup Waiting : s \in Seqs
      /\ Waiting' = Waiting
  BY DEF SchedInv, TypeOK, Running, Waiting
<1>2. ASSUME NEW s \in Running' PROVE seq'[s].current_len < seq'[s].total_len
  <2>1. s \in Running /\ (s \in S => ~ Done(Updated(seq[s]))) /\ s \in Seqs
    BY <1>1, StaysRunning
  <2>2. seq[s] \in Sequence /\ Bounded(seq[s])
    BY <1>1, <2>1 DEF SchedInv, TypeOK
  <2> QED
    BY <2>1, <2>2 DEF LiveUnfinished, Done, Updated, Bounded, Sequence
<1>3. ASSUME NEW s \in Waiting' PROVE seq'[s].current_len < seq'[s].total_len
  <2>1. s \in Waiting /\ s \notin Running /\ s \in Seqs
    BY <1>1 DEF SchedInv, OnePlace, Running
  <2> QED
    BY <2>1 DEF LiveUnfinished
<1> QED
  BY <1>2, <1>3 DEF LiveUnfinished

\* So does a refill, if the workload comes with work.
LEMMA RefillKeepsUnfinished ==
  ASSUME HasWork, SchedInv, LiveUnfinished, Refill
  PROVE  LiveUnfinished'
BY RefillLive DEF HasWork, LiveUnfinished

\* In decode mode it brings sequences that have not decoded yet.
LEMMA RefillKeepsPromptEnd ==
  ASSUME DecodeMode, SchedInv, AtPromptEnd, Refill
  PROVE  AtPromptEnd'
BY RefillLive, DecodeWorkload DEF AtPromptEnd

\* An iteration of the warm-up moves every running sequence by its tokens.
LEMMA HitMoves ==
  ASSUME SchedInv, HitUpdate
  PROVE  /\ \A s \in Running :
              /\ seq'[s].current_len = seq[s].current_len + seq[s].num_process_token
              /\ seq'[s].total_len = seq[s].total_len
         /\ \A s \in Seqs \ Running : seq'[s] = seq[s]
         /\ Pop(Running) /\ UNCHANGED sequence_queue
<1>1. ASSUME NEW s \in Running
      PROVE  /\ seq'[s].current_len = seq[s].current_len + seq[s].num_process_token
             /\ seq'[s].total_len = seq[s].total_len
  <2>1. seq[s] \in Sequence /\ Bounded(seq[s]) /\ seq'[s] = Advanced(seq[s])
    BY DEF HitUpdate, SchedInv, TypeOK, Running
  <2> QED
    BY <2>1, AdvancedBounded
<1> QED
  BY <1>1 DEF HitUpdate

\* Planning and launching move no sequence.
LEMMA SameLengths ==
  ASSUME UNCHANGED <<sequence_queue, running_queue>>,
         \A s \in Running \cup Waiting :
           /\ seq'[s].current_len = seq[s].current_len
           /\ seq'[s].total_len = seq[s].total_len
           /\ seq'[s].input_len = seq[s].input_len
  PROVE  /\ LiveUnfinished => LiveUnfinished'
         /\ AtPromptEnd => AtPromptEnd'
<1>1. Running' = Running /\ Waiting' = Waiting
  BY DEF Running, Waiting
<1> QED
  BY <1>1 DEF LiveUnfinished, AtPromptEnd

\* Planning only sets tokens.
LEMMA PlanLengths ==
  ASSUME TypeOK, SetMetadata, NEW s \in Running \cup Waiting
  PROVE  /\ seq'[s].current_len = seq[s].current_len
         /\ seq'[s].total_len = seq[s].total_len
         /\ seq'[s].input_len = seq[s].input_len
<1>1. s \in Seqs
  BY DEF TypeOK, Running, Waiting
<1>2. /\ seq'[s] = IF s \in Running
                     THEN [seq[s] EXCEPT !.num_process_token = TokensToProcess(s)]
                     ELSE seq[s]
      /\ seq[s] \in Sequence
  BY <1>1 DEF SetMetadata, TypeOK
<1> QED
  BY <1>2 DEF Sequence

\* The tokens a seeded sequence is given leave it at least one.
LEMMA GeneratedBelow ==
  ASSUME NEW r \in Sequence, r.input_len < r.total_len,
         NEW n \in Nat, NEW i \in Nat, i < n
  PROVE  Generated(r, i, n) \in 0 .. r.total_len - r.input_len - 1
<1> DEFINE m == Most(0, r.total_len - r.input_len - 1)
<1>1. m \in Nat /\ m = r.total_len - r.input_len - 1
  BY DEF Most, Sequence
<1> HIDE DEF m
<1>2. CASE n = 1
  BY <1>1, <1>2 DEF Generated
<1>3. CASE n # 1
  BY <1>1, <1>3, ShareBounded DEF Generated, m
<1> QED
  BY <1>2, <1>3

-----------------------------------------------------------------------------
(* Slots: what the counters of a refill say of free slots *)

\* The members of a finite set can be numbered from 1.
LEMMA Numbering ==
  ASSUME NEW S, IsFiniteSet(S)
  PROVE  \E f \in [S -> 1 .. Cardinality(S)] : \A x, y \in S : f[x] = f[y] => x = y
<1>1. ExistsBijection(1 .. Cardinality(S), S)
  BY FS_CardinalityType
<1>2. PICK g \in [1 .. Cardinality(S) -> S] : \A x \in S : \E i \in 1 .. Cardinality(S) : g[i] = x
  BY <1>1 DEF ExistsBijection, Bijection, Surjection
<1> DEFINE f == [x \in S |-> CHOOSE i \in 1 .. Cardinality(S) : g[i] = x]
<1>3. \A x \in S : f[x] \in 1 .. Cardinality(S) /\ g[f[x]] = x
  BY <1>2
<1>4. f \in [S -> 1 .. Cardinality(S)]
  BY <1>3
<1> HIDE DEF f
<1> QED
  BY <1>3, <1>4

\* The running sequences, each with its replica: what getBatchSize counts.
Batches == {p \in Dp \X Seqs : p[2] \in running_queue[p[1]]}

\* There are finitely many.
LEMMA BatchesFinite == IsFiniteSet(Batches)
<1>1. IsFiniteSet(Dp)
  BY SizesAssumption, FS_Interval DEF Dp
<1>2. Batches \in SUBSET (Dp \X Seqs)
  BY DEF Batches
<1>3. IsFiniteSet(Dp \X Seqs)
  BY <1>1, SeqsFinite, FS_Product
<1> QED
  BY <1>2, <1>3, FS_Subset

AllFull == \A d \in Dp : Cardinality(running_queue[d]) = BatchSizePerDp

\* While a replica has a free slot there are fewer running sequences than slots.
LEMMA FreeSlotCounts ==
  ASSUME TypeOK, SlotCapacity, ~ AllFull
  PROVE  GetBatchSize < DpDegree * BatchSizePerDp
<1> DEFINE B == BatchSizePerDp
           Number(e) == {f \in [running_queue[e] -> 1 .. B] :
                           /\ \A x, y \in running_queue[e] : f[x] = f[y] => x = y
                           /\ \A x \in running_queue[e] : f[x] <= Cardinality(running_queue[e])}
           F == [e \in Dp |-> CHOOSE f \in Number(e) : TRUE]
           T == Dp \X (1 .. B)
           g == [p \in Batches |-> <<p[1], F[p[1]][p[2]]>>]
<1>1. B \in Nat /\ DpDegree \in Nat
  BY SlotsNat, SizesAssumption
<1>2. \A e \in Dp : /\ running_queue[e] \in SUBSET Seqs
                    /\ IsFiniteSet(running_queue[e])
                    /\ Cardinality(running_queue[e]) \in Nat
                    /\ Cardinality(running_queue[e]) <= B
  BY SubsetCardinality DEF TypeOK, SlotCapacity
<1>3. PICK d \in Dp : Cardinality(running_queue[d]) < B
  BY <1>1, <1>2 DEF AllFull
<1> HIDE DEF B
<1>4. ASSUME NEW e \in Dp PROVE Number(e) # {}
  <2> DEFINE n == Cardinality(running_queue[e])
  <2>1. PICK f \in [running_queue[e] -> 1 .. n] :
          \A x, y \in running_queue[e] : f[x] = f[y] => x = y
    BY <1>2, Numbering
  <2>2. n \in Nat /\ n <= B
    BY <1>2
  <2> HIDE DEF n
  <2>3. f \in [running_queue[e] -> 1 .. B] /\ \A x \in running_queue[e] : f[x] <= n
    BY <1>1, <2>1, <2>2
  <2> QED
    BY <2>1, <2>3 DEF n
<1>5. \A e \in Dp : F[e] \in Number(e)
  BY <1>4
<1> HIDE DEF F
<1>6. \A p \in Batches : /\ p[1] \in Dp /\ p[2] \in running_queue[p[1]]
                         /\ p = <<p[1], p[2]>>
  BY DEF Batches
<1>7. \A p \in Batches : g[p] \in T
  BY <1>5, <1>6
<1>8. \A p, q \in Batches : g[p] = g[q] => p = q
  BY <1>5, <1>6
<1>9. g \in Injection(Batches, T)
  BY <1>7, <1>8 DEF Injection, IsInjective
<1>10. IsFiniteSet(T) /\ Cardinality(T) = DpDegree * B
  <2>1. /\ IsFiniteSet(Dp) /\ Cardinality(Dp) = DpDegree
        /\ IsFiniteSet(1 .. B) /\ Cardinality(1 .. B) = B
    BY <1>1, SizesAssumption, FS_Interval DEF Dp
  <2> QED
    BY <2>1, FS_Product
<1>11. <<d, B>> \in T /\ \A p \in Batches : g[p] # <<d, B>>
  <2>1. B \in 1 .. B
    BY <1>1, <1>2, <1>3
  <2>2. ASSUME NEW p \in Batches, g[p] = <<d, B>> PROVE FALSE
    <3>1. p[1] = d /\ F[d][p[2]] = B
      BY <2>2
    <3>2. B <= Cardinality(running_queue[d])
      BY <3>1, <1>5, <1>6
    <3> QED
      BY <1>1, <1>2, <1>3, <3>2
  <2> QED
    BY <2>1, <2>2
<1> HIDE DEF g
<1>12. g \notin Surjection(Batches, T)
  BY <1>11 DEF Surjection
<1>13. Cardinality(Batches) <= Cardinality(T) /\ Cardinality(Batches) # Cardinality(T)
  BY <1>9, <1>10, <1>12, FS_Injection
<1>14. GetBatchSize = Cardinality(Batches) /\ GetBatchSize \in Nat
  BY BatchSizeNat DEF GetBatchSize, Batches
<1> QED
  BY <1>1, <1>10, <1>13, <1>14 DEF B

\* Going round from rotate meets every replica: none free means all full.
LEMMA NoneFreeIsFull ==
  ASSUME TypeOK, SlotCapacity, FreeFromRotate = {}
  PROVE  AllFull
<1> SUFFICES ASSUME NEW d \in Dp PROVE Cardinality(running_queue[d]) = BatchSizePerDp
  BY DEF AllFull
<1>1. DpDegree \in Nat \ {0} /\ rotate \in 0 .. DpDegree - 1 /\ d \in 0 .. DpDegree - 1
  BY SizesAssumption DEF TypeOK, Dp
<1>2. \E k \in 0 .. DpDegree - 1 : (rotate + k) % DpDegree = d
  <2>1. CASE rotate <= d
    <3>1. rotate + (d - rotate) = 0 * DpDegree + d /\ d - rotate \in 0 .. DpDegree - 1
      BY <1>1, <2>1
    <3>2. (0 * DpDegree + d) % DpDegree = d
      BY <1>1, DivisionUnique
    <3> QED
      BY <3>1, <3>2
  <2>2. CASE d < rotate
    <3> DEFINE k == d - rotate + DpDegree
    <3>1. rotate + k = 1 * DpDegree + d /\ k \in 0 .. DpDegree - 1
      BY <1>1, <2>2
    <3>2. (1 * DpDegree + d) % DpDegree = d
      BY <1>1, DivisionUnique
    <3> QED
      BY <3>1, <3>2
  <2> QED
    BY <1>1, <2>1, <2>2
<1>3. PICK k \in Dp : (rotate + k) % DpDegree = d
  BY <1>2 DEF Dp
<1>4. ~ (Cardinality(running_queue[d]) < BatchSizePerDp)
  BY <1>3 DEF FreeFromRotate
<1>5. Cardinality(running_queue[d]) \in Nat /\ Cardinality(running_queue[d]) <= BatchSizePerDp
  BY SubsetCardinality DEF TypeOK, SlotCapacity
<1> QED
  BY <1>4, <1>5, SlotsNat

\* The admissions still to be done cover the queue or the free slots, and once
\* they are done every batch is full or the queue is empty, which lasts until
\* sequences finish.
SlotsCovered ==
  /\ pc = "admit" =>
       AllFull \/ to_admit >= Least(Len(sequence_queue),
                                    DpDegree * BatchSizePerDp - GetBatchSize)
  /\ pc \in {"set", "hit", "run"} /\ sequence_queue # << >> => AllFull

\* An admission takes one sequence from the queue and one slot.
LEMMA AdmitCovers ==
  ASSUME SchedInv, SlotsCovered, Admit
  PROVE  SlotsCovered'
<1>1. /\ TypeOK /\ TypeOK' /\ SlotCapacity /\ OnePlace
      /\ pc = "admit" /\ pc' = "admit" /\ to_admit > 0 /\ to_admit' = to_admit - 1
      /\ to_admit <= Len(sequence_queue)
  BY AdmitInv DEF SchedInv, CountersOK, Admit
<1>2. CASE FreeFromRotate = {}
  <2>1. AllFull
    BY <1>1, <1>2, NoneFreeIsFull
  <2>2. running_queue' = running_queue
    BY <1>2 DEF Admit
  <2>3. AllFull'
    BY <2>1, <2>2 DEF AllFull
  <2> QED
    BY <1>1, <2>3 DEF SlotsCovered
<1>3. CASE FreeFromRotate # {}
  <2> DEFINE h == Head(sequence_queue)
  <2>1. PICK k \in FreeFromRotate :
          /\ running_queue' =
               [running_queue EXCEPT ![(rotate + k) % DpDegree] = @ \cup {h}]
          /\ sequence_queue' = Tail(sequence_queue)
    BY <1>3 DEF Admit, Dequeued
  <2> DEFINE d == (rotate + k) % DpDegree
  <2>2. d \in Dp
    <3>1. k \in Int /\ rotate \in Int
      BY <1>1 DEF TypeOK, FreeFromRotate, Dp
    <3> QED
      BY <3>1, SizesAssumption DEF Dp
  <2>3. Cardinality(running_queue[d]) < BatchSizePerDp
    BY DEF FreeFromRotate
  <2>4. running_queue' = [running_queue EXCEPT ![d] = @ \cup {h}]
    BY <2>1
  <2> HIDE DEF d
  <2>5. ~ AllFull
    BY <2>2, <2>3, <1>1, SubsetCardinality, SlotsNat DEF AllFull, TypeOK
  <2>6. /\ Len(sequence_queue') = Len(sequence_queue) - 1
        /\ Len(sequence_queue) \in Nat
        /\ h = sequence_queue[1] /\ 1 \in 1 .. Len(sequence_queue)
    BY <1>1, <2>1 DEF TypeOK
  <2>7. h \in Seqs /\ h \notin running_queue[d]
    BY <1>1, <2>2, <2>6 DEF TypeOK, OnePlace, Waiting
  <2>8. Batches' = Batches \cup {<<d, h>>} /\ <<d, h>> \notin Batches
    <3>1. \A e \in Dp : running_queue'[e] = IF e = d THEN running_queue[e] \cup {h}
                                                    ELSE running_queue[e]
      BY <1>1, <2>4 DEF TypeOK
    <3> HIDE DEF h
    <3>2. ASSUME NEW p \in Dp \X Seqs
          PROVE  p \in Batches' <=> p \in Batches \cup {<<d, h>>}
      <4>1. PICK e \in Dp, u \in Seqs : p = <<e, u>>
        OBVIOUS
      <4>2. p \in Batches' <=> u \in running_queue'[e]
        BY <4>1 DEF Batches
      <4>3. p \in Batches <=> u \in running_queue[e]
        BY <4>1 DEF Batches
      <4> QED
        BY <3>1, <4>1, <4>2, <4>3
    <3>3. Batches \subseteq Dp \X Seqs /\ Batches' \subseteq Dp \X Seqs
      BY DEF Batches
    <3>4. <<d, h>> \in Dp \X Seqs /\ <<d, h>> \notin Batches
      BY <2>2, <2>7 DEF Batches
    <3> QED
      BY <3>2, <3>3, <3>4
  <2>9. GetBatchSize' = GetBatchSize + 1 /\ GetBatchSize \in Nat
    <3>1. Cardinality(Batches') = Cardinality(Batches) + 1
      BY <2>8, BatchesFinite, FS_AddElement
    <3> QED
      BY <3>1, BatchSizeNat DEF GetBatchSize, Batches
  <2>10. to_admit >= Least(Len(sequence_queue),
                           DpDegree * BatchSizePerDp - GetBatchSize)
    BY <1>1, <2>5 DEF SlotsCovered
  <2>11. to_admit \in Int /\ DpDegree * BatchSizePerDp \in Int
    BY <1>1, SlotsNat, SizesAssumption DEF TypeOK
  <2>12. to_admit' >= Least(Len(sequence_queue'),
                            DpDegree * BatchSizePerDp - GetBatchSize')
    BY <1>1, <2>6, <2>9, <2>10, <2>11 DEF Least
  <2> QED
    BY <1>1, <2>12 DEF SlotsCovered
<1> QED
  BY <1>2, <1>3

\* A refill starts with as many admissions as the queue and the slots allow, and
\* ends with none to do.
LEMMA RefillCovers ==
  ASSUME SchedInv, SlotsCovered, Refill
  PROVE  SlotsCovered'
<1>1. TypeOK /\ SlotCapacity
  BY DEF SchedInv
<1>2. DpDegree * BatchSizePerDp \in Nat /\ DpDegree * BatchSizePerDp <= TotalBatchSize
  <2>1. TotalBatchSize = BatchSizePerDp * DpDegree + (TotalBatchSize % DpDegree)
    BY SizesAssumption, Division DEF BatchSizePerDp
  <2>2. TotalBatchSize % DpDegree \in Nat
    BY SizesAssumption, Division
  <2> QED
    BY <2>1, <2>2, SlotsNat, SizesAssumption
<1>3. CASE FillSequenceQueue \/ PushSeq
  <2>1. pc' = "push"
    BY <1>1, <1>3 DEF FillSequenceQueue, PushSeq
  <2> QED
    BY <2>1 DEF SlotsCovered
<1>4. CASE FillRunningQueue
  <2>1. /\ to_admit' = Least(TotalBatchSize - GetBatchSize, Len(sequence_queue))
        /\ GetBatchSize' = GetBatchSize /\ sequence_queue' = sequence_queue
        /\ pc' = "admit"
    BY <1>4 DEF FillRunningQueue, GetBatchSize
  <2>2. Len(sequence_queue) \in Nat /\ TotalBatchSize \in Nat
    BY <1>1, SizesAssumption DEF TypeOK
  <2>3. to_admit' >= Least(Len(sequence_queue'),
                           DpDegree * BatchSizePerDp - GetBatchSize')
    BY <1>2, <2>1, <2>2, BatchSizeNat DEF Least
  <2> QED
    BY <2>1, <2>3 DEF SlotsCovered
<1>5. CASE EndAdmit
  <2>1. /\ pc = "admit" /\ pc' = "set" /\ to_admit <= 0 /\ AllFull' = AllFull
        /\ sequence_queue' = sequence_queue
    BY <1>5 DEF EndAdmit, AllFull
  <2>2. AllFull \/ sequence_queue = << >>
    <3> SUFFICES ASSUME ~ AllFull PROVE sequence_queue = << >>
      OBVIOUS
    <3>1. GetBatchSize < DpDegree * BatchSizePerDp
      BY <1>1, FreeSlotCounts
    <3>2. to_admit >= Least(Len(sequence_queue),
                            DpDegree * BatchSizePerDp - GetBatchSize)
      BY <2>1 DEF SlotsCovered
    <3>3. Len(sequence_queue) \in Nat /\ to_admit \in Int
      BY <1>1 DEF TypeOK
    <3>4. Len(sequence_queue) = 0
      BY <1>2, <2>1, <3>1, <3>2, <3>3, BatchSizeNat DEF Least
    <3> QED
      BY <1>1, <3>4 DEF TypeOK
  <2> QED
    BY <2>1, <2>2 DEF SlotsCovered
<1> QED
  BY <1>3, <1>4, <1>5, AdmitCovers DEF Refill


-----------------------------------------------------------------------------
(* The mixed loop (Cluster::runIterationMixed) *)

\* An idle iteration changes nothing but where the loop is.
LEMMA MixedIdleInv ==
  ASSUME SchedInv, RunIdleMixed
  PROVE  SchedInv'
<1>1. TypeOK' /\ CountersOK'
  BY DEF SchedInv, TypeOK, CountersOK, RunIdleMixed
<1>2. SlotCapacity' /\ OnePlace'
  BY QueuesUnchanged DEF SchedInv, RunIdleMixed
<1> QED
  BY <1>1, <1>2 DEF SchedInv, RunIdleMixed

\* What an iteration makes of a running sequence stays within its bounds, and
\* its length is what was planned.
LEMMA IterationBounded ==
  ASSUME SchedInv, RunIterationMixed, NEW s \in Running
  PROVE  /\ seq'[s] \in Sequence
         /\ Bounded(seq'[s])
         /\ seq'[s].current_len = seq[s].current_len + seq[s].num_process_token
         /\ seq'[s].total_len = seq[s].total_len
<1> DEFINE a == Advanced(seq[s])
<1>1. s \in Seqs /\ seq[s] \in Sequence /\ Bounded(seq[s])
  BY DEF SchedInv, TypeOK, Running
<1>2. /\ a \in Sequence /\ Bounded(a)
      /\ a.current_len = seq[s].current_len + seq[s].num_process_token
      /\ a.total_len = seq[s].total_len
  BY <1>1, AdvancedBounded
<1>3. seq'[s] = a \/ seq'[s] = AddLatency(a, 0)
  BY <1>1 DEF RunIterationMixed
<1> HIDE DEF a
<1>4. /\ AddLatency(a, 0) \in Sequence /\ Bounded(AddLatency(a, 0))
      /\ AddLatency(a, 0).current_len = a.current_len
      /\ AddLatency(a, 0).total_len = a.total_len
  BY <1>2, AddLatencyBounded DEF AddLatency, Sequence
<1> QED
  BY <1>2, <1>3, <1>4

\* An iteration keeps the invariant.
LEMMA MixedIterationInv ==
  ASSUME SchedInv, RunIterationMixed
  PROVE  SchedInv'
<1>1. \A s \in Seqs : seq'[s] \in Sequence /\ Bounded(seq'[s])
  BY IterationBounded DEF SchedInv, TypeOK, RunIterationMixed
<1>2. seq' \in [Seqs -> Sequence]
  BY <1>1 DEF RunIterationMixed
<1>3. running_queue' \in [Dp -> SUBSET Seqs] /\ SlotCapacity' /\ OnePlace'
  BY PopShrinks DEF SchedInv, RunIterationMixed
<1>4. TypeOK'
  BY <1>2, <1>3 DEF SchedInv, TypeOK, RunIterationMixed
<1>5. CountersOK'
  BY DEF CountersOK, RunIterationMixed
<1> QED
  BY <1>1, <1>3, <1>4, <1>5 DEF SchedInv

\* A step without effect keeps the invariant.
LEMMA StutterInv ==
  ASSUME SchedInv, UNCHANGED schedVars
  PROVE  SchedInv'
<1>1. TypeOK' /\ CountersOK'
  BY DEF SchedInv, TypeOK, CountersOK, schedVars
<1>2. SlotCapacity' /\ OnePlace'
  BY QueuesUnchanged DEF SchedInv, schedVars
<1> QED
  BY <1>1, <1>2 DEF SchedInv, schedVars

\* Every step of the loop keeps the invariant.
LEMMA MixedNextInv ==
  ASSUME SchedInv, [MixedNext]_schedVars
  PROVE  SchedInv'
BY SetMetadataInv, HitUpdateInv, MixedIdleInv, MixedIterationInv, RefillInv, StutterInv
   DEF MixedNext

-----------------------------------------------------------------------------
(* Theorems *)

\* The invariant of the scheduler holds throughout the mixed loop.
THEOREM MixedInvariant == MixedSpec => []SchedInv
<1>1. MixedInit => SchedInv
  BY SchedInitInv DEF MixedInit
<1>2. SchedInv /\ [MixedNext]_schedVars => SchedInv'
  BY MixedNextInv
<1> QED
  BY <1>1, <1>2, PTL DEF MixedSpec

\* Type correctness.
THEOREM MixedTypeOK == MixedSpec => []TypeOK
<1>1. SchedInv => TypeOK
  BY DEF SchedInv
<1> QED
  BY <1>1, MixedInvariant, PTL

\* No replica ever holds more sequences than it has slots.
THEOREM MixedSlotCapacity == MixedSpec => []SlotCapacity
<1>1. SchedInv => SlotCapacity
  BY DEF SchedInv
<1> QED
  BY <1>1, MixedInvariant, PTL

\* A live sequence is in one place only.
THEOREM MixedOnePlace == MixedSpec => []OnePlace
<1>1. SchedInv => OnePlace
  BY DEF SchedInv
<1> QED
  BY <1>1, MixedInvariant, PTL

\* No step goes past the end of a prompt or of a sequence.
THEOREM MixedLandsOnBoundaries == MixedSpec => []LandsOnBoundaries
<1>1. SchedInv => LandsOnBoundaries
  BY InvLands
<1> QED
  BY <1>1, MixedInvariant, PTL

-----------------------------------------------------------------------------
(* What a step does to the running sequences *)

\* Outside an iteration no tokens are planned; inside one, without
\* disaggregation, either prompts or decodes are planned.
PlannedInv ==
  /\ \A s \in Seqs :
       s \notin Running \/ pc \notin {"hit", "run"} => seq[s].num_process_token = 0
  /\ pc \in {"hit", "run"} /\ ~ Disagg /\ HasSumSeq =>
       \A s \in Running : ~ IsSum(s) => seq[s].num_process_token = 0

\* A sequence that pop removes has all its tokens.
LEMMA PoppedIsDone ==
  ASSUME TypeOK, Pop(Running), NEW s \in Running, s \notin Running'
  PROVE  Done(Updated(seq[s]))
<1>1. PICK d \in Dp : s \in running_queue[d]
  BY DEF Running
<1>2. s \notin running_queue'[d]
  BY DEF Running
<1> QED
  BY <1>1, <1>2 DEF Pop

\* Being done is not changed by the milestone test or by the report.
LEMMA DoneIsLength ==
  ASSUME NEW r \in Sequence, Bounded(r), NEW u,
         u.current_len = r.current_len + r.num_process_token,
         u.total_len = r.total_len,
         Done(Updated(r))
  PROVE  Done(u)
BY DEF Sequence, Updated, Done

\* In the warm-up and in an iteration a running sequence grows by what was
\* planned, and one that leaves is done.
LEMMA UpdateMoves ==
  ASSUME SchedInv, HitUpdate \/ RunIterationMixed, NEW s \in Running
  PROVE  /\ seq'[s].current_len = seq[s].current_len + seq[s].num_process_token
         /\ seq'[s].total_len = seq[s].total_len
         /\ s \notin Running' => Done(seq'[s])
<1>1. TypeOK /\ s \in Seqs /\ seq[s] \in Sequence /\ Bounded(seq[s])
  BY DEF SchedInv, TypeOK, Running
<1>2. /\ seq'[s].current_len = seq[s].current_len + seq[s].num_process_token
      /\ seq'[s].total_len = seq[s].total_len
  <2>1. CASE RunIterationMixed
    BY <2>1, IterationBounded
  <2>2. CASE HitUpdate
    <3>1. seq'[s] = Advanced(seq[s])
      BY <1>1, <2>2 DEF HitUpdate
    <3> QED
      BY <1>1, <3>1, AdvancedBounded
  <2> QED
    BY <2>1, <2>2
<1>3. Pop(Running)
  BY DEF HitUpdate, RunIterationMixed
<1> QED
  BY <1>1, <1>2, <1>3, PoppedIsDone, DoneIsLength

\* Any other step leaves the running sequences running and their lengths alone.
LEMMA OthersKeepLengths ==
  ASSUME SchedInv, SetMetadata \/ RunIdleMixed \/ Refill \/ UNCHANGED schedVars,
         NEW s \in Running
  PROVE  seq'[s].current_len = seq[s].current_len /\ s \in Running'
<1>1. s \in Seqs /\ seq[s] \in Sequence
  BY DEF SchedInv, TypeOK, Running
<1>2. CASE SetMetadata
  <2>1. seq'[s] = [seq[s] EXCEPT !.num_process_token = TokensToProcess(s)]
    BY <1>1, <1>2 DEF SetMetadata
  <2> QED
    BY <1>1, <1>2, <2>1 DEF SetMetadata, Sequence, Running
<1>3. CASE RunIdleMixed \/ UNCHANGED schedVars
  BY <1>3 DEF RunIdleMixed, schedVars, Running
<1>4. CASE Refill
  BY <1>4, RefillKeepsRunning
<1> QED
  BY <1>2, <1>3, <1>4

\* Progress is never taken back and a slot is only given up at the end.
THEOREM MixedLeavesOnlyWhenDone == MixedSpec => LeavesOnlyWhenDone
<1> DEFINE A == \A s \in Running :
                  /\ seq'[s].current_len >= seq[s].current_len
                  /\ s \notin Running' => Done(seq'[s])
<1>1. ASSUME SchedInv, [MixedNext]_schedVars PROVE A
  <2> SUFFICES ASSUME NEW s \in Running
               PROVE  /\ seq'[s].current_len >= seq[s].current_len
                      /\ s \notin Running' => Done(seq'[s])
    OBVIOUS
  <2>1. seq[s].current_len \in Nat /\ seq[s].num_process_token \in Nat
    BY <1>1 DEF SchedInv, TypeOK, Running, Sequence
  <2>2. CASE HitUpdate \/ RunIterationMixed
    BY <1>1, <2>1, <2>2, UpdateMoves
  <2>3. CASE SetMetadata \/ RunIdleMixed \/ Refill \/ UNCHANGED schedVars
    BY <1>1, <2>1, <2>3, OthersKeepLengths
  <2> QED
    BY <1>1, <2>2, <2>3 DEF MixedNext
<1>2. SchedInv /\ [MixedNext]_schedVars => [A]_schedVars
  BY <1>1
<1> QED
  BY <1>2, MixedInvariant, PTL DEF MixedSpec, LeavesOnlyWhenDone

-----------------------------------------------------------------------------
(* Prefill before decode *)

\* Planning gives decode tokens only when no prompt is unfinished.
LEMMA SetMetadataPlans ==
  ASSUME SchedInv, PlannedInv, SetMetadata
  PROVE  PlannedInv'
<1>1. /\ TypeOK /\ Running' = Running
      /\ pc = "set" /\ pc' \in {"hit", "run"}
      /\ \A s \in Seqs : seq[s].num_process_token = 0
  BY DEF SchedInv, PlannedInv, SetMetadata, Running
<1>2. ASSUME NEW s \in Seqs, s \notin Running PROVE seq'[s].num_process_token = 0
  BY <1>1, <1>2 DEF SetMetadata
<1>3. ASSUME NEW s \in Running
      PROVE  /\ seq'[s].current_len = seq[s].current_len
             /\ seq'[s].input_len = seq[s].input_len
             /\ seq'[s].num_process_token = TokensToProcess(s)
  <2>1. s \in Seqs /\ seq[s] \in Sequence
    BY <1>1 DEF Running, TypeOK
  <2>2. seq'[s] = [seq[s] EXCEPT !.num_process_token = TokensToProcess(s)]
    BY <2>1 DEF SetMetadata
  <2> QED
    BY <2>1, <2>2 DEF Sequence
<1>4. \A s \in Running : IsSum(s)' <=> IsSum(s)
  BY <1>3 DEF IsSum
<1>5. HasSumSeq' <=> HasSumSeq
  BY <1>1, <1>4 DEF HasSumSeq
<1>6. ASSUME ~ Disagg, HasSumSeq, NEW s \in Running, ~ IsSum(s)
      PROVE  seq'[s].num_process_token = 0
  <2>1. ~ GenScheduled(s)
    BY <1>6 DEF GenScheduled, ProcessGen
  <2>2. s \in Seqs
    BY <1>1 DEF Running, TypeOK
  <2> QED
    BY <1>1, <1>3, <1>6, <2>1, <2>2 DEF TokensToProcess
<1> QED
  BY <1>1, <1>2, <1>4, <1>5, <1>6 DEF PlannedInv

\* After an update nothing is planned any more.
LEMMA UpdatePlans ==
  ASSUME SchedInv, PlannedInv, HitUpdate \/ RunIterationMixed
  PROVE  PlannedInv'
<1>1. pc' \notin {"hit", "run"}
  BY DEF HitUpdate, RunIterationMixed
<1>2. ASSUME NEW s \in Seqs PROVE seq'[s].num_process_token = 0
  <2>1. seq[s] \in Sequence /\ Bounded(seq[s])
    BY DEF SchedInv, TypeOK
  <2>2. /\ Advanced(seq[s]).num_process_token = 0
        /\ AddLatency(Advanced(seq[s]), 0).num_process_token = 0
    BY <2>1, AdvancedBounded DEF AddLatency, Sequence
  <2>3. CASE s \in Running
    BY <2>2, <2>3 DEF HitUpdate, RunIterationMixed
  <2>4. CASE s \notin Running
    BY <2>4 DEF HitUpdate, RunIterationMixed, PlannedInv
  <2> QED
    BY <2>3, <2>4
<1> QED
  BY <1>1, <1>2 DEF PlannedInv

\* A refill plans nothing.
LEMMA RefillPlans ==
  ASSUME SchedInv, PlannedInv, Refill
  PROVE  PlannedInv'
<1>1. pc \notin {"hit", "run"} /\ pc' \notin {"hit", "run"}
  BY DEF Refill, FillSequenceQueue, PushSeq, FillRunningQueue, Admit, EndAdmit
<1>2. \A s \in Seqs : seq[s].num_process_token = 0
  BY <1>1 DEF PlannedInv
<1>3. CASE PushSeq
  <2>1. PICK s \in Fresh, w \in Workload : seq' = [seq EXCEPT ![s] = w]
    BY <1>3 DEF PushSeq
  <2>2. \A u \in Seqs : seq'[u].num_process_token = 0
    BY <1>2, <2>1, WorkloadUntouched DEF SchedInv, TypeOK
  <2> QED
    BY <1>1, <2>2 DEF PlannedInv
<1>4. CASE ~ PushSeq
  <2>1. seq' = seq
    BY <1>4 DEF Refill, FillSequenceQueue, FillRunningQueue, Admit, EndAdmit
  <2> QED
    BY <1>1, <1>2, <2>1 DEF PlannedInv
<1> QED
  BY <1>3, <1>4

\* An idle iteration ends because nothing is planned.
LEMMA IdlePlans ==
  ASSUME SchedInv, PlannedInv, RunIdleMixed
  PROVE  PlannedInv'
<1>1. \A s \in Seqs : seq[s].num_process_token = 0
  BY DEF PlannedInv, RunIdleMixed, NoProcessToken
<1>2. seq' = seq /\ pc' = "set"
  BY DEF RunIdleMixed
<1> QED
  BY <1>1, <1>2 DEF PlannedInv

\* Tokens are planned only inside an iteration, and of one kind.
THEOREM MixedPlanned == MixedSpec => []PlannedInv
<1>1. MixedInit => PlannedInv
  BY DEF MixedInit, SchedInit, PlannedInv, Unborn, NewSequence
<1>2. ASSUME SchedInv, PlannedInv, [MixedNext]_schedVars PROVE PlannedInv'
  <2>1. CASE UNCHANGED schedVars
    BY <1>2, <2>1 DEF PlannedInv, schedVars, Running, HasSumSeq, IsSum
  <2> QED
    BY <1>2, <2>1, SetMetadataPlans, UpdatePlans, IdlePlans, RefillPlans DEF MixedNext
<1> QED
  BY <1>1, <1>2, MixedInvariant, PTL DEF MixedSpec

\* Without disaggregation, while a prompt is unfinished no running sequence
\* decodes.
THEOREM MixedDecodeWaits == MixedSpec => DecodeWaitsForPrefill
<1> DEFINE A == ~ Disagg /\ HasSumSeq =>
                  \A s \in Running :
                    ~ IsSum(s) => seq'[s].current_len = seq[s].current_len
<1>1. ASSUME SchedInv, PlannedInv, [MixedNext]_schedVars PROVE A
  <2> SUFFICES ASSUME ~ Disagg, HasSumSeq, NEW s \in Running, ~ IsSum(s)
               PROVE  seq'[s].current_len = seq[s].current_len
    OBVIOUS
  <2>1. seq[s].current_len \in Nat
    BY <1>1 DEF SchedInv, TypeOK, Running, Sequence
  <2>2. CASE HitUpdate \/ RunIterationMixed
    <3>1. pc \in {"hit", "run"}
      BY <2>2 DEF HitUpdate, RunIterationMixed
    <3>2. seq[s].num_process_token = 0
      BY <1>1, <3>1 DEF PlannedInv
    <3> QED
      BY <1>1, <2>1, <2>2, <3>2, UpdateMoves
  <2>3. CASE SetMetadata \/ RunIdleMixed \/ Refill \/ UNCHANGED schedVars
    BY <1>1, <2>3, OthersKeepLengths
  <2> QED
    BY <1>1, <2>2, <2>3 DEF MixedNext
<1>2. SchedInv /\ PlannedInv /\ [MixedNext]_schedVars => [A]_schedVars
  BY <1>1
<1> QED
  BY <1>2, MixedInvariant, MixedPlanned, PTL DEF MixedSpec, DecodeWaitsForPrefill

-----------------------------------------------------------------------------
(* Continuous batching *)

\* Every step of the loop is a step of continuous batching or is not seen there.
LEMMA MixedStep ==
  ASSUME SchedInv, [MixedNext]_schedVars
  PROVE  [CB!Next]_CB!vars
<1>1. CASE HitUpdate \/ RunIterationMixed
  <2>1. Pop(Running) /\ UNCHANGED sequence_queue
    BY <1>1 DEF HitUpdate, RunIterationMixed
  <2>2. \A s \in Seqs \ Running : seq'[s] = seq[s]
    BY <1>1 DEF HitUpdate, RunIterationMixed
  <2>3. \A s \in Running :
          /\ seq'[s].current_len = seq[s].current_len + seq[s].num_process_token
          /\ seq'[s].total_len = seq[s].total_len
    BY <1>1, UpdateMoves
  <2> QED
    BY <2>1, <2>2, <2>3, BatchingProgress DEF CB!Next
<1>2. CASE RunIdleMixed \/ UNCHANGED schedVars
  BY <1>2, BatchingStutter DEF RunIdleMixed, schedVars, Left
<1> QED
  BY <1>1, <1>2, BatchingPlan, BatchingRefill DEF MixedNext

\* The mixed loop implements continuous batching: oldest first into a free slot,
\* any progress of the running sequences together, the slot back at the end and
\* not before.
THEOREM MixedImplementsBatching == MixedSpec => ImplementsBatching
<1>1. MixedInit => CB!Init
  BY BatchingInit DEF MixedInit
<1>2. SchedInv /\ [MixedNext]_schedVars => [CB!Next]_CB!vars
  BY MixedStep
<1> QED
  BY <1>1, <1>2, MixedInvariant, PTL DEF MixedSpec, ImplementsBatching, CB!Spec

-----------------------------------------------------------------------------
(* Slots are used *)

\* Only a refill fills batches; every other step keeps them until sequences
\* finish, and then a refill comes first.
LEMMA MixedNextCovers ==
  ASSUME SchedInv, SlotsCovered, [MixedNext]_schedVars
  PROVE  SlotsCovered'
<1>1. CASE HitUpdate \/ RunIterationMixed
  BY <1>1 DEF HitUpdate, RunIterationMixed, SlotsCovered
<1>2. CASE SetMetadata \/ RunIdleMixed
  <2>1. /\ pc \in {"set", "run"} /\ pc' \in {"set", "hit", "run"}
        /\ sequence_queue' = sequence_queue /\ running_queue' = running_queue
    BY <1>2 DEF SetMetadata, RunIdleMixed
  <2> QED
    BY <2>1 DEF SlotsCovered, AllFull
<1>3. CASE UNCHANGED schedVars
  BY <1>3 DEF SlotsCovered, AllFull, GetBatchSize, schedVars
<1> QED
  BY <1>1, <1>2, <1>3, RefillCovers DEF MixedNext

\* When the next iteration is planned no slot is free that a waiting sequence
\* could have, although fillRunningQueue counts its admissions once, against the
\* whole batch, before it does them.
THEOREM MixedNoFreeSlot == MixedSpec => []NoFreeSlotWhileWaiting
<1>1. MixedInit => SlotsCovered
  BY DEF MixedInit, SchedInit, SlotsCovered
<1>2. SchedInv /\ SlotsCovered /\ [MixedNext]_schedVars => SlotsCovered'
  BY MixedNextCovers
<1>3. SlotsCovered => NoFreeSlotWhileWaiting
  BY DEF SlotsCovered, NoFreeSlotWhileWaiting, AllFull
<1> QED
  BY <1>1, <1>2, <1>3, MixedInvariant, PTL DEF MixedSpec

=============================================================================
