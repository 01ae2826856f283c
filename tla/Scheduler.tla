------------------------------ MODULE Scheduler ------------------------------
(***************************************************************************)
(* The request scheduler of the simulator (src/src/scheduler): a FIFO of   *)
(* sequences waiting for a slot, one batch of running sequences for each   *)
(* data-parallel replica, and the operations an iteration of the           *)
(* simulation applies to them.  The loops that call the operations         *)
(* (Cluster::runIteration...) are the modules MixedLoop and SumGenSplit,   *)
(* which extend this one.                                                  *)
(*                                                                         *)
(* Abstractions.  A batch is a set: no operation modelled here depends on  *)
(* the order of its members.  An identity of Seqs is taken again once the  *)
(* sequence that had it is gone.  Of the absolute times of a sequence only *)
(* gen_start_time steers the program, and only through the comparison with *)
(* total_time: gen_ahead is how far it lies ahead of total_time, 0 once    *)
(* total_time has reached it or while it is unset.                         *)
(*                                                                         *)
(* A definition named ...Mutant is the one after it with a plausible bug;  *)
(* the model uses none of them.                                            *)
(***************************************************************************)
EXTENDS Integers, FiniteSets, Sequences

CONSTANTS
  Seqs,             \* identities of sequences
  DpDegree,         \* number of data-parallel replicas
  TotalBatchSize,   \* sequences that may run at once, all replicas together
  MaxProcessToken,  \* prompt tokens one replica may process in an iteration
  Lengths,          \* <<input_len, output_len>> of the sequences of the workload
  Reused(_),        \* prompt tokens found in the KV cache, given input_len
  RealData,         \* lengths come from a trace (pushRealSeq)
  PrefillMode,      \* simulate prefill only
  DecodeMode,       \* simulate decode only
  Disagg,           \* disaggregated system: prefill and decode do not exclude each other
  UseInjectRate,    \* requests arrive at a rate instead of refilling free slots
  MaxArrivals,      \* bound: arrivals during one iteration
  HittingIters      \* iterations of the warm-up (10000 in the code, 0 in steady state)

ASSUME SeqsFinite == IsFiniteSet(Seqs)
ASSUME SizesAssumption ==
  /\ DpDegree \in Nat \ {0}
  /\ TotalBatchSize \in Nat
  /\ MaxProcessToken \in Nat
  /\ MaxArrivals \in Nat
  /\ HittingIters \in Nat
ASSUME LengthsAssumption ==
  /\ Lengths \subseteq (Nat \ {0}) \X (Nat \ {0})
  /\ \A l \in Lengths : Reused(l[1]) \in 0 .. l[1]
ASSUME ModesAssumption ==
  /\ {RealData, PrefillMode, DecodeMode, Disagg, UseInjectRate} \subseteq BOOLEAN
  /\ ~ (PrefillMode /\ DecodeMode)

Dp == 0 .. DpDegree - 1
BatchSizePerDp == TotalBatchSize \div DpDegree

Least(a, b) == IF a <= b THEN a ELSE b
Most(a, b) == IF a >= b THEN a ELSE b

VARIABLES
  sequence_queue,   \* sequences waiting for a slot, oldest first
  running_queue,    \* the batch of each replica
  seq,              \* the fields of each sequence
  rotate,           \* the replica tried first for the next admission
  to_push,          \* sequences fillSequenceQueue still has to create
  to_admit,         \* iterations fillRunningQueue still has to do
  warm,             \* warm-up iterations left
  pc                \* what the simulation does next

schedVars ==
  <<sequence_queue, running_queue, seq, rotate, to_push, to_admit, warm, pc>>

-----------------------------------------------------------------------------
(* Sequences *)

Sequence ==
  [input_len : Nat, total_len : Nat, current_len : Nat,
   num_process_token : Nat, sum_stage : BOOLEAN, record : BOOLEAN,
   gen_ahead : Nat]

NewSequence(l, total, current, sum) ==
  [input_len |-> l[1], total_len |-> total, current_len |-> current,
   num_process_token |-> 0, sum_stage |-> sum, record |-> FALSE,
   gen_ahead |-> 0]

\* A synthetic sequence: cache reuse, prefill mode and decode mode apply.
DummySeq(l) ==
  NewSequence(l, IF PrefillMode THEN l[1] ELSE l[1] + l[2] - 1,
                 IF DecodeMode THEN l[1] ELSE Reused(l[1]), ~ DecodeMode)

\* A sequence of the trace: only decode mode applies.
RealSeq(l) ==
  NewSequence(l, l[1] + l[2] - 1, IF DecodeMode THEN l[1] ELSE 0, ~ DecodeMode)

Workload == {IF RealData THEN RealSeq(l) ELSE DummySeq(l) : l \in Lengths}

Running == UNION {running_queue[d] : d \in Dp}
Waiting == {sequence_queue[i] : i \in 1 .. Len(sequence_queue)}
Fresh == Seqs \ (Running \cup Waiting)

IsSum(s) == seq[s].current_len < seq[s].input_len
SumOf(d) == {s \in running_queue[d] : IsSum(s)}
HasSumSeq == \E s \in Running : IsSum(s)
GetBatchSize == Cardinality({p \in Dp \X Seqs : p[2] \in running_queue[p[1]]})

\* getNumProcessToken() == 0.
NoProcessToken == \A s \in Running : seq[s].num_process_token = 0

-----------------------------------------------------------------------------
(* setMetadata: how many tokens each running sequence processes next *)

RankOf(s) == CHOOSE d \in Dp : s \in running_queue[d]

AlwaysMutant == TRUE

ProcessGen == Disagg \/ ~ HasSumSeq
ProcessSum == Disagg \/ HasSumSeq

SumTokens(s) ==
  Least(MaxProcessToken \div Cardinality(SumOf(RankOf(s))),
        seq[s].input_len - seq[s].current_len)

LastTokenMutant(s) ==
  /\ ProcessGen
  /\ seq[s].current_len < seq[s].total_len - 1
  /\ seq[s].gen_ahead = 0

GenScheduled(s) ==
  /\ ProcessGen
  /\ seq[s].current_len < seq[s].total_len
  /\ seq[s].gen_ahead = 0

\* What is not scheduled keeps the tokens it had.
TokensToProcess(s) ==
  IF IsSum(s)
    THEN IF ProcessSum THEN SumTokens(s) ELSE seq[s].num_process_token
    ELSE IF GenScheduled(s) THEN 1 ELSE seq[s].num_process_token

SetMetadata ==
  /\ pc = "set"
  /\ seq' = [s \in Seqs |->
               IF s \in Running
                 THEN [seq[s] EXCEPT !.num_process_token = TokensToProcess(s)]
                 ELSE seq[s]]
  /\ pc' = IF warm > 0 THEN "hit" ELSE "run"
  /\ UNCHANGED <<sequence_queue, running_queue, rotate, to_push, to_admit, warm>>

-----------------------------------------------------------------------------
(* Progress of sequences at the end of an iteration *)

\* Sequence::update
Updated(r) ==
  LET len == r.current_len + r.num_process_token
  IN  [r EXCEPT !.current_len = len,
                !.num_process_token = 0,
                !.sum_stage = @ /\ len # r.input_len]

Done(r) == r.current_len = r.total_len
FirstToken(r) == ~ Done(r) /\ r.current_len = r.input_len /\ ~ r.record

\* The sequence after its update and after the test for a milestone.
Advanced(r) ==
  LET u == Updated(r) IN [u EXCEPT !.record = @ \/ FirstToken(u)]

\* Whether the update puts the sequence on the token_list it returns.
Reported(r) == LET u == Updated(r) IN Done(u) \/ FirstToken(u)

KeepAllMutant(S) == running_queue' = running_queue

Pop(S) ==
  running_queue' =
    [d \in Dp |-> {s \in running_queue[d] : s \in S => ~ Done(Updated(seq[s]))}]

\* addLatency moves gen_start_time of what it reports to the time it is given,
\* here `ahead' after total_time.
AddLatency(r, ahead) == [r EXCEPT !.gen_ahead = ahead]

\* One iteration of hittingQueue up to its refill: updateScheduler(0), whose
\* token_list nobody reads.
HitUpdate ==
  /\ pc = "hit"
  /\ seq' = [s \in Seqs |-> IF s \in Running THEN Advanced(seq[s]) ELSE seq[s]]
  /\ Pop(Running)
  /\ warm' = warm - 1
  /\ pc' = "inject0"
  /\ UNCHANGED <<sequence_queue, rotate, to_push, to_admit>>

-----------------------------------------------------------------------------
(* Shared by the loops *)

UnclippedMutant(ahead, t) == ahead - t

\* A distance after total_time has advanced by t.
Closer(ahead, t) == Most(0, ahead - t)

Rankings(S) ==
  {f \in [S -> 0 .. Cardinality(S) - 1] : \A a, b \in S : f[a] = f[b] => a = b}

SeedToEndMutant(r, i, n) ==
  IF n = 1 THEN 0 ELSE (i * (r.total_len - r.input_len)) \div (n - 1)

\* The i-th of n sequences of a batch has i * (output_len - 2) / (n - 1) tokens.
Generated(r, i, n) ==
  IF n = 1 THEN 0 ELSE (i * Most(0, r.total_len - r.input_len - 1)) \div (n - 1)

-----------------------------------------------------------------------------
(* Refill: fillSequenceQueue, then fillRunningQueue *)

\* fillSequenceQueue counts the requests to create.  In the initial fill and in
\* the warm-up (iter_time = 0, pc = "inject0") an injected load starts at 70%
\* of the batch; later (pc = "inject") it is what arrived during the iteration.
RequestsToInject ==
  IF ~ UseInjectRate THEN {TotalBatchSize - GetBatchSize}
  ELSE IF pc = "inject0" THEN {Most(0, (7 * TotalBatchSize) \div 10 - GetBatchSize)}
  ELSE 0 .. Least(MaxArrivals, Cardinality(Fresh))

FillSequenceQueue ==
  /\ pc \in {"inject0", "inject"}
  /\ to_push' \in RequestsToInject
  /\ pc' = "push"
  /\ UNCHANGED <<sequence_queue, running_queue, seq, rotate, to_admit, warm>>

PushFrontMutant(s) == <<s>> \o sequence_queue

\* sequence_queue.push_back
Enqueued(s) == Append(sequence_queue, s)

\* pushSeq, one sequence at a time.
PushSeq ==
  /\ pc = "push"
  /\ to_push > 0
  /\ \E s \in Fresh, w \in Workload :
       /\ seq' = [seq EXCEPT ![s] = w]
       /\ sequence_queue' = Enqueued(s)
  /\ to_push' = to_push - 1
  /\ UNCHANGED <<running_queue, rotate, to_admit, warm, pc>>

\* fillRunningQueue fixes the number of its iterations on entry.
FillRunningQueue ==
  /\ pc = "push"
  /\ to_push <= 0
  /\ to_admit' = Least(TotalBatchSize - GetBatchSize, Len(sequence_queue))
  /\ pc' = "admit"
  /\ UNCHANGED <<sequence_queue, running_queue, seq, rotate, to_push, warm>>

NoTurnMutant ==
  {k \in {0} : Cardinality(running_queue[rotate]) < BatchSizePerDp}

\* The replicas with a free slot, named by their distance from rotate.
FreeFromRotate ==
  {k \in Dp : Cardinality(running_queue[(rotate + k) % DpDegree]) < BatchSizePerDp}

NotErasedMutant == sequence_queue

\* sequence_queue.erase(begin)
Dequeued == Tail(sequence_queue)

\* rotate is only used modulo the number of replicas.
NextRotate(d) == (d + 1) % DpDegree

\* One iteration of fillRunningQueue: the head of the queue goes to the first
\* replica with a free slot, round robin; without one a whole turn of rotate
\* changes nothing.
Admit ==
  /\ pc = "admit"
  /\ to_admit > 0
  /\ to_admit' = to_admit - 1
  /\ IF FreeFromRotate = {}
       THEN UNCHANGED <<sequence_queue, running_queue, rotate>>
       ELSE \E k \in FreeFromRotate :
              LET d == (rotate + k) % DpDegree
              IN  /\ \A j \in FreeFromRotate : k <= j
                  /\ running_queue' =
                       [running_queue EXCEPT ![d] = @ \cup {Head(sequence_queue)}]
                  /\ sequence_queue' = Dequeued
                  /\ rotate' = NextRotate(d)
  /\ UNCHANGED <<seq, to_push, warm, pc>>

EndAdmit ==
  /\ pc = "admit"
  /\ to_admit <= 0
  /\ pc' = "set"
  /\ UNCHANGED <<sequence_queue, running_queue, seq, rotate, to_push, to_admit, warm>>

Refill == FillSequenceQueue \/ PushSeq \/ FillRunningQueue \/ Admit \/ EndAdmit

-----------------------------------------------------------------------------

\* The fields of an identity no sequence has had yet.
Unborn == NewSequence(<<1, 1>>, 1, 1, FALSE)

\* runIteration starts with a fill of both queues.
SchedInit ==
  /\ sequence_queue = << >>
  /\ running_queue = [d \in Dp |-> {}]
  /\ seq = [s \in Seqs |-> Unborn]
  /\ rotate = 0
  /\ to_push = 0
  /\ to_admit = 0
  /\ warm = HittingIters
  /\ pc = "inject0"

-----------------------------------------------------------------------------
(* Correctness *)

TypeOK ==
  /\ sequence_queue \in Seq(Seqs)
  /\ running_queue \in [Dp -> SUBSET Seqs]
  /\ seq \in [Seqs -> Sequence]
  /\ rotate \in Dp
  /\ to_push \in Int
  /\ to_admit \in Int
  /\ warm \in Nat
  /\ pc \in {"inject0", "inject", "push", "admit", "set", "hit", "run"}

\* A replica never holds more sequences than its share of the batch, whatever
\* rotate and the finished sequences did to the other replicas
\* (fillRunningQueue's test against batch_size_per_dp).
SlotCapacity == \A d \in Dp : Cardinality(running_queue[d]) <= BatchSizePerDp

\* A live sequence is in one place only: once in the queue, or in the batch of
\* one replica (erase and add in fillRunningQueue, pop in updateScheduler).
OnePlace ==
  /\ \A i, j \in 1 .. Len(sequence_queue) :
       sequence_queue[i] = sequence_queue[j] => i = j
  /\ \A d \in Dp : running_queue[d] \cap Waiting = {}
  /\ \A d, e \in Dp : d # e => running_queue[d] \cap running_queue[e] = {}

\* The tests for the end of the prompt and of the sequence are equalities, so a
\* step must land on input_len and on total_len, never beyond: the tokens given
\* to a sequence never reach past the end of the phase it is in.
LandsOnBoundaries ==
  \A s \in Running :
    seq[s].current_len + seq[s].num_process_token
      <= IF IsSum(s) THEN seq[s].input_len ELSE seq[s].total_len

\* The tokens of a sequence stay within the phase it is in.
Bounded(r) ==
  /\ r.input_len <= r.total_len
  /\ r.current_len + r.num_process_token
       <= IF r.current_len < r.input_len THEN r.input_len ELSE r.total_len

\* The loop counters make sense where they are used.
CountersOK ==
  /\ pc = "admit" => to_admit <= Len(sequence_queue)
  /\ pc = "hit" => warm > 0
  /\ pc = "run" => warm = 0

\* The scheduler's invariant, which every operation of it and both loops
\* preserve: besides types and counters, no token is planned past the end of a
\* phase (so that the equality tests of updateScheduler meet their ends), no
\* replica is overfull, and no sequence is lost or in two places.
SchedInv ==
  /\ TypeOK
  /\ CountersOK
  /\ \A s \in Seqs : Bounded(seq[s])
  /\ SlotCapacity
  /\ OnePlace

\* A slot is not left free while a sequence waits for one: when the next
\* iteration is planned, a non-empty queue means full batches.
NoFreeSlotWhileWaiting ==
  pc = "set" /\ sequence_queue # << >>
    => \A d \in Dp : Cardinality(running_queue[d]) = BatchSizePerDp

\* Progress is never taken back, and a slot is only given up at the end: a
\* running sequence that is no longer running has all its tokens (the pop in
\* updateScheduler and its variants).
LeavesOnlyWhenDone ==
  [][\A s \in Running :
       /\ seq'[s].current_len >= seq[s].current_len
       /\ s \notin Running' => Done(seq'[s])]_schedVars

\* Every sequence that got a slot finishes and gives it back, in whichever loop.
RunningFinishes == \A s \in Seqs : s \in Running ~> s \notin Running

CB == INSTANCE ContinuousBatching WITH
        Replicas <- Dp, Slots <- BatchSizePerDp,
        waiting <- sequence_queue, active <- running_queue,
        left <- [s \in Seqs |-> seq[s].total_len - seq[s].current_len]

\* Each loop implements continuous batching: oldest first into a free slot, any
\* progress of the running ones together, and the slot back at the end.
ImplementsBatching == CB!Spec

=============================================================================
