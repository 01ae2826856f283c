----------------------------- MODULE SumGenSplit -----------------------------
(***************************************************************************)
(* Cluster::runIterationSumGenSplit with the prologue of                   *)
(* Cluster::runIteration: the loop of a disaggregated system.  Prefill     *)
(* runs on a "sum machine" and decode on a "gen machine", each with a      *)
(* clock of its own; one loop simulates both, an iteration of one machine  *)
(* at a time, and the sum machine has priority.                            *)
(*                                                                         *)
(* total_time is the clock of the gen machine.  Times are kept relative to *)
(* it: only the distance by which they lie ahead of it matters.            *)
(***************************************************************************)
EXTENDS Scheduler

CONSTANTS
  IterTimes,      \* durations an iteration may have
  SteadyState     \* single_trace_steady_state: seed the output progress

ASSUME SplitAssumption ==
  /\ Disagg
  /\ IterTimes \subseteq Nat \ {0}
  /\ SteadyState \in BOOLEAN
  /\ SteadyState => DecodeMode /\ HittingIters = 0

VARIABLES
  sum_ahead,          \* how far sum_machine_time lies ahead of total_time
  prefill_ahead,      \* history: the same of the end of the last prefill iteration
                      \* of each running sequence (0 without one)
  seeded,             \* seedSteadyStateBatch has been called
  turnover,           \* live sequences with turnover_seed
  seeded_remaining    \* the counter of seeded sequences not yet finished

splitVars == <<sum_ahead, prefill_ahead, seeded, turnover, seeded_remaining>>
vars == <<schedVars, splitVars>>

Init ==
  /\ SchedInit
  /\ sum_ahead = 0
  /\ prefill_ahead = [s \in Seqs |-> 0]
  /\ seeded = FALSE
  /\ turnover = {}
  /\ seeded_remaining = 0

-----------------------------------------------------------------------------
(* Steady state: the first batch starts with its outputs evenly advanced *)

Seeded(s, order) ==
  LET batch == running_queue[RankOf(s)]
      i == Cardinality({u \in batch : order[u] < order[s]})
  IN  [seq[s] EXCEPT
         !.current_len = seq[s].input_len + Generated(seq[s], i, Cardinality(batch))]

\* seedSteadyStateBatch and countSeededSequences, before the first iteration.
SeedSteadyStateBatch ==
  /\ pc = "set" /\ warm = 0
  /\ SteadyState /\ ~ seeded
  /\ \E order \in Rankings(Running) :
       seq' = [s \in Seqs |-> IF s \in Running THEN Seeded(s, order) ELSE seq[s]]
  /\ turnover' = Running
  /\ seeded_remaining' = Cardinality(Running)
  /\ seeded' = TRUE
  /\ UNCHANGED <<sequence_queue, running_queue, rotate, to_push, to_admit, warm, pc,
                 sum_ahead, prefill_ahead>>

-----------------------------------------------------------------------------
(* The loop *)

PlanIteration ==
  /\ SteadyState => seeded
  /\ SetMetadata
  /\ UNCHANGED splitVars

\* No token to process: the iteration's 20 ms go to a variable that dies with
\* the iteration, and `continue' skips everything else.
RunIdle ==
  /\ pc = "run"
  /\ NoProcessToken
  /\ pc' = "set"
  /\ UNCHANGED <<sequence_queue, running_queue, seq, rotate, to_push, to_admit, warm,
                 splitVars>>

\* The sequences that leave with the update of an iteration.
Departed == {s \in Running : Done(Updated(seq[s]))}

AnyDepartureMutant == Cardinality(Departed)

\* The loop over token_list that lowers seeded_remaining.
SeededDepartures == Cardinality(turnover \cap Departed)

\* The gen machine: total_time advances by t, updateScheduler(t) moves every
\* running sequence, addLatency reports at the new total_time.
RunGen(t) ==
  /\ pc = "run"
  /\ ~ NoProcessToken
  /\ ~ HasSumSeq
  /\ seq' = [s \in Seqs |->
               IF s \notin Running THEN seq[s]
               ELSE AddLatency(Advanced(seq[s]),
                               IF Reported(seq[s]) THEN 0
                               ELSE Closer(seq[s].gen_ahead, t))]
  /\ Pop(Running)
  /\ sum_ahead' = Closer(sum_ahead, t)
  /\ prefill_ahead' = [s \in Seqs |-> Closer(prefill_ahead[s], t)]
  /\ turnover' = turnover \ Departed
  /\ seeded_remaining' = seeded_remaining - SeededDepartures
  /\ pc' = "inject"
  /\ UNCHANGED <<sequence_queue, rotate, to_push, to_admit, warm, seeded>>

AllRunningMutant == Running

\* The sequences updateSchedulerSumGenSplit moves.
InPrefill == {s \in Running : IsSum(s)}

OwnIterationMutant(r, t) == t

\* gen_start_time after an iteration of the sum machine: the update sets it to
\* total_time + t, and addLatency overwrites it with the machine's own time if
\* the sequence is reported.
SumGenStart(r, t) == IF Reported(r) THEN sum_ahead + t ELSE t

\* The sum machine: it starts when both clocks allow.  No refill follows.
RunSum(t) ==
  /\ pc = "run"
  /\ ~ NoProcessToken
  /\ HasSumSeq
  /\ sum_ahead' = sum_ahead + t
  /\ seq' = [s \in Seqs |->
               IF s \in InPrefill
                 THEN AddLatency(Advanced(seq[s]), SumGenStart(seq[s], t))
                 ELSE seq[s]]
  /\ Pop(InPrefill)
  /\ prefill_ahead' =
       [s \in Seqs |-> IF s \in InPrefill THEN sum_ahead + t ELSE prefill_ahead[s]]
  /\ pc' = "set"
  /\ UNCHANGED <<sequence_queue, rotate, to_push, to_admit, warm, seeded, turnover,
                 seeded_remaining>>

\* The history is the running sequences' only; the rest of the loop's state is
\* left alone by the scheduler's other operations.
ForgetDeparted ==
  /\ prefill_ahead' = [s \in Seqs |-> IF s \in Running THEN prefill_ahead[s] ELSE 0]
  /\ UNCHANGED <<sum_ahead, seeded, turnover, seeded_remaining>>

Next ==
  \/ SeedSteadyStateBatch
  \/ PlanIteration
  \/ RunIdle
  \/ \E t \in IterTimes : RunGen(t) \/ RunSum(t)
  \/ (HitUpdate \/ Refill) /\ ForgetDeparted

Spec == Init /\ [][Next]_vars

\* One thread runs the loop and nothing in it blocks.
FairSpec == Spec /\ WF_vars(Next)

-----------------------------------------------------------------------------

SplitTypeOK ==
  /\ TypeOK
  /\ sum_ahead \in Nat
  /\ prefill_ahead \in [Seqs -> Nat]
  /\ seeded \in BOOLEAN
  /\ turnover \subseteq Seqs
  /\ seeded_remaining \in Int

\* The update would put the sequence on token_list though it gets no token.
AtMilestone(r) ==
  \/ r.current_len = r.total_len
  \/ r.current_len = r.input_len /\ ~ r.record

\* Why decode stays behind prefill.  gen_start_time covers the last prefill
\* iteration of a sequence whose prompt is done, and a planned decode token
\* means that gen_start_time has passed.  The other parts carry these two
\* through the update (which may reset gen_start_time of what it reports), the
\* reuse of identities, the warm-up and the seeding.
ClockInv ==
  /\ \A s \in Running : ~ IsSum(s) => prefill_ahead[s] <= seq[s].gen_ahead
  /\ \A s \in Seqs :
       ~ IsSum(s) /\ seq[s].num_process_token > 0 => seq[s].gen_ahead = 0
  /\ \A s \in Running : ~ IsSum(s) /\ AtMilestone(seq[s]) => prefill_ahead[s] = 0
  /\ \A s \in Seqs : IsSum(s) => ~ seq[s].record
  /\ \A s \in Waiting : prefill_ahead[s] = 0
  /\ warm > 0 => \A s \in Seqs : prefill_ahead[s] = 0
  /\ SteadyState /\ ~ seeded =>
       /\ pc \notin {"hit", "run"}
       /\ \A s \in Seqs : prefill_ahead[s] = 0 /\ seq[s].num_process_token = 0

\* The invariant of the disaggregated loop: that of the scheduler and the order
\* of the two clocks that updateSchedulerSumGenSplit and addLatency keep.
SplitInv == SchedInv /\ SplitTypeOK /\ ClockInv

\* The two clocks are kept in order: the gen machine gives a sequence a token
\* only once total_time has reached the time the sum machine finished its
\* prefill, though that prefill may have taken several iterations.
DecodeAfterPrefill ==
  pc = "run" => \A s \in Running :
    ~ IsSum(s) /\ seq[s].num_process_token > 0 => prefill_ahead[s] = 0

\* An iteration of the sum machine moves prompts only, even though decode
\* tokens may be planned in the same iteration.
SumMachineOnlyPrefills ==
  [][HasSumSeq /\ pc = "run" =>
       \A s \in Running : ~ IsSum(s) => seq'[s] = seq[s]]_vars

\* seeded_remaining counts the seeded sequences that still hold a slot.
SeededRemainingCounts ==
  seeded => seeded_remaining = Cardinality(turnover \cap Running)

\* "if no reqeusts, add time": the loop advances the clock while there is
\* nothing to run, so total_time reaches every gen_start_time.
GenStartIsReached ==
  \A s \in Seqs :
    s \in Running /\ seq[s].gen_ahead > 0 ~> seq[s].gen_ahead = 0

=============================================================================
