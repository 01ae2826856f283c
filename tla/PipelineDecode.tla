--------------------------- MODULE PipelineDecode ---------------------------
(***************************************************************************)
(* Cluster::runIterationPipelineDecode with the prologue of                *)
(* Cluster::runIteration: the decode loop of a system with pipeline        *)
(* parallelism.  Each replica is a pipeline of stages; its batch is split  *)
(* into as many persistent microbatches as there are stages, and a round   *)
(* sends every microbatch once through the pipeline, one after the other.  *)
(* A stage works on a microbatch as soon as it is free and the stage before*)
(* it is done, so the microbatches of a round overlap in simulated time.   *)
(*                                                                         *)
(* The devices of a stage (its tensor-parallel group) are one device here, *)
(* and what the modules of a stage cost, with any wait for other replicas, *)
(* is an arbitrary duration.  Times are kept relative to the first stage   *)
(* of the sequence's replica, and those behind it count as 0: every use of *)
(* one is a maximum with, or a comparison against, the time of that stage  *)
(* or of one fed by it.                                                    *)
(***************************************************************************)
EXTENDS Scheduler

CONSTANTS
  PpDegree,      \* stages of a pipeline, and microbatches of a replica
  StageTimes,    \* how long a stage may take for a microbatch
  MaxLag,        \* bound: how far the last stage may be behind the first
  SteadyState    \* single_trace_steady_state: seed the output progress

ASSUME PipelineAssumption ==
  /\ DecodeMode
  /\ PpDegree \in Nat \ {0}
  /\ StageTimes \subseteq Nat \ {0}
  /\ MaxLag \in Nat
  /\ SteadyState \in BOOLEAN
  /\ SteadyState => Disagg /\ HittingIters = 0

Stages == 0 .. PpDegree - 1
Microbatches == 0 .. PpDegree - 1

VARIABLES
  microbatches,             \* the members of each microbatch in each replica
  microbatch_id,            \* the microbatch of a sequence, -1 if unassigned
  in_flight,                \* sequences launched and not completed
  next_decode_ready_time,   \* of each sequence, relative
  exit_time,                \* history: when its last token left the last stage, relative
  stage_time,               \* the device times of each replica, relative
  next_mb,                  \* the microbatch the round has come to
  launched,                 \* whether the round has launched a token
  initialized,              \* initializeMicrobatches has been called
  turnover,                 \* live sequences with turnover_seed
  seeded_remaining          \* the counter of seeded sequences not yet finished

laneVars == <<microbatches, microbatch_id, next_decode_ready_time, exit_time>>
roundVars == <<in_flight, stage_time, next_mb, launched>>
seedVars == <<turnover, seeded_remaining>>
vars == <<schedVars, laneVars, roundVars, initialized, seedVars>>

Init ==
  /\ SchedInit
  /\ microbatches = [m \in Microbatches |-> [d \in Dp |-> {}]]
  /\ microbatch_id = [s \in Seqs |-> -1]
  /\ in_flight = {}
  /\ next_decode_ready_time = [s \in Seqs |-> 0]
  /\ exit_time = [s \in Seqs |-> 0]
  /\ stage_time = [d \in Dp |-> [k \in Stages |-> 0]]
  /\ next_mb = 0
  /\ launched = FALSE
  /\ initialized = FALSE
  /\ turnover = {}
  /\ seeded_remaining = 0

Members(m) == UNION {microbatches[m][d] : d \in Dp}

-----------------------------------------------------------------------------
(* Before the first round *)

\* How many of S come before s in the order.
IndexIn(s, S, order) == Cardinality({u \in S : order[u] < order[s]})

\* The microbatch of the i-th of n sequences.
MicrobatchOf(i, n) == (i * PpDegree) \div n

Seeded(s, i, n) ==
  [seq[s] EXCEPT !.current_len = seq[s].input_len + Generated(seq[s], i, n)]

\* initializeMicrobatches and, in steady state, seedSteadyStateMicrobatches.
InitializeMicrobatches ==
  /\ pc = "set" /\ warm = 0 /\ ~ initialized
  /\ \E order \in [Dp -> UNION {Rankings(running_queue[d]) : d \in Dp}] :
       LET Batch(s) == running_queue[RankOf(s)]
           Index(s, S) == IndexIn(s, S, order[RankOf(s)])
           mb == [s \in Seqs |-> IF s \notin Running THEN -1
                                 ELSE MicrobatchOf(Index(s, Batch(s)),
                                                   Cardinality(Batch(s)))]
           Mates(s) == {u \in Batch(s) : mb[u] = mb[s]}
       IN  /\ \A d \in Dp : order[d] \in Rankings(running_queue[d])
           /\ microbatch_id' = mb
           /\ microbatches' = [m \in Microbatches |-> [d \in Dp |->
                                 {s \in running_queue[d] : mb[s] = m}]]
           /\ IF SteadyState
                THEN /\ seq' = [s \in Seqs |->
                                  IF s \notin Running THEN seq[s]
                                  ELSE Seeded(s, Index(s, Mates(s)),
                                              Cardinality(Mates(s)))]
                     /\ turnover' = Running
                     /\ seeded_remaining' = Cardinality(Running)
                ELSE UNCHANGED <<seq, turnover, seeded_remaining>>
  /\ initialized' = TRUE
  /\ UNCHANGED <<sequence_queue, running_queue, rotate, to_push, to_admit, warm, pc,
                 next_decode_ready_time, exit_time, roundVars>>

-----------------------------------------------------------------------------
(* A round *)

\* Running sequences that have no microbatch yet.
Unassigned == {s \in Running : microbatch_id[s] < 0}

\* restartForNextRoundNoClamp: the graphs start again, the device times stay.
StartRound ==
  /\ pc = "set" /\ initialized
  /\ Unassigned = {}
  /\ pc' = "run"
  /\ next_mb' = 0
  /\ launched' = FALSE
  /\ UNCHANGED <<sequence_queue, running_queue, seq, rotate, to_push, to_admit, warm,
                 laneVars, in_flight, stage_time, initialized, seedVars>>

UnlanedMutant(d) ==
  {s \in running_queue[d] : seq[s].current_len < seq[s].total_len /\ s \notin in_flight}

\* The members of a microbatch that still have tokens to decode.
Unfinished(d) ==
  {s \in microbatches[next_mb][d] :
     seq[s].current_len < seq[s].total_len /\ s \notin in_flight}

ReadyTimes(d) == {next_decode_ready_time[s] : s \in Unfinished(d)}

\* How far the first stage is moved on, to the latest ready time of the members.
LatestReady(d) ==
  CHOOSE r \in ReadyTimes(d) \cup {0} : \A q \in ReadyTimes(d) : q <= r

\* The sequences launchMicrobatch launches in a replica.
Launched(d) == {s \in Unfinished(d) : next_decode_ready_time[s] <= LatestReady(d)}

\* The times of a replica after its first stage has moved on by t.
Later(time, t) == [x \in DOMAIN time |-> Closer(time[x], t)]

LaterInReplica(time, delay) ==
  [s \in Seqs |-> IF s \in Running THEN Closer(time[s], delay[RankOf(s)]) ELSE time[s]]

\* The first stage waits for the members of the microbatch; launchMicrobatch
\* gives each a token.
LaunchMicrobatch ==
  LET now == UNION {Launched(d) : d \in Dp}
      delay == [d \in Dp |-> LatestReady(d)]
  IN  /\ pc = "run" /\ in_flight = {}
      /\ next_mb < PpDegree
      /\ seq' = [s \in Seqs |-> IF s \in now THEN [seq[s] EXCEPT !.num_process_token = 1]
                                ELSE seq[s]]
      /\ in_flight' = now
      /\ stage_time' = [d \in Dp |-> Later(stage_time[d], delay[d])]
      /\ next_decode_ready_time' = LaterInReplica(next_decode_ready_time, delay)
      /\ exit_time' = LaterInReplica(exit_time, delay)
      /\ launched' = (launched \/ now # {})
      /\ next_mb' = IF now = {} THEN next_mb + 1 ELSE next_mb
      /\ UNCHANGED <<sequence_queue, running_queue, rotate, to_push, to_admit, warm, pc,
                     microbatches, microbatch_id, initialized, seedVars>>

\* When each stage of replica d is done with the microbatch, if stage k takes
\* t[k]: PipelineRecv waits for the stage before.
Exit(d, t) ==
  LET exit[k \in Stages] ==
        Most(stage_time[d][k], IF k = 0 THEN 0 ELSE exit[k - 1]) + t[k]
  IN  exit

\* A replica that has a part of the microbatch works on it in every stage; in
\* one that has none a stage may take no time.
StageDurations(d) ==
  IF running_queue[d] \cap in_flight # {} THEN StageTimes ELSE StageTimes \cup {0}

\* The first stage never waits for those behind it: with sequences that are
\* ready at once it runs ahead without limit.  MaxLag is a bound of the model.
Passages(d) ==
  {e \in {Exit(d, t) : t \in [Stages -> StageDurations(d)]} :
     e[PpDegree - 1] - e[0] <= MaxLag}

FirstStageMutant(exit) == exit[0]

\* When the tokens of the microbatch are there.
Finish(exit) == exit[PpDegree - 1]

Completed(r) ==
  LET len == r.current_len + r.num_process_token
      c == [r EXCEPT !.current_len = len, !.num_process_token = 0]
  IN  [c EXCEPT !.record = @ \/ FirstToken(c)]

StayMutant(gone) == running_queue

WholeLaneMutant(gone) == [d \in Dp |-> running_queue[d] \ in_flight]

\* running_queue[dp]->pop(seq)
WithoutFinished(gone) == [d \in Dp |-> running_queue[d] \ gone]

SeededDepartures(gone) == Cardinality(turnover \cap gone)

\* runOneMicrobatch sends the microbatch through the stages and
\* completeMicrobatch updates its sequences.
CompleteMicrobatch ==
  /\ pc = "run" /\ in_flight # {}
  /\ \E exit \in [Dp -> UNION {Passages(d) : d \in Dp}] :
       LET first == [d \in Dp |-> exit[d][0]]
           gone == {s \in in_flight : Done(Completed(seq[s]))}
           Behind(s, e) == Closer(e, first[RankOf(s)])
       IN  /\ \A d \in Dp : exit[d] \in Passages(d)
           /\ stage_time' = [d \in Dp |-> Later(exit[d], first[d])]
           /\ next_decode_ready_time' =
                [s \in Seqs |->
                   IF s \in gone THEN 0
                   ELSE IF s \in in_flight THEN Behind(s, Finish(exit[RankOf(s)]))
                   ELSE LaterInReplica(next_decode_ready_time, first)[s]]
           /\ exit_time' =
                [s \in Seqs |->
                   IF s \in gone THEN 0
                   ELSE IF s \in in_flight THEN Behind(s, exit[RankOf(s)][PpDegree - 1])
                   ELSE LaterInReplica(exit_time, first)[s]]
           /\ seq' = [s \in Seqs |-> IF s \in in_flight THEN Completed(seq[s]) ELSE seq[s]]
           /\ running_queue' = WithoutFinished(gone)
           /\ microbatches' = [m \in Microbatches |-> [d \in Dp |->
                                 microbatches[m][d] \ gone]]
           /\ microbatch_id' = [s \in Seqs |-> IF s \in gone THEN -1 ELSE microbatch_id[s]]
           /\ turnover' = turnover \ gone
           /\ seeded_remaining' = seeded_remaining - SeededDepartures(gone)
  /\ in_flight' = {}
  /\ next_mb' = next_mb + 1
  /\ UNCHANGED <<sequence_queue, rotate, to_push, to_admit, warm, pc, launched, initialized>>

\* The round is over; `continue' skips the refill if it launched nothing.
EndRound ==
  /\ pc = "run" /\ in_flight = {}
  /\ next_mb = PpDegree
  /\ pc' = IF launched THEN "inject" ELSE "set"
  /\ next_mb' = 0
  /\ launched' = FALSE
  /\ UNCHANGED <<sequence_queue, running_queue, seq, rotate, to_push, to_admit, warm,
                 laneVars, in_flight, stage_time, initialized, seedVars>>

FirstMutant(d) == {0}

\* The least full microbatches of a replica.
LeastFull(d) ==
  {m \in Microbatches : \A o \in Microbatches :
     Cardinality(microbatches[m][d]) <= Cardinality(microbatches[o][d])}

\* refillMicrobatches, one sequence at a time, after fillRunningQueue.
RefillMicrobatch ==
  /\ pc = "set" /\ initialized
  /\ \E s \in Unassigned :
       \E m \in LeastFull(RankOf(s)) :
         /\ \A o \in LeastFull(RankOf(s)) : m <= o
         /\ microbatch_id' = [microbatch_id EXCEPT ![s] = m]
         /\ microbatches' = [microbatches EXCEPT ![m][RankOf(s)] = @ \cup {s}]
         /\ next_decode_ready_time' = [next_decode_ready_time EXCEPT ![s] = 0]
         /\ exit_time' = [exit_time EXCEPT ![s] = 0]
  /\ UNCHANGED <<schedVars, roundVars, initialized, seedVars>>

\* hittingQueue and the refill are the scheduler's; setMetadata plans the
\* warm-up only.
WarmUpAndRefill ==
  /\ (warm > 0 /\ SetMetadata) \/ HitUpdate \/ Refill
  /\ UNCHANGED <<laneVars, roundVars, initialized, seedVars>>

Next ==
  \/ WarmUpAndRefill
  \/ InitializeMicrobatches
  \/ StartRound
  \/ LaunchMicrobatch
  \/ CompleteMicrobatch
  \/ EndRound
  \/ RefillMicrobatch

Spec == Init /\ [][Next]_vars

\* One thread runs the loop and nothing in it blocks.
FairSpec == Spec /\ WF_vars(Next)

-----------------------------------------------------------------------------

PipelineTypeOK ==
  /\ TypeOK
  /\ microbatches \in [Microbatches -> [Dp -> SUBSET Seqs]]
  /\ microbatch_id \in [Seqs -> Microbatches \cup {-1}]
  /\ in_flight \subseteq Seqs
  /\ next_decode_ready_time \in [Seqs -> Nat]
  /\ exit_time \in [Seqs -> Nat]
  /\ stage_time \in [Dp -> [Stages -> Nat]]
  /\ next_mb \in 0 .. PpDegree
  /\ launched \in BOOLEAN /\ initialized \in BOOLEAN
  /\ turnover \subseteq Seqs
  /\ seeded_remaining \in Int

\* running_queue and microbatches hold the same sequences: in every replica each
\* running sequence is in the microbatch its microbatch_id names and in no
\* other, and nothing that has left the batch is still in a microbatch.
MicrobatchesPartitionBatches ==
  initialized =>
    \A d \in Dp, m \in Microbatches :
      microbatches[m][d] = {s \in running_queue[d] : microbatch_id[s] = m}

\* A persistent microbatch "launches together rather than partially launching
\* only the earliest-ready subset": in each replica all its unfinished members
\* are in flight or none is.
LaunchesTogether ==
  \A m \in Microbatches, d \in Dp :
    microbatches[m][d] \cap in_flight # {} =>
      \A s \in microbatches[m][d] :
        seq[s].current_len < seq[s].total_len => s \in in_flight

\* seeded_remaining counts the seeded sequences that still hold a slot.
SeededRemainingCounts ==
  seeded_remaining = Cardinality(turnover \cap Running)

\* What is planned is what is in flight: one token for each member of the
\* microbatch the round has come to, and the token may start.
InFlightOK ==
  /\ in_flight \subseteq Running
  /\ in_flight # {} => pc = "run" /\ initialized
  /\ \A s \in in_flight :
       /\ microbatch_id[s] = next_mb
       /\ next_decode_ready_time[s] = 0
       /\ seq[s].num_process_token = 1
  /\ \A s \in Seqs :
       pc # "hit" /\ s \notin in_flight => seq[s].num_process_token = 0

\* Only sequences that hold a slot have a microbatch or count as seeded, and
\* none has before the first round.  Rounds only start once it is done.
LanesOfRunning ==
  /\ \A s \in Seqs \ Running : microbatch_id[s] = -1 /\ seq[s].num_process_token = 0
  /\ turnover \subseteq Running
  /\ initialized => warm = 0
  /\ pc = "run" => initialized
  /\ ~ initialized =>
       /\ microbatches = [m \in Microbatches |-> [d \in Dp |-> {}]]
       /\ microbatch_id = [s \in Seqs |-> -1]
       /\ turnover = {}

\* The invariant of the loop's bookkeeping: batches and microbatches are two
\* lists of the same sequences, a microbatch launches as one, the counter of
\* seeded sequences follows departures from the lanes (launchMicrobatch,
\* completeMicrobatch and refillMicrobatches, in any order of departures), and
\* a sequence is ready when its last token has left the pipeline.
PipelineInv ==
  /\ SchedInv
  /\ PipelineTypeOK
  /\ MicrobatchesPartitionBatches
  /\ LaunchesTogether
  /\ SeededRemainingCounts
  /\ InFlightOK
  /\ LanesOfRunning
  /\ exit_time = next_decode_ready_time

\* "Each microbatch holds ~batch_size_per_dp/pp_dg sequences PER DP replica",
\* whatever the order in which sequences finish and are replaced.
LaneBalance ==
  \A d \in Dp, m \in Microbatches :
    Cardinality(microbatches[m][d]) * PpDegree < BatchSizePerDp + PpDegree

\* "Same sequence's next token starts when: next_decode_ready_time <=
\* stage0_time": a token enters the first stage only after the sequence's token
\* before has left the last one.
AutoregressiveOrder == \A s \in in_flight : exit_time[s] = 0

\* After the warm-up a sequence advances only when its own microbatch passes
\* through the pipeline, and then by one token: no pass takes along a sequence
\* of another lane, although a refill may have filled the lane meanwhile.
OneTokenPerPass ==
  [][\A s \in Running \cap Running' :
       initialized /\ seq'[s].current_len # seq[s].current_len
         => /\ s \in in_flight /\ microbatch_id[s] = next_mb
            /\ seq'[s].current_len = seq[s].current_len + 1]_vars

=============================================================================
