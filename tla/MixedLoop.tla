------------------------------ MODULE MixedLoop ------------------------------
(***************************************************************************)
(* Cluster::runIterationMixed with the prologue of Cluster::runIteration:  *)
(* the queues are filled, hittingQueue warms them up, then every iteration *)
(* plans tokens, simulates the devices, advances the sequences and refills.*)
(* The loop has no end here: the number of iterations is the user's.       *)
(***************************************************************************)
EXTENDS Scheduler

\* The iteration found no token to process: `continue' before the refill.
RunIdleMixed ==
  /\ pc = "run"
  /\ NoProcessToken
  /\ pc' = "set"
  /\ UNCHANGED <<sequence_queue, running_queue, seq, rotate, to_push, to_admit, warm>>

\* The devices have run: updateScheduler(time), then addLatency at the
\* total_time the iteration ends at.
RunIterationMixed ==
  /\ pc = "run"
  /\ ~ NoProcessToken
  /\ seq' = [s \in Seqs |->
               IF s \notin Running THEN seq[s]
               ELSE IF Reported(seq[s]) THEN AddLatency(Advanced(seq[s]), 0)
               ELSE Advanced(seq[s])]
  /\ Pop(Running)
  /\ pc' = "inject"
  /\ UNCHANGED <<sequence_queue, rotate, to_push, to_admit, warm>>

MixedNext == SetMetadata \/ HitUpdate \/ RunIdleMixed \/ RunIterationMixed \/ Refill

MixedInit == SchedInit

MixedSpec == MixedInit /\ [][MixedNext]_schedVars

\* One thread runs the loop and nothing in it blocks.
MixedFairSpec == MixedSpec /\ WF_schedVars(MixedNext)

-----------------------------------------------------------------------------

\* Without disaggregation an iteration is prefill or decode, never both: while
\* a prompt of any replica is unfinished no running sequence decodes.
DecodeWaitsForPrefill ==
  [][~ Disagg /\ HasSumSeq =>
       \A s \in Running :
         ~ IsSum(s) => seq'[s].current_len = seq[s].current_len]_schedVars

\* Every sequence in the queue gets a slot.
WaitingIsServed == \A s \in Seqs : s \in Waiting ~> s \in Running

=============================================================================
