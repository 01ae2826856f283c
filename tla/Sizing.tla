------------------------------- MODULE Sizing -------------------------------
(***************************************************************************)
(* main: the memory of the configuration is checked, and unless it stops   *)
(* there the simulation runs (runIteration), wearing the memory it was     *)
(* found to fit.                                                           *)
(***************************************************************************)
EXTENDS MemoryCheck, FlashWear

SizingInit == MemoryInit /\ WearInit

CheckMemorySize == MemoryNext /\ UNCHANGED wearVars

RunIteration ==
  /\ outcome = "run"
  /\ outcome' = "running"
  /\ ResetPEC
  /\ UNCHANGED <<c, priority, stats, outOfMemory, totalBatch, batchPerDp>>

Iterate ==
  /\ outcome = "running"
  /\ WearNext(c.hbf)
  /\ UNCHANGED memoryVars

SizingNext == CheckMemorySize \/ RunIteration \/ Iterate

SizingSpec == SizingInit /\ [][SizingNext]_<<memoryVars, wearVars>>
=============================================================================
