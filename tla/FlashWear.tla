----------------------------- MODULE FlashWear -----------------------------
(***************************************************************************)
(* The wear of a high-bandwidth flash: every device counts the bytes of    *)
(* keys and values it writes, and a row of the results for a decode        *)
(* iteration states how many times the memory would be written over in     *)
(* three years (computeThreeYearPEC).  The figure is kept here as the pair *)
(* of the bytes and the time it is made of: dividing by the capacity and   *)
(* multiplying by three years only scales it.  A run is one after the      *)
(* memory check; a process may run several.                                *)
(*                                                                         *)
(* A definition named ...Mutant is the one after it with a plausible bug.  *)
(***************************************************************************)
EXTENDS Integers, FiniteSets, FiniteSetsExt, Functions

CONSTANTS
  WearDevices,  \* the devices
  WriteSizes,   \* what one pass of a device may write
  MaxBytes,     \* bound: bytes a device writes in a run
  MaxTime       \* bound: the time of a run

RowTypes == {"t2t", "sum", "t2ft", "e2e"}

ASSUME WearAssumption ==
  /\ WearDevices # {} /\ IsFiniteSet(WearDevices)
  /\ WriteSizes \subseteq Nat
  /\ MaxBytes \in Nat /\ MaxTime \in Nat

VARIABLES
  written,    \* cumulative_kv_write_bytes of each device
  time,       \* total_time
  started,    \* pec_baseline_initialized
  startTime,  \* pec_start_time
  baseline,   \* pec_baseline_kv_write_bytes
  pec,        \* three_year_pec of the last row
  since       \* history: what each device wrote since the first decode row

wearVars == <<written, time, started, startTime, baseline, pec, since>>

None == [d \in WearDevices |-> 0]
Zero == [bytes |-> 0, elapsed |-> 0]

\* resetPECState, at the start of runIteration.
ResetPEC ==
  /\ written' = None
  /\ time' = 0
  /\ started' = FALSE
  /\ startTime' = 0
  /\ baseline' = << >>
  /\ pec' = Zero
  /\ since' = None

\* A pass: the devices write, and time goes by.
WritePass ==
  /\ \E bytes \in [WearDevices -> WriteSizes] :
       /\ \A d \in WearDevices : written[d] + bytes[d] <= MaxBytes
       /\ written' = [d \in WearDevices |-> written[d] + bytes[d]]
       /\ since' = IF started THEN [d \in WearDevices |-> since[d] + bytes[d]] ELSE since
  /\ time < MaxTime
  /\ time' = time + 1
  /\ UNCHANGED <<started, startTime, baseline, pec>>

\* With the largest counter now less the largest then.
MaxFirstMutant ==
  IF time <= startTime THEN Zero
  ELSE [bytes |-> Max(Range(written)) - Max(Range(baseline)),
        elapsed |-> time - startTime]

ThreeYearPEC ==
  IF time <= startTime THEN Zero
  ELSE [bytes |-> Max({0} \union {written[d] - baseline[d] : d \in WearDevices}),
        elapsed |-> time - startTime]

\* The first decode row takes the baseline and shows no wear.
FirstDecodeRow ==
  /\ ~started
  /\ started' = TRUE
  /\ startTime' = time
  /\ baseline' = written
  /\ pec' = Zero
  /\ UNCHANGED <<written, time, since>>

LaterDecodeRow ==
  /\ started
  /\ pec' = ThreeYearPEC
  /\ UNCHANGED <<written, time, started, startTime, baseline, since>>

\* finalizeThreeYearPEC does not look at rows of other types, nor at a memory
\* that does not wear.
OtherRow ==
  /\ pec' = Zero
  /\ UNCHANGED <<written, time, started, startTime, baseline, since>>

Row(type, hbf) ==
  IF type = "t2t" /\ hbf THEN FirstDecodeRow \/ LaterDecodeRow ELSE OtherRow

WearInit ==
  /\ written = None
  /\ time = 0
  /\ started = FALSE
  /\ startTime = 0
  /\ baseline = << >>
  /\ pec = Zero
  /\ since = None

WearNext(hbf) == WritePass \/ \E type \in RowTypes : Row(type, hbf)

-----------------------------------------------------------------------------
(* Properties *)

\* A decode row states the wear of the device that wrote most since the first
\* decode row of the same run, over the time since then, even when another
\* device had written most before.
RowOfWorstDevice ==
  [][pec' # pec /\ pec' # Zero =>
       /\ started
       /\ pec'.bytes = Max(Range(since))
       /\ pec'.elapsed = time - startTime]_wearVars
=============================================================================
