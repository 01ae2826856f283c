----------------------------- MODULE LayerCost -----------------------------
(***************************************************************************)
(* What the execution of one layer on one processor is charged             *)
(* (hardware/layer_impl.cpp and the helpers that every *_impl.cpp repeats).*)
(*                                                                         *)
(* Every layer function of the executor returns an ExecStatus.  Here it is *)
(* a record with the floating-point operations, the bytes counted as       *)
(* memory traffic, the duration, and the bytes of the read and of the write*)
(* requests issued to the DRAM.  The rates of a processor are given by     *)
(* their inverses, in time units per operation or byte, so that a duration *)
(* is a number.  The memory system is the analytic one (use_ramulator      *)
(* off, the shipped configuration): a request then costs no time of its    *)
(* own.  The prefix sums and utilisations that an ExecStatus carries for   *)
(* the reports are left out.                                               *)
(*                                                                         *)
(* A batch is a function of its sequences: of each, m tokens are processed,*)
(* and its keys and values then number n.                                  *)
(***************************************************************************)
EXTENDS Integers, FiniteSets, SequencesExt

CONSTANTS
    NumHeads, NumKvHeads,     \* per device
    HeadDim, QkRopeHeadDim, KvLoraRank,
    Precision,                \* bytes of an element
    FlopTime, ByteTime,       \* of each processor
    ReadTime, WriteTime,      \* GPU tiers: HBM/HBF reads and writes,
    IntermTime,               \*   and the buffer of intermediate values
    IntermOverlap             \* the two tiers work at the same time

Processors == {"GPU", "LOGIC", "PIM"}

ASSUME LayerCostAssumption ==
    /\ {NumHeads, NumKvHeads, HeadDim, KvLoraRank, Precision} \subseteq Nat \ {0}
    /\ QkRopeHeadDim \in Nat
    /\ NumHeads % NumKvHeads = 0
    /\ FlopTime \in [Processors -> Nat]
    /\ ByteTime \in [Processors -> Nat]
    /\ {ReadTime, WriteTime, IntermTime} \subseteq Nat
    /\ IntermOverlap \in BOOLEAN

----------------------------------------------------------------------------
Larger(a, b) == IF a >= b THEN a ELSE b
Smaller(a, b) == IF a <= b THEN a ELSE b

Cost == [flops : Nat, bytes : Nat, time : Nat, reads : Nat, writes : Nat]

Nothing == [flops |-> 0, bytes |-> 0, time |-> 0, reads |-> 0, writes |-> 0]

Plus(a, b) == [field \in DOMAIN a |-> a[field] + b[field]]

\* The sum of F over the sequences of a batch.
Total(b, F(_)) == SumFunction([s \in DOMAIN b |-> F(b[s])])

Size(b)    == Cardinality(DOMAIN b)
Tokens(b)  == Total(b, LAMBDA s : s.m)
Context(b) == Total(b, LAMBDA s : s.n)
Pairs(b)   == Total(b, LAMBDA s : s.m * s.n)

\* One phase of a layer, repeated for each sequence one after the other.
PerSeq(b, Phase(_)) ==
    [field \in DOMAIN Nothing |-> Total(b, LAMBDA s : Phase(s)[field])]

----------------------------------------------------------------------------
(* A phase.  `elements' counts the elements moved, `reads' and `writes'    *)
(* those of the DRAM requests.                                             *)

\* Arithmetic and memory traffic overlap: the slower one is the duration.
Roofline(p, flops, elements, reads, writes) ==
    [flops  |-> flops,
     bytes  |-> elements * Precision,
     time   |-> Larger(flops * FlopTime[p], elements * Precision * ByteTime[p]),
     reads  |-> reads * Precision,
     writes |-> writes * Precision]

\* Arithmetic only.
Compute(p, flops) == Roofline(p, flops, 0, 0, 0)

\* computeMemoryDuration: the stored tier and the intermediate one.
MemoryDuration(read, write, intermediate) ==
    IF IntermOverlap THEN Larger(read + write, intermediate)
                     ELSE read + write + intermediate

\* A phase of the GPU whose weights or cache are read from the stored tier
\* and whose activations are moved in the intermediate one.
Tiered(flops, read, write, intermediate, reads, writes) ==
    [flops  |-> flops,
     bytes  |-> (read + write + intermediate) * Precision,
     time   |-> Larger(flops * FlopTime["GPU"],
                       MemoryDuration(read * Precision * ReadTime,
                                      write * Precision * WriteTime,
                                      intermediate * Precision * IntermTime)),
     reads  |-> reads * Precision,
     writes |-> writes * Precision]
=============================================================================
