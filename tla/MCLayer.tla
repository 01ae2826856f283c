------------------------------- MODULE MCLayer -------------------------------
(* Small networks and batches for LayerExecution.                          *)
EXTENDS LayerExecution

Default == [kind |-> "MHA", flashMla |-> TRUE, flashAttention |-> FALSE,
            compressed |-> FALSE, decode |-> FALSE, ffnWay |-> 3, procs |-> <<"GPU">>]

GroupedNets ==
    {[Default EXCEPT !.decode = d, !.procs = p] :
        d \in BOOLEAN, p \in {<<"GPU">>, <<"LOGIC">>, <<"GPU", "LOGIC">>, <<"GPU", "PIM">>}}

TwoWayNets == {[Default EXCEPT !.ffnWay = 2, !.procs = p] : p \in {<<"GPU">>, <<"LOGIC">>}}

LatentNets ==
    {[Default EXCEPT !.kind = k, !.flashMla = f, !.flashAttention = f, !.compressed = c,
                     !.decode = d, !.procs = p] :
        k \in {"MLA", "Absorbed"}, f \in BOOLEAN, c \in BOOLEAN, d \in BOOLEAN,
        p \in {<<"GPU">>, <<"LOGIC">>, <<"GPU", "PIM">>}}

AllNets == GroupedNets \union TwoWayNets \union LatentNets

Prompts == <<7, 2, 1>>
Outputs == <<3, 2, 2>>
FlopTimes == [p \in Processors |-> IF p = "GPU" THEN 1 ELSE 2]
ByteTimes == [p \in Processors |-> CASE p = "GPU" -> 3 [] p = "LOGIC" -> 2 [] p = "PIM" -> 1]
=============================================================================
