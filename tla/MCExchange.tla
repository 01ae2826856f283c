----------------------------- MODULE MCExchange -----------------------------
(* Three replicas of two stages of two devices; the third is on a node of  *)
(* its own.                                                                *)
EXTENDS ExpertExchange

MCETps == {1, 2}

MCPicks == {{0, 1}, {1, 4}, {3, 5}}

MCLinkTime == [device |-> 1, node |-> 3]
MCLinkLatency == [device |-> 2, node |-> 5]

MCTrace == [t \in 0 .. 3 |-> [l \in 0 .. 1 |-> {(t + l) % 6, (t + 2 * l + 3) % 6}]]

\* Nothing; one generated token; a prompt of two tokens and a generated token
\* of the traced sequence.
MCBatches ==
  { [len |-> 0, tokens |-> 0, sum |-> FALSE, fromList |-> FALSE],
    [len |-> 3, tokens |-> 1, sum |-> FALSE, fromList |-> FALSE],
    [len |-> 0, tokens |-> 2, sum |-> TRUE, fromList |-> TRUE],
    [len |-> 3, tokens |-> 1, sum |-> FALSE, fromList |-> TRUE] }
=============================================================================
