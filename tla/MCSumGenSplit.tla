---------------------------- MODULE MCSumGenSplit ----------------------------
(* Values for model checking SumGenSplit. *)
EXTENDS SumGenSplit, TLC

\* A prompt of two iterations next to one that ends in a single iteration.
SplitLengths == {<<2, 2>>, <<1, 3>>}
\* One trace, as single_trace_steady_state demands.
OneTrace == {<<2, 5>>}

NoReuse(n) == 0

SeqsSymmetry == Permutations(Seqs)

=============================================================================
