--------------------------- MODULE MCPipelineDecode ---------------------------
(* Values for model checking PipelineDecode. *)
EXTENDS PipelineDecode, TLC

\* Outputs of two and of three tokens: microbatches lose members at different
\* rounds.
ShortAndLong == {<<1, 2>>, <<1, 4>>}
\* One trace, as single_trace_steady_state demands.
OneTrace == {<<1, 3>>}

NoReuse(n) == 0

SeqsSymmetry == Permutations(Seqs)

=============================================================================
