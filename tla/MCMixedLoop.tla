----------------------------- MODULE MCMixedLoop -----------------------------
(* Values for model checking MixedLoop. *)
EXTENDS MixedLoop, TLC

\* A prompt that takes two iterations and one that takes one, with short and
\* long outputs.
MixedLengths == {<<2, 2>>, <<1, 3>>}

NoReuse(n) == 0
HalfReused(n) == n \div 2

SeqsSymmetry == Permutations(Seqs)

=============================================================================
