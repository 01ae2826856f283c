------------------------------ MODULE MCSizing ------------------------------
(* Small models over two or three stages, in memories of which some are    *)
(* ample, some hold a smaller batch and some not even the weights.         *)
EXTENDS Sizing

MCBase ==
  [layers |-> 7, pp |-> 3, dp |-> 1, batch |-> 4, attention |-> "standard",
   compressed |-> FALSE, chunked |-> FALSE, experts |-> FALSE, decode |-> TRUE,
   disagg |-> TRUE, hbf |-> FALSE, capacity |-> 0, buffer |-> 0,
   ignoreBuffer |-> FALSE, exit |-> FALSE, capLimit |-> TRUE]

\* A dense model, a chunked one, and latent or absorbed attention with experts;
\* the flag of compressed rows may be set or not with any attention.
MCModels ==
  { MCBase,
    [MCBase EXCEPT !.layers = 5, !.disagg = FALSE, !.compressed = TRUE],
    [MCBase EXCEPT !.layers = 9, !.pp = 4],
    [MCBase EXCEPT !.layers = 8, !.pp = 2, !.dp = 2, !.batch = 13, !.chunked = TRUE],
    [MCBase EXCEPT !.layers = 4, !.pp = 2, !.dp = 2, !.batch = 7, !.experts = TRUE,
                   !.attention = "latent", !.compressed = TRUE],
    [MCBase EXCEPT !.layers = 4, !.pp = 2, !.dp = 2, !.batch = 7, !.experts = TRUE,
                   !.attention = "latent", !.decode = FALSE],
    [MCBase EXCEPT !.layers = 4, !.pp = 2, !.dp = 2, !.batch = 7, !.experts = TRUE,
                   !.attention = "absorbed", !.compressed = TRUE],
    [MCBase EXCEPT !.layers = 4, !.pp = 2, !.dp = 2, !.batch = 13, !.experts = TRUE,
                   !.attention = "absorbed"] }

MCMemories == {[capacity |-> m, hbf |-> h] : m \in {60, 200, 400, 700, 1000, 1400, 2000, 4000},
                                              h \in BOOLEAN}

MCPolicies ==
  { [exit |-> FALSE, capLimit |-> TRUE, ignoreBuffer |-> TRUE, buffer |-> 0],
    [exit |-> FALSE, capLimit |-> TRUE, ignoreBuffer |-> FALSE, buffer |-> 100],
    [exit |-> TRUE, capLimit |-> TRUE, ignoreBuffer |-> FALSE, buffer |-> 100000] }

MCConfigurations ==
  { [m EXCEPT !.capacity = memory.capacity, !.hbf = memory.hbf,
              !.exit = policy.exit, !.capLimit = policy.capLimit,
              !.ignoreBuffer = policy.ignoreBuffer, !.buffer = policy.buffer] :
      m \in MCModels, memory \in MCMemories, policy \in MCPolicies }

MCWearDevices == {0, 1}
MCWriteSizes == {0, 1, 2}
=============================================================================
