------------------------------ MODULE LinearCost ------------------------------
(***************************************************************************)
(* The cost of the layers around attention: linear layers plain, fused for *)
(* query, key and value, and batched over heads (hardware/linear_impl.cpp),*)
(* the activation function (hardware/activation_impl.cpp), and the modules *)
(* that compute their own time (layernorm.cpp, residual.cpp, rope.cpp).    *)
(* m is the number of tokens, k and n the width of input and output.  What *)
(* is executed for no token is charged nothing.                            *)
(***************************************************************************)
EXTENDS LayerCost

IfAny(m, cost) == IF m = 0 THEN Nothing ELSE cost

LinearGPU(m, k, n) ==
    IfAny(m, Tiered(2 * m * k * n, k * n, 0, m * k + m * n, m * k + k * n, m * n))

\* The new keys and values go to the stored tier, the queries do not.
QKVLinearGPU(m, k) ==
    LET q == HeadDim * NumHeads
        kv == 2 * HeadDim * NumKvHeads
        n == q + kv
    IN  IfAny(m, Tiered(2 * m * k * n, k * n, m * kv, m * k + m * q, m * k + k * n, m * n))

\* The bytes written for the wear of the flash, counted also for no token.
KVWriteBytes(m) == m * 2 * HeadDim * NumKvHeads * Precision

LinearOn(p, m, k, n) ==
    IfAny(m, Roofline(p, 2 * m * k * n, m * k + k * n + m * n, m * k + k * n, m * n))

LinearLogic(m, k, n) == LinearOn("LOGIC", m, k, n)
LinearPIM(m, k, n)   == LinearOn("PIM", m, k, n)

Linear(p, m, k, n) ==
    CASE p = "GPU"   -> LinearGPU(m, k, n)
      [] p = "LOGIC" -> LinearLogic(m, k, n)
      [] p = "PIM"   -> LinearPIM(m, k, n)

QKVLinear(p, m, k) ==
    IF p = "GPU" THEN QKVLinearGPU(m, k)
                 ELSE Linear(p, m, k, HeadDim * (NumHeads + 2 * NumKvHeads))

\* One product per head; a duplicated input is read once for all of them.
BatchedLinearGPU(duplicated, h, m, k, n) ==
    IfAny(m, Tiered(2 * m * k * n * h, k * n * h, 0,
                    (IF duplicated THEN m * k ELSE m * k * h) + m * n * h,
                    h * (m * k + k * n), h * m * n))

\* These take the first two dimensions of the tensors, heads and rows, for
\* rows and columns.
BatchedLinearOn(p, h, m, k, n) ==
    IfAny(m, [Roofline(p, 2 * h * m * k, h * m + m * k + h * k, 0, 0) EXCEPT
                  !.reads  = h * (m * k + k * n) * Precision,
                  !.writes = h * m * n * Precision])

BatchedLinearLogic(h, m, k, n) == BatchedLinearOn("LOGIC", h, m, k, n)
BatchedLinearPIM(h, m, k, n)   == BatchedLinearOn("PIM", h, m, k, n)

BatchedLinear(p, duplicated, h, m, k, n) ==
    CASE p = "GPU"   -> BatchedLinearGPU(duplicated, h, m, k, n)
      [] p = "LOGIC" -> BatchedLinearLogic(h, m, k, n)
      [] p = "PIM"   -> BatchedLinearPIM(h, m, k, n)

ActivationGPU(m, k) == IfAny(m, Tiered(0, 0, 0, 3 * m * k, 2 * m * k, m * k))

\* One operation for each byte.
ActivationOn(p, m, k) ==
    IfAny(m, Roofline(p, 3 * m * k * Precision, 3 * m * k, 2 * m * k, m * k))

ActivationLogic(m, k) == ActivationOn("LOGIC", m, k)
ActivationPIM(m, k)   == ActivationOn("PIM", m, k)

Activation(p, m, k) ==
    CASE p = "GPU"   -> ActivationGPU(m, k)
      [] p = "LOGIC" -> ActivationLogic(m, k)
      [] p = "PIM"   -> ActivationPIM(m, k)

----------------------------------------------------------------------------
(* The time of modules that the executor does not see; no request is       *)
(* issued for them.                                                        *)

LayerNorm(m, k) == IfAny(m, Tiered(4 * m * k, k, 0, 2 * m * k, 0, 0)).time

Residual(m, k) == IfAny(m, Tiered(m * k, 0, 0, 3 * m * k, 0, 0)).time

\* The rotations of maxLen positions are read for the rows of h heads.
RoPE(h, m, k, maxLen) ==
    IfAny(m, Roofline("GPU", 6 * h * m * k, 2 * h * m * k + 2 * maxLen * QkRopeHeadDim, 0, 0)).time
=============================================================================
