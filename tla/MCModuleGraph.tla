--------------------------- MODULE MCModuleGraph ---------------------------
(* The configurations of this module check ModuleGraph on small clusters. *)
EXTENDS ModuleGraph

=============================================================================
