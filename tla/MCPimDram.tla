------------------------------ MODULE MCPimDram ------------------------------
(* Small devices for TLC: timing parameters scaled down, in the order they  *)
(* have in the HBM3 preset (nCCD, nRTP < nRCD = nRP < nRAS < nRC < nRFC).   *)
EXTENDS PimDramController

MCTimings == [nRC |-> 6, nRCD |-> 2, nRAS |-> 4, nRP |-> 2, nRTP |-> 1,
              nCCDL |-> 5, nBL |-> 1, nCWL |-> 1, nCL |-> 2, nWR |-> 2,
              nWTR |-> 1, nRRD |-> 1, nRFC |-> 7]

MCTensors == << <<"wq", 67>>, <<"act", 11>>, <<"wk", 7>> >>

MCRequests == {<<"kRead", "GPU", 0>>, <<"kWrite", "GPU", 0>>,
               <<"GEMV", "PIM", 16>>, <<"GEMV", "LOGIC", 4>>}
=============================================================================
