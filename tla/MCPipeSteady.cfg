SPECIFICATION FairSpec
CONSTANTS
  Seqs = {s1, s2, s3, s4, s5, s6}
  DpDegree = 2
  TotalBatchSize = 6
  MaxProcessToken = 2
  Lengths <- OneTrace
  Reused <- NoReuse
  RealData = TRUE
  PrefillMode = FALSE
  DecodeMode = TRUE
  Disagg = TRUE
  UseInjectRate = FALSE
  MaxArrivals = 0
  HittingIters = 0
  PpDegree = 2
  StageTimes = {1}
  MaxLag = 1
  SteadyState = TRUE
INVARIANTS
  PipelineInv
PROPERTIES
  OneTokenPerPass
  RunningFinishes
