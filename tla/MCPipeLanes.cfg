SPECIFICATION Spec
CONSTANTS
  Seqs = {s1, s2, s3, s4, s5}
  DpDegree = 1
  TotalBatchSize = 5
  MaxProcessToken = 2
  Lengths <- ShortAndLong
  Reused <- NoReuse
  RealData = FALSE
  PrefillMode = FALSE
  DecodeMode = TRUE
  Disagg = FALSE
  UseInjectRate = TRUE
  MaxArrivals = 2
  HittingIters = 1
  PpDegree = 3
  StageTimes = {1, 2}
  MaxLag = 4
  SteadyState = FALSE
SYMMETRY SeqsSymmetry
INVARIANTS
  LaneBalance
  AutoregressiveOrder
PROPERTIES
  ImplementsBatching
