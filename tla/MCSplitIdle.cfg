SPECIFICATION FairSpec
CONSTANTS
  Seqs = {s1, s2, s3, s4}
  DpDegree = 2
  TotalBatchSize = 4
  MaxProcessToken = 2
  Lengths <- SplitLengths
  Reused <- NoReuse
  RealData = FALSE
  PrefillMode = FALSE
  DecodeMode = FALSE
  Disagg = TRUE
  UseInjectRate = FALSE
  MaxArrivals = 0
  HittingIters = 0
  IterTimes = {1, 2}
  SteadyState = FALSE
PROPERTIES GenStartIsReached
