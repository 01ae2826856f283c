SPECIFICATION MixedSpec
CONSTANTS
  Seqs = {s1, s2, s3, s4}
  DpDegree = 2
  TotalBatchSize = 4
  MaxProcessToken = 3
  Lengths <- MixedLengths
  Reused <- NoReuse
  RealData = FALSE
  PrefillMode = FALSE
  DecodeMode = FALSE
  Disagg = FALSE
  UseInjectRate = FALSE
  MaxArrivals = 0
  HittingIters = 2
SYMMETRY SeqsSymmetry
INVARIANTS
  SchedInv
PROPERTIES
  DecodeWaitsForPrefill
  ImplementsBatching
