SPECIFICATION MixedFairSpec
CONSTANTS
  Seqs = {s1, s2, s3, s4}
  DpDegree = 2
  TotalBatchSize = 3
  MaxProcessToken = 2
  Lengths <- MixedLengths
  Reused <- HalfReused
  RealData = FALSE
  PrefillMode = FALSE
  DecodeMode = FALSE
  Disagg = FALSE
  UseInjectRate = TRUE
  MaxArrivals = 1
  HittingIters = 1
INVARIANTS NoFreeSlotWhileWaiting
PROPERTIES RunningFinishes WaitingIsServed
