\* The memory check over eight models, eight capacities and three policies, and
\* the wear of two devices in the run that follows.
CONSTANTS
  Configurations <- MCConfigurations
  NeTp = 2
  ETp = 2
  HiddenDim = 4
  HeadDim = 2
  NumHeads = 4
  NumKvHeads = 2
  QLoraRank = 2
  KvLoraRank = 2
  QkRopeHeadDim = 1
  IntermediateDim = 8
  ExpertIntermediateDim = 4
  FfnWay = 3
  NVocab = 16
  NumRoutedExpert = 4
  NumSharedExpert = 1
  TopK = 2
  PrecisionByte = 2
  InputLen = 4
  OutputLen = 4
  FullStride = 2
  Window = 3
  LayerWeight = 20
  VocabWeight = 30
  TracedActivation = 40
  WearDevices <- MCWearDevices
  WriteSizes <- MCWriteSizes
  MaxBytes = 3
  MaxTime = 3
SPECIFICATION SizingSpec
INVARIANTS
  LayersPartitioned
  CappedBatchFits
PROPERTIES
  RowOfWorstDevice
\* A configuration that does not fit stops.
CHECK_DEADLOCK FALSE
