SPECIFICATION Spec
CONSTANTS
  NeTp = 2
  PpDegree = 2
  DpDegree = 2
  ETp = 2
  Layers = 2
  ExpertFreq = 2
  FirstKDense = 0
  DeepSeek = FALSE
  WorkTimes = {1, 2}
  Uneven = {"feedforward", "moe_route"}
  LinkTimes = {1}
  MaxPasses = 2
INVARIANTS
  GraphInv
  CollectiveTimes
PROPERTIES
  CountsOfOwnLayer
  PassesEnd
