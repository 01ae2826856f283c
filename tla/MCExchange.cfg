\* Tokens routed to six experts over two stages, three replicas and two nodes,
\* with experts on one device each and shared by two.
CONSTANTS
  NeTp = 2
  PpDegree = 2
  DpDegree = 3
  ETps <- MCETps
  NodeDevices = 8
  NumNode = 2
  NumLayers = 4
  ExpertFreq = 2
  NumExperts = 6
  TopK = 2
  HiddenBytes = 4
  WideCombine = TRUE
  LinkTime <- MCLinkTime
  LinkLatency <- MCLinkLatency
  Picks <- MCPicks
  Lin = 2
  Lout = 2
  Trace <- MCTrace
  Batches <- MCBatches
SPECIFICATION Spec
INVARIANTS
  TracedExperts
  TokensReachHosts
  ScatterConserves
  GatherMirrorsScatter
