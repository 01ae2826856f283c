SPECIFICATION Spec
CONSTANTS
    Nets <- AllNets
    NumLayers = 2
    TpDegree = 2
    HiddenDim = 8
    QLoraRank = 2
    IntermediateDim = 6
    NVocab = 10
    GroupedKvHeads = 1
    NumSeqs = 3
    InputLen <- Prompts
    OutputLen <- Outputs
    MaxProcessToken = 6
    NumHeads = 2
    NumKvHeads = 2
    HeadDim = 2
    QkRopeHeadDim = 1
    KvLoraRank = 3
    Precision = 2
    FlopTime <- FlopTimes
    ByteTime <- ByteTimes
    ReadTime = 3
    WriteTime = 4
    IntermTime = 2
    IntermOverlap = TRUE
    KvWindow = 2
    FullStride = 2
    SharedMem = 64
    IntRange = 64
CHECK_DEADLOCK FALSE
INVARIANTS
    PromptWork
    DecodeWork
    CacheIsRead
    CopiesAgree
    KvWrittenOnce
