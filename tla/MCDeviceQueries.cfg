CONSTANTS
    MaxV = 600000  ErrorSpan = 1000
    t1 = t1  t2 = t2
    Threads <- MCThreads
    MaxQueries = 3
    CacheSize = 1
    SharedCalls <- MCSharedCalls
    AloneCalls <- MCAloneCalls
    ServiceCost <- MCServiceCost
    PrefetchTables <- MCPrefetchTables
    DmaModels <- MCDmaModels
    NetworkOutput <- MCNetworkOutput
    exp <- MCexp
SPECIFICATION Spec
SYMMETRY Symmetry
INVARIANTS SelectorsStayAlive ShaveAnswer ListedIsAnswered ShaveLayerExact TransfersConserved
CHECK_DEADLOCK FALSE
