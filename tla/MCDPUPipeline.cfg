CONSTANTS
    MaxV = 1000000  ErrorSpan = 1000
    maxWorkloads = 8
    Exception = Exception
    InferredCycles <- MCCycles
    Queries <- MCQueries
    Ranges <- MCRanges
    Divisions <- MCDivisions
SPECIFICATION Spec
INVARIANTS TileGeometry HaloLinesStoredOnce OutputMemoryWhole WorkloadsAddressTile SplitCoversTile PreSplitAgrees RangeEnumeratesMembers CheapestPartition
