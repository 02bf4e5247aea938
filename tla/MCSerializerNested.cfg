CONSTANTS
    t1 = t1  t2 = t2
    Threads = {t1}
    Files <- AllFiles
    Kinds = {"dpu", "batch", "layer", "presplit", "dma", "shave"}
    MaxQueries = 4
    ExtraRows = 2
    NoThread = NoThread
SPECIFICATION Spec

INVARIANTS BuffersLeftClean RowsComplete RowsInOrder
CHECK_DEADLOCK FALSE
