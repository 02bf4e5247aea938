CONSTANTS
    t1 = t1  t2 = t2
    Threads = {t1, t2}
    Files <- AllFiles
    Kinds = {"dpu", "batch"}
    MaxQueries = 2
    ExtraRows = 2
    NoThread = NoThread
SPECIFICATION FairSpec
INVARIANTS RowsWhole ExactlyOnce
PROPERTY WrappersEnd
CHECK_DEADLOCK FALSE
