CONSTANTS
    t1 = t1  t2 = t2
    Threads = {t1}
    Files <- AllFiles
    Kinds = {"dpu", "batch"}
    MaxQueries = 2
    ExtraRows = 2
    NoThread = NoThread
SPECIFICATION Spec

INVARIANTS RowNamesProvider
CHECK_DEADLOCK FALSE
