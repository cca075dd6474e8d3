SPECIFICATION FairPoolSpec
CONSTANTS
    Workers = {w1, w2}
    PerWorker = 1
    Submitters = {s1, s2}
    Closers = {k1, k2}
    Tasks = {t1, t2, t3, t4}
    NoTask = NoTask
INVARIANTS PoolTypeOK
PROPERTIES RunsEachTaskOnce ShutdownEnds
CHECK_DEADLOCK FALSE
