SPECIFICATION FairSpec
CONSTANTS
    r1 = r1  r2 = r2
    Requests = {r1, r2}
    closer = closer
    NoOne = NoOne
    MaxFaults = 1
INVARIANTS TypeOK OnlyAppliedBatches NothingLost NoClosedObserver
PROPERTIES RequestsAnswered BatchesRecorded StopEnds
CHECK_DEADLOCK FALSE
