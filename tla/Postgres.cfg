SPECIFICATION FairSpec
CONSTANTS
    r1 = r1  r2 = r2  n1 = n1  n2 = n2  null = null
    Requests = {r1, r2}
    Bodies <- MCManyBodies
    Names <- MCNames
    GaugeValues <- MCGauges
    Deltas <- MCDeltas
    HalfRange = 2
    Absent = Absent
    MaxConns = 2
    MaxStarts = 2
    MaxCrashes = 1
    MaxFaults = 1
INVARIANTS TypeOK AnswersTellTheEffect JournalTellsTheTables
PROPERTIES BatchesAreAtomic MetricsStay RequestsEnd StopEnds
CHECK_DEADLOCK FALSE
