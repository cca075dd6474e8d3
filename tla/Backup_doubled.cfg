SPECIFICATION Spec
CONSTANTS
    c1 = c1  c2 = c2  n1 = n1  NaN = NaN
    Clients = {c1}
    SyncMode = FALSE
    Restore = TRUE
    Routes <- MCJson
    Names <- MCOneName
    GaugeValues <- MCOneGauge
    Deltas <- MCOneDelta
    Unencodable = {}
    HalfRange = 8
    Absent = Absent
    Earlier <- MCEarlier
    periodic = periodic  final = final  main = main
    FileIds <- MCFileIds
    NoFile = NoFile  Unnamed = Unnamed
    Budgets <- MCQuietShutdown
INVARIANTS ShutdownBackupIsExact
VIEW MCView
SYMMETRY MCFinals
CHECK_DEADLOCK FALSE
