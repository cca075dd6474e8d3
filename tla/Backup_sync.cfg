SPECIFICATION Spec
CONSTANTS
    c1 = c1  c2 = c2  n1 = n1  NaN = NaN
    Clients = {c1, c2}
    SyncMode = TRUE
    Restore = TRUE
    Routes <- MCJson
    Names <- MCOneName
    GaugeValues = {}
    Deltas <- MCDeltas
    Unencodable = {}
    HalfRange = 3
    Absent = Absent
    Earlier <- MCOneCounter
    periodic = periodic  final = final  main = main
    FileIds <- MCFileIds
    NoFile = NoFile  Unnamed = Unnamed
    Budgets <- MCSync
INVARIANTS SyncCountersExact
VIEW MCView
SYMMETRY MCSymmetry
CHECK_DEADLOCK FALSE
