SPECIFICATION Spec
CONSTANTS
    c1 = c1  c2 = c2  n1 = n1  NaN = NaN
    Clients = {c1}
    SyncMode = FALSE
    Restore = TRUE
    Routes <- MCAll
    Names <- MCOneName
    GaugeValues <- MCWithNaN
    Deltas <- MCOneDelta
    Unencodable = {NaN}
    HalfRange = 3
    Absent = Absent
    Earlier <- MCEarlier
    periodic = periodic  final = final  main = main
    FileIds <- MCFileIds
    NoFile = NoFile  Unnamed = Unnamed
    Budgets <- MCShutdownOrRotation
INVARIANTS TypeOK FilesHoldPastValues CleanExitKeepsEverything
PROPERTIES KeepsAGoodCopy
VIEW MCAsyncView
SYMMETRY MCFinals
CHECK_DEADLOCK FALSE
