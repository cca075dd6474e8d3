SPECIFICATION Spec
CONSTANTS
    Unset = Unset
    Settings <- MCSettings
    Fitting = {"counter"}
    MaxReports = 3
    MaxRotations = 2
INVARIANTS TypeOK AgreeingSidesDeliver SeenMismatchRejects
CHECK_DEADLOCK FALSE
