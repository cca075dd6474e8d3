SPECIFICATION Spec
CONSTANTS
    Unset = Unset
    Settings <- MCSettings
    Fitting = {"counter"}
    MaxReports = 2
    MaxRotations = 1
INVARIANTS SuccessIsDelivery
CHECK_DEADLOCK FALSE
