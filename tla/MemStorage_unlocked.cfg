SPECIFICATION MemSpec
CONSTANTS
    c1 = c1  c2 = c2    r1 = r1  n1 = n1  n2 = n2  n3 = n3  n4 = n4
    Callers = {c1, c2}
    Readers = {r1}
    Names <- MCNames
    GaugeValues = {}
    Deltas <- MCOneValue
    HalfRange = 2
    Absent = Absent
    NoName = NoName
    NoOne = NoOne
    MaxCalls = 3
    MaxReads = 1
INVARIANTS ThreadSafeReads
SYMMETRY MCSymmetry
CHECK_DEADLOCK FALSE
