SPECIFICATION FairMemSpec
CONSTANTS
    c1 = c1  c2 = c2    r1 = r1  n1 = n1  n2 = n2  n3 = n3  n4 = n4
    Callers = {c1, c2}
    Readers = {}
    Names <- MCNames
    GaugeValues <- MCValues
    Deltas <- MCDeltas
    HalfRange = 2
    Absent = Absent
    NoName = NoName
    NoOne = NoOne
    MaxCalls = 3
    MaxReads = 0
INVARIANTS NamesUnique
PROPERTIES CallsAreAtomic CallsReturn
CHECK_DEADLOCK FALSE
