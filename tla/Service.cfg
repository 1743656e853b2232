SPECIFICATION Spec
CONSTANTS
    c1 = c1
    c2 = c2
    c3 = c3
    a = a
    b = b
    c = c
    v1 = v1
    v2 = v2
    big = big
    w1 = w1
    w2 = w2
    NoJob = NoJob
    Client = {c1, c2, c3}
    Worker = {w1, w2}
    Key = {a, b, c}
    Value = {v1, v2, big}
    Oversize = {big}
    Scenarios <- MCScenarios
    MaxConnections = 2
    MaxPending = 1
    MaxEntries = 2
SYMMETRY MCSymmetry
INVARIANTS
    CountersExact
    StatsHold
    GetsAreCurrent
