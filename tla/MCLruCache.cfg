SPECIFICATION Spec
CONSTANTS
    Key = {k1, k2, k3, k4}
    Value = {small, big, unfit, oversize}
    Node = {n1, n2, n3, n4}
    k1 = k1  k2 = k2  k3 = k3  k4 = k4
    small = small  big = big  unfit = unfit  oversize = oversize
    KeySize <- MCKeySize
    ValueSize <- MCValueSize
    MaxEntries = 3
    MaxBytes = 530
    MaxValueBytes = 420
    EvictionBound = 4
    Null = Null
SYMMETRY NodeSymmetry
INVARIANTS IndexListAgree AccountingExact WithinLimits
PROPERTY ImplementsExactLru
