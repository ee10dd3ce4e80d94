\* Every list.c call on one list, checked against the sequence it stands for.
SPECIFICATION Spec
CONSTANTS
    m1 = m1
    m2 = m2
    m3 = m3
    d1 = d1
    d2 = d2
    Null = Null
    None = None
    Nodes = {m1, m2, m3}
    Data = {d1, d2}
INVARIANT TypeOK
INVARIANT WellFormed
PROPERTY RefinesListSpec
