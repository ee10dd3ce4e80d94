\* s2 is held by both threads: one thread's connect is still spinning
\* when the other connects the same socket, and it is queued twice.
CONSTANTS
    t1 = t1  t2 = t2  t3 = t3  s1 = s1  s2 = s2  s3 = s3  s4 = s4  n1 = n1
    Threads = {t1, t2, t3}
    Sockets = {s1, s2, s3, s4}
    InitHolder <- HolderShared
    Names = {n1}
    NoName = NoName
    Formatted <- PlainNames
    Null = Null
    Capacity = 1
    Lens = {0, 2}
    MaxBytes = 1
    MaxConnects = 2
SPECIFICATION Spec
INVARIANT PairedSymmetric
\* Every thread may end blocked forever (recv on a never-connected socket,
\* both ends sending into full FIFOs), so terminal states are real.
CHECK_DEADLOCK FALSE
