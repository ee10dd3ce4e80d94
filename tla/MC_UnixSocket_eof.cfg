\* Peer closes while bytes are still in the FIFO: recv reports EOF.
CONSTANTS
    t1 = t1  t2 = t2  t3 = t3  s1 = s1  s2 = s2  s3 = s3  s4 = s4  n1 = n1
    Threads = {t1, t2}
    Sockets = {s1, s2, s3}
    InitHolder <- HolderOwn
    Names = {n1}
    NoName = NoName
    Formatted <- PlainNames
    Null = Null
    Capacity = 1
    Lens = {0, 2}
    MaxBytes = 1
    MaxConnects = 1
SPECIFICATION Spec
PROPERTY EofOnlyWhenDrained
\* Every thread may end blocked forever (recv on a never-connected socket,
\* both ends sending into full FIFOs), so terminal states are real.
CHECK_DEADLOCK FALSE
