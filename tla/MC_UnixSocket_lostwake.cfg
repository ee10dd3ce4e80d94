\* Two threads share socket s2.  One sleeps in recv; the other makes a call
\* on s2 and becomes its last_thread, so the wake-up for the sleeper (data or
\* disconnect) goes to the wrong thread.
CONSTANTS
    t1 = t1  t2 = t2  t3 = t3  s1 = s1  s2 = s2  s3 = s3  s4 = s4  n1 = n1
    Threads = {t1, t2, t3}
    Sockets = {s1, s2, s3, s4}
    InitHolder <- HolderShared
    Names = {n1}
    NoName = NoName
    Formatted <- PlainNames
    Null = Null
    Capacity = 1
    Lens = {0, 2}
    MaxBytes = 1
    MaxConnects = 2
SPECIFICATION Spec
INVARIANT NoLostWakeup
\* Every thread may end blocked forever (recv on a never-connected socket,
\* both ends sending into full FIFOs), so terminal states are real.
CHECK_DEADLOCK FALSE
