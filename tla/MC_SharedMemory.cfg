\* Shared-memory lifecycle: creation, ftruncate, mmap (succeeding or failing),
\* unlink, munmap and process teardown by two processes.
SPECIFICATION Spec
CONSTANTS
    p1 = p1
    p2 = p2
    o1 = o1
    o2 = o2
    n1 = n1
    NoAddr = 0
    Procs = {p1, p2}
    Objects = {o1, o2}
    Names = {n1}
    Frames = {1, 2, 3}
    PageSize = 2
    Lengths <- MCLengths
    Addrs = {1, 2}
    MaxMaps = 2
SYMMETRY ProcSym
INVARIANT TypeOK
INVARIANT UnlinkedReclaimed
INVARIANT MappedFramesHeld
INVARIANT MapCountMatches
\* Once both structs are used and destroyed nothing more can be created.
CHECK_DEADLOCK FALSE
