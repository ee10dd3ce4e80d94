\* Unlink while another File is open: sharedmemory_unlink destroys the
\* object and the File keeps a pointer to the freed node.
SPECIFICATION Spec
CONSTANTS
    p1 = p1
    p2 = p2
    o1 = o1
    o2 = o2
    n1 = n1
    NoAddr = 0
    Procs = {p1, p2}
    Objects = {o1, o2}
    Names = {n1}
    Frames = {1, 2, 3}
    PageSize = 2
    Lengths <- MCLengths
    Addrs = {1, 2}
    MaxMaps = 2
SYMMETRY ProcSym
INVARIANT NoDanglingHandle
\* Once both structs are used and destroyed nothing more can be created.
CHECK_DEADLOCK FALSE
