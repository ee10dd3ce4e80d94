\* A failed vmm_map_memory in sharedmemory_mmap still appends a MapInfo
\* with v_address 0 to the object.
SPECIFICATION Spec
CONSTANTS
    p1 = p1
    p2 = p2
    o1 = o1
    o2 = o2
    n1 = n1
    NoAddr = 0
    Procs = {p1, p2}
    Objects = {o1, o2}
    Names = {n1}
    Frames = {1, 2, 3}
    PageSize = 2
    Lengths <- MCLengths
    Addrs = {1, 2}
    MaxMaps = 2
SYMMETRY ProcSym
INVARIANT NoFailedMapRecord
\* Once both structs are used and destroyed nothing more can be created.
CHECK_DEADLOCK FALSE
