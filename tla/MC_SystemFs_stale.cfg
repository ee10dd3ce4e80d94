\* A File opened on /system/threads/<tid> stays open while another open of
\* /system/threads kfrees the node it points at; the next read of the File
\* reads the freed node's name.
SPECIFICATION Spec
CONSTANTS
    n1 = n1
    n2 = n2
    f1 = f1
    f2 = f2
    td = td
    tp = tp
    Null = Null
    Threads = {1, 2}
    Nodes = {n1, n2}
    Files = {f1, f2}
    ThreadsDir = td
    MemInfo = {tp}
    Sizes = {3, 4, 128}
SYMMETRY FileSym
INVARIANT NoStaleRead
