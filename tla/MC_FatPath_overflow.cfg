\* finddir is given a name of 126 characters, which it writes into
\* target_path at index 0 with no check of char_index; the '/' after it
\* lands at target_path[-1].
SPECIFICATION Spec
CONSTANTS
    m0 = m0
    m1 = m1
    m2 = m2
    m3 = m3
    m4 = m4
    Null = Null
    d1 = d1
    d2 = d2
    t1 = t1
    nd = nd
    Nodes = {m0, m1, m2, m3, m4}
    Devices = {d1, d2}
    FatImages = {d1}
    Targets = {t1}
    NotDir = nd
    BufSize = 128
    NVolumes = 1
    Indexes = {0, 1}
    Names <- MCNamesLong
    Tree <- MCTree
SYMMETRY NodeSym
INVARIANT NoOutOfBoundsWrite
