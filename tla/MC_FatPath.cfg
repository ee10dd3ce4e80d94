\* mount and checkMount of a FAT and a non-FAT device on one slot, then
\* finddir, readdir and stat on the mounted volume 0, whose entries are named so that
\* assembled paths are 126 characters (succeed) and 127 (fail).
SPECIFICATION Spec
CONSTANTS
    m0 = m0
    m1 = m1
    m2 = m2
    m3 = m3
    m4 = m4
    Null = Null
    d1 = d1
    d2 = d2
    t1 = t1
    nd = nd
    Nodes = {m0, m1, m2, m3, m4}
    Devices = {d1, d2}
    FatImages = {d1}
    Targets = {t1}
    NotDir = nd
    BufSize = 128
    NVolumes = 1
    Indexes = {0, 1}
    Names <- MCNames
    Tree <- MCTree
SYMMETRY NodeSym
INVARIANT TypeOK
INVARIANT AssemblyCorrect
INVARIANT NodeTreeMirrorsFat
INVARIANT MountBinding
PROPERTY MountOutcome
