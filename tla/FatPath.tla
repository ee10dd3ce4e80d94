------------------------------ MODULE FatPath ------------------------------
(***************************************************************************)
(* Mounting, path assembly and node creation of the FAT provider          *)
(* (src/kernel/fatfilesystem.c).  A node below the                        *)
(* overlay root of a mount is turned into a FAT path by writing its name   *)
(* and its ancestors' names backwards into a 128-byte stack buffer from    *)
(* index 126, then the volume number and ':'.  The buffer is modelled byte *)
(* by byte because what is checked is the string it ends up holding and   *)
(* where the writes land.                                                  *)
(*                                                                         *)
(* mount binds a block device to a free slot of the volume table and      *)
(* creates the overlay root; the FAT library's volume mount reads the     *)
(* device back through disk_read on that slot.  A FAT-formatted device    *)
(* holds a constant tree of paths; f_stat and f_opendir answer from it.   *)
(* Each provider call runs to completion, so it is one action.            *)
(***************************************************************************)
EXTENDS Naturals, Integers, Sequences, FiniteSets, SequencesExt

CONSTANTS
    BufSize,    \* sizeof target_path (128)
    NVolumes,   \* FF_VOLUMES, the size of g_mounted_block_devices
    Names,      \* file names, each a sequence of one-character strings
    Tree,       \* entries of a FAT-formatted device: paths, prefix-closed
    Nodes,      \* filesystem_node structs kmalloc can return
    Devices,    \* block-device nodes of the VFS
    FatImages,  \* the devices that hold a FAT volume
    Targets,    \* VFS directories a mount can name as its target
    NotDir,     \* a VFS node that is neither a block device nor a directory
    Indexes,    \* readdir indexes tried
    Null

ASSUME FatImages \subseteq Devices /\ Null \notin Nodes \cup Devices \cup Targets

NUL == "NUL"    \* the byte 0

Volumes == 0..NVolumes - 1

VARIABLES
    alloc,      \* nodes kmalloc'd by mount and finddir and not kfree'd
    pname,      \* node->name
    parent,     \* node->parent
    ntype,      \* node->node_type of created nodes
    children,   \* node->first_child and next_sibling, in list order
    msource,    \* node->mount_source: the device of an overlay root, else Null
    vol,        \* node->private_node_data of an overlay root: its volume
    slot,       \* g_mounted_block_devices
    mpoint,     \* target->mount_point, Null unless FT_MOUNT_POINT is set
    fatfs,      \* volumes whose kmalloc'd FATFS work area is live
    result,     \* what the last call returned: a node, a dirent, [status],
                \* [ok] (a BOOL) or Null
    asm,        \* auxiliary: the last path assembly, [ok, path, vol, segs]
    oob         \* auxiliary: some write fell outside target_path

vars == <<alloc, pname, parent, ntype, children, msource, vol, slot, mpoint, fatfs,
          result, asm, oob>>

nodeVars == <<alloc, pname, parent, ntype, children, msource, vol>>
mountVars == <<slot, mpoint, fatfs>>

-----------------------------------------------------------------------------
(* The FAT path a node stands for: "<volume>:" then its names from the    *)
(* overlay root of its mount down, separated by '/' (spec 4.3).            *)

\* sprintf(number, 8, "%d", v) for v >= 0
RECURSIVE Decimal(_)
Decimal(v) ==
    IF v < 10 THEN <<ToString(v)>> ELSE Decimal(v \div 10) \o <<ToString(v % 10)>>

RECURSIVE JoinSlash(_)
JoinSlash(segs) ==
    IF segs = <<>> THEN <<>>
    ELSE IF Len(segs) = 1 THEN Head(segs)
    ELSE Head(segs) \o <<"/">> \o JoinSlash(Tail(segs))

\* The path as the code writes it: no '/' after the ':'.
FatPathOf(v, segs) == Decimal(v) \o <<":">> \o JoinSlash(segs)

\* The names from the overlay root down to n.
RECURSIVE NamesTo(_)
NamesTo(n) == IF n = Null \/ msource[n] # Null THEN <<>> ELSE NamesTo(parent[n]) \o <<pname[n]>>

\* Nothing is mounted (fatfs_initialize clears the volume table).
Init ==
    /\ alloc = {}
    /\ pname = [n \in Nodes |-> <<>>]
    /\ parent = [n \in Nodes |-> Null]
    /\ ntype = [n \in Nodes |-> "dir"]
    /\ children = [n \in Nodes |-> <<>>]
    /\ msource = [n \in Nodes |-> Null]
    /\ vol = [n \in Nodes |-> 0]
    /\ slot = [v \in Volumes |-> Null]
    /\ mpoint = [t \in Targets \cup Nodes |-> Null]
    /\ fatfs = {}
    /\ result = Null
    /\ asm = [ok |-> TRUE, path |-> FatPathOf(0, <<>>), vol |-> 0, segs |-> <<>>]
    /\ oob = FALSE

-----------------------------------------------------------------------------
(* The code's assembly.  st is [buf, ci, ok, oob, vol]: the buffer as a    *)
(* function of 0..BufSize-1, char_index, whether it has not given up,      *)
(* whether a write fell outside the buffer, and the private_node_data of   *)
(* the overlay root the walk stopped at.                                   *)

\* target_path[at .. at+Len(s)-1] = s (strcpy_nonnull copies no NUL)
PutStr(st, at, s) ==
    [st EXCEPT !.buf = [i \in (at..at + Len(s) - 1) \cap DOMAIN st.buf |-> s[i - at + 1]]
                       @@ st.buf,
               !.oob = st.oob \/ at < 0 \/ at + Len(s) > BufSize]

\* The string starting at index i: up to the first NUL.
CStr(buf, i) ==
    LET nul == {k \in i..BufSize - 1 : buf[k] = NUL}
        end == IF nul = {} THEN BufSize ELSE Min(nul)
    IN [k \in 1..end - i |-> buf[i + k - 1]]

\* while (NULL == n->mount_source) { char_index -= strlen(n->name);
\*   if (char_index < 2) return NULL; strcpy_nonnull(...);
\*   char_index -= 1; target_path[char_index] = '/'; n = n->parent; }
RECURSIVE WalkUp(_, _)
WalkUp(st, n) ==
    IF msource[n] # Null THEN [st EXCEPT !.vol = vol[n]]
    ELSE LET ci == st.ci - Len(pname[n]) IN
         IF ci < 2 THEN [st EXCEPT !.ok = FALSE]
         ELSE WalkUp([PutStr(PutStr(st, ci, pname[n]), ci - 1, <<"/">>)
                         EXCEPT !.ci = ci - 1],
                     parent[n])

\* Mutant: ':' is written before the last '/' instead of over it.
FinishColonBefore(st) ==
    IF ~st.ok THEN st
    ELSE LET number == Decimal(st.vol)
             c1 == PutStr(st, st.ci - 1, <<":">>)
             ci == st.ci - 1 - Len(number)
         IN IF ci < 0 THEN [c1 EXCEPT !.ok = FALSE]
            ELSE [PutStr(c1, ci, number) EXCEPT !.ci = ci]

\* target_path[char_index] = ':'; char_index -= strlen(number);
\* if (char_index < 0) return NULL; strcpy_nonnull(target_path + char_index, number);
Finish(st) ==
    IF ~st.ok THEN st
    ELSE LET number == Decimal(st.vol)
             c1 == PutStr(st, st.ci, <<":">>)
             ci == st.ci - Len(number)
         IN IF ci < 0 THEN [c1 EXCEPT !.ok = FALSE]
            ELSE [PutStr(c1, ci, number) EXCEPT !.ci = ci]

\* memset(target_path, 0, 128); char_index = 126
Fresh == [buf |-> [i \in 0..BufSize - 1 |-> NUL], ci |-> BufSize - 2,
          ok |-> TRUE, oob |-> FALSE, vol |-> 0]

\* readdir, stat and open (three copies of the same code): the path of
\* node itself.
NodeAsm(node) == Finish(WalkUp(Fresh, node))

\* Mutant: the name segment is checked like the ancestors' segments.
FinddirStartChecked(name) ==
    LET ci == BufSize - 2 - Len(name) IN
    IF ci < 2 THEN [Fresh EXCEPT !.ok = FALSE]
    ELSE [PutStr(PutStr(Fresh, ci, name), ci - 1, <<"/">>) EXCEPT !.ci = ci - 1]

\* finddir: the looked-up name is written first, with no check of
\* char_index, then a '/'.
FinddirStart(name) ==
    LET ci == BufSize - 2 - Len(name) IN
    [PutStr(PutStr(Fresh, ci, name), ci - 1, <<"/">>) EXCEPT !.ci = ci - 1]

FinddirAsm(node, name) == Finish(WalkUp(FinddirStart(name), node))

\* The path handed to the FAT library: target_path + char_index.
Target(st) == CStr(st.buf, st.ci)

-----------------------------------------------------------------------------
(* The FAT library's side.  f_stat and f_opendir take "<vol>:" followed by *)
(* the names from the volume root, with or without a leading '/' (FatFs    *)
(* starts from the root directory either way, as nothing calls f_chdir).   *)

Denotes(s, v, segs) ==
    \/ s = FatPathOf(v, segs)
    \/ s = Decimal(v) \o <<":", "/">> \o JoinSlash(segs)

\* Directories of the volume, its root (the empty path) included.
Ancestors(q) == {SubSeq(q, 1, k) : k \in 0..Len(q) - 1}

Dirs == UNION {Ancestors(q) : q \in Tree} \cup {<<>>}

\* A volume the library can answer for: its slot holds a FAT device (the
\* library reaches the device through disk_read on that slot).
Readable(v) == slot[v] \in FatImages

\* f_stat(s): the entry s names, if any (the root has no entry).
StatEntry(s) == {q \in Tree : \E v \in Volumes : Readable(v) /\ Denotes(s, v, q)}

\* f_opendir(s): the directory s names, if any.
OpenDir(s) == {q \in Dirs : \E v \in Volumes : Readable(v) /\ Denotes(s, v, q)}

\* f_readdir order of a directory's entries (FatFs returns them in the
\* order of the directory table, a fixed order of the volume).
Listing(d) == SetToSeq({q \in Tree : Len(q) = Len(d) + 1 /\ SubSeq(q, 1, Len(d)) = d})

\* Mutant: the dirent gets the entry's whole path instead of fname.
DirentFullPath(q) == [name |-> JoinSlash(q), file_type |-> IF q \in Dirs THEN "dir" ELSE "file"]

\* g_fs_dirent filled from FILINFO: fname, and the type from AM_DIR.
Dirent(q) == [name |-> Last(q), file_type |-> IF q \in Dirs THEN "dir" ELSE "file"]

\* The record of an assembly: whether it succeeded, what it produced, and
\* the names of the entry it was for.
Record(st, segs) == [ok |-> st.ok, path |-> IF st.ok THEN Target(st) ELSE <<>>,
                     vol |-> st.vol, segs |-> segs]

-----------------------------------------------------------------------------
\* Mutant: finddir goes to the volume without scanning the children.
KnownNever(node, name) == 0

\* The scan of node->first_child / next_sibling with strcmp: the position
\* of the first child called name, or 0.
Known(node, name) == SelectInSeq(children[node], LAMBDA c : pname[c] = name)

(* finddir(node, name)                                                     *)
Finddir(node, name) ==
    /\ node \in alloc
    /\ LET known == Known(node, name) IN
       IF known # 0
       THEN /\ result' = children[node][known]
            /\ UNCHANGED <<nodeVars, mountVars, asm, oob>>
       ELSE LET st == FinddirAsm(node, name)
                e  == IF st.ok THEN StatEntry(Target(st)) ELSE {}
            IN /\ asm' = Record(st, NamesTo(node) \o <<name>>)
               /\ oob' = (oob \/ st.oob)
               /\ IF e = {}
                  THEN result' = Null /\ UNCHANGED nodeVars
                  ELSE \E new \in Nodes \ alloc :
                          /\ alloc' = alloc \cup {new}
                          /\ pname' = [pname EXCEPT ![new] = name]
                          /\ parent' = [parent EXCEPT ![new] = node]
                          /\ ntype' = [ntype EXCEPT ![new] =
                                         IF \E q \in e : q \in Dirs THEN "dir" ELSE "file"]
                          /\ children' = [children EXCEPT ![node] = Append(@, new),
                                                          ![new] = <<>>]
                          /\ msource' = [msource EXCEPT ![new] = Null]
                          /\ vol' = [vol EXCEPT ![new] = 0]
                          /\ result' = new
               /\ UNCHANGED mountVars

(* readdir(node, index): the index-th entry of the directory, a copy of    *)
(* the static g_fs_dirent, or NULL                                         *)
Readdir(node, index) ==
    /\ node \in alloc
    /\ LET st == NodeAsm(node)
           d  == IF st.ok THEN OpenDir(Target(st)) ELSE {}
       IN /\ asm' = Record(st, NamesTo(node))
          /\ oob' = (oob \/ st.oob)
          /\ result' = IF d = {} THEN Null
                       ELSE LET ls == Listing(CHOOSE q \in d : TRUE) IN
                            IF index < Len(ls)
                            THEN Dirent(ls[index + 1])
                            ELSE Null
    /\ UNCHANGED <<nodeVars, mountVars>>

(* stat(node, buf): 1 and node_type and length refreshed from f_stat, -1  *)
(* when f_stat fails, NULL (0) when the path does not fit                  *)
Stat(node) ==
    /\ node \in alloc
    /\ LET st == NodeAsm(node)
           e  == IF st.ok THEN StatEntry(Target(st)) ELSE {}
       IN /\ asm' = Record(st, NamesTo(node))
          /\ oob' = (oob \/ st.oob)
          /\ result' = [status |-> IF ~st.ok THEN 0 ELSE IF e = {} THEN -1 ELSE 1]
          /\ ntype' = IF e = {} THEN ntype
                      ELSE [ntype EXCEPT ![node] =
                              IF \E q \in e : q \in Dirs THEN "dir" ELSE "file"]
    /\ UNCHANGED <<alloc, pname, parent, children, msource, vol, mountVars>>

-----------------------------------------------------------------------------
(* mount and checkMount.  fs_get_node resolves a path through mount points *)
(* to the overlay root on top (spec 8, invariant 1); a path that names     *)
(* nothing resolves to Null.  Sources and targets outside the pool are     *)
(* VFS nodes: block devices, plain directories and NotDir.                 *)

RECURSIVE Resolve(_)
Resolve(n) == IF n \in DOMAIN mpoint /\ mpoint[n] # Null THEN Resolve(mpoint[n]) ELSE n

\* node_type == FT_DIRECTORY: a directory without FT_MOUNT_POINT.
PlainDir(n) ==
    /\ n \in Targets \cup alloc
    /\ n \in Nodes => ntype[n] = "dir"
    /\ mpoint[n] = Null

\* The checks mount and checkMount share: the source is a block device and
\* the target a plain directory.
MountArgsOk(src, tgt) == src \in Devices /\ tgt # Null /\ PlainDir(tgt)

(* checkMount(source_path, target_path)                                    *)
CheckMount(src, path) ==
    /\ result' = [ok |-> MountArgsOk(src, Resolve(path))]
    /\ UNCHANGED <<nodeVars, mountVars, asm, oob>>

\* for (v = 0; v < FF_VOLUMES; ++v) if (NULL == slot[v]) { volume = v; break; }
FirstFree(s) ==
    LET free == {v \in Volumes : s[v] = Null} IN IF free = {} THEN -1 ELSE Min(free)

\* Mutant: the slot is filled only once f_mount has returned.
ReserveLate(s, v, src) == s

\* g_mounted_block_devices[volume] = node, before f_mount
Reserve(s, v, src) == [s EXCEPT ![v] = src]

\* disk_read(pdrv, ...): RES_NOTRDY for an empty slot, else read_block on
\* the slot's device and RES_OK.
DiskRead(s, v) == IF s[v] = Null THEN "NOTRDY" ELSE "OK"

\* f_mount(fatFs, "<v>:", 1) mounts at once: it reads the volume through
\* disk_read(v) and succeeds when the read gets through to a FAT volume.
FMount(s, v) == DiskRead(s, v) = "OK" /\ s[v] \in FatImages

\* Mutant: the failure branch leaves the slot reserved.
ReleaseKept(s, v) == s

\* failure branch: g_mounted_block_devices[volume] = NULL
Release(s, v) == [s EXCEPT ![v] = Null]

(* mount(source_path, target_path): the early returns give FALSE with      *)
(* nothing changed.  Otherwise the overlay root is kmalloc'd, memset and   *)
(* filled, the slot reserved and the FATFS kmalloc'd before f_mount; on    *)
(* failure the root and the FATFS are kfree'd (the struct keeps its        *)
(* fields) and the slot cleared, on success the target becomes a mount     *)
(* point.                                                                  *)
Mount(src, path) ==
    LET tgt == Resolve(path)
        v   == FirstFree(slot)
    IN \/ /\ ~(MountArgsOk(src, tgt) /\ v >= 0)
          /\ result' = [ok |-> FALSE]
          /\ UNCHANGED <<nodeVars, mountVars, asm, oob>>
       \/ /\ MountArgsOk(src, tgt) /\ v >= 0
          /\ \E new \in Nodes \ alloc :
               LET during == Reserve(slot, v, src)
                   ok     == FMount(during, v)
               IN /\ pname' = [pname EXCEPT ![new] = IF tgt \in Nodes THEN pname[tgt] ELSE <<>>]
                  /\ parent' = [parent EXCEPT ![new] = IF tgt \in Nodes THEN parent[tgt] ELSE Null]
                  /\ ntype' = [ntype EXCEPT ![new] = "dir"]
                  /\ children' = [children EXCEPT ![new] = <<>>]
                  /\ msource' = [msource EXCEPT ![new] = src]
                  /\ vol' = [vol EXCEPT ![new] = v]
                  /\ alloc' = IF ok THEN alloc \cup {new} ELSE alloc
                  /\ fatfs' = IF ok THEN fatfs \cup {v} ELSE fatfs
                  /\ slot' = IF ok THEN during ELSE Release(during, v)
                  /\ mpoint' = IF ok THEN [mpoint EXCEPT ![tgt] = new] ELSE mpoint
                  /\ result' = [ok |-> ok]
          /\ UNCHANGED <<asm, oob>>

Next ==
    \/ \E n \in Nodes, name \in Names : Finddir(n, name)
    \/ \E n \in Nodes, i \in Indexes : Readdir(n, i)
    \/ \E n \in Nodes : Stat(n)
    \/ \E src \in Devices \cup {NotDir}, p \in Targets \cup {NotDir, Null} :
          Mount(src, p) \/ CheckMount(src, p)

Spec == Init /\ [][Next]_vars

-----------------------------------------------------------------------------
TypeOK ==
    /\ alloc \subseteq Nodes
    /\ pname \in [Nodes -> Names \cup {<<>>}]
    /\ parent \in [Nodes -> Nodes \cup {Null}]
    /\ ntype \in [Nodes -> {"dir", "file"}]
    /\ \A n \in Nodes : children[n] \in Seq(alloc)
    /\ msource \in [Nodes -> Devices \cup {Null}] /\ vol \in [Nodes -> Volumes]
    /\ slot \in [Volumes -> Devices \cup {Null}] /\ fatfs \subseteq Volumes
    /\ mpoint \in [Targets \cup Nodes -> Nodes \cup {Null}]
    /\ result \in alloc \cup {Null} \cup [ok : BOOLEAN] \cup [status : {-1, 0, 1}]
                 \cup [name : Names, file_type : {"dir", "file"}]
    /\ asm.ok \in BOOLEAN /\ oob \in BOOLEAN

\* Every path the FAT provider assembles names, for the FAT library, the
\* entry the node (and name) stands for, and assembly gives up exactly
\* when that path is longer than the buffer allows: a 126-character path
\* succeeds and a 127-character one fails (spec 4.3 and its test list).
AssemblyCorrect ==
    /\ asm.ok => Denotes(asm.path, asm.vol, asm.segs)
    /\ asm.ok = (Len(FatPathOf(asm.vol, asm.segs)) <= BufSize - 2)

\* The nodes finddir creates mirror the volume: each stands for an entry
\* that exists, has that entry's type, is linked into its parent's child
\* list, and no directory node has two children of the same name (the
\* in-memory scan comes before the volume is asked).
NodeTreeMirrorsFat ==
    /\ \A n \in alloc : msource[n] = Null =>
          /\ NamesTo(n) \in Tree
          /\ (ntype[n] = "dir") = (NamesTo(n) \in Dirs)
          /\ n \in Range(children[parent[n]])
    /\ \A n \in alloc : \A i, j \in DOMAIN children[n] :
          i # j => pname[children[n][i]] # pname[children[n][j]]

\* The volume table and the mounts agree, whatever mounts failed before:
\* every mount point's overlay root is allocated and its volume slot holds
\* its source device, every reserved slot belongs to a mounted root, no
\* overlay root outlives a failed mount, and a FATFS work area is live
\* exactly for the occupied slots (spec 4.3: mount failure frees the new
\* node, the FAT context and the volume slot).
MountBinding ==
    /\ \A t \in DOMAIN mpoint : mpoint[t] # Null =>
          LET r == mpoint[t] IN r \in alloc /\ msource[r] # Null /\ slot[vol[r]] = msource[r]
    /\ \A v \in Volumes : slot[v] # Null =>
          \E t \in DOMAIN mpoint : mpoint[t] # Null /\ vol[mpoint[t]] = v
    /\ \A n \in alloc : msource[n] # Null => n \in Range(mpoint)
    /\ fatfs = {v \in Volumes : slot[v] # Null}

\* mount of a FAT-formatted block device on a directory succeeds whenever
\* a volume slot is free, and fails otherwise: a bad source or target, a
\* device without a FAT volume, or a full table (spec 4.3 and 8).  This is
\* about the order in mount: the slot must be reserved before f_mount
\* reads the device back through disk_read.
MountOutcome ==
    [][\A src \in Devices \cup {NotDir}, p \in Targets \cup {NotDir, Null} :
         Mount(src, p) =>
            (result'.ok = /\ src \in FatImages
                          /\ Resolve(p) \in Targets \cup alloc
                          /\ Resolve(p) \in Nodes => ntype[Resolve(p)] = "dir"
                          /\ \E v \in Volumes : slot[v] = Null)]_vars

\* No byte is written outside target_path[0..127] by readdir or finddir.
NoOutOfBoundsWrite == ~oob

=============================================================================
