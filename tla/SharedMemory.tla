---------------------------- MODULE SharedMemory ----------------------------
(***************************************************************************)
(* The shared-memory provider of src/kernel/sharedmemory.c: named objects  *)
(* under /system/shm owning physical page frames, their mmap records and   *)
(* the reference-counted unlink.  The provider never suspends and runs     *)
(* with interrupts off, so every function is one atomic step.              *)
(*                                                                         *)
(* Each object is a fresh SharedMemory struct (kmalloc); a File handle     *)
(* holds a pointer to the object's node, modelled as <<process, object>>.  *)
(* The vmm is reduced to what the provider sees of it: a pool of free      *)
(* frames and an mmap that returns an address or 0 on failure.             *)
(***************************************************************************)
EXTENDS Naturals, Sequences, FiniteSets, SequencesExt

CONSTANTS
    Procs,      \* processes
    Objects,    \* every SharedMemory struct that may ever be allocated
    Names,      \* object names
    Frames,     \* physical page frames, a set of numbers
    PageSize,   \* bytes per page (abstracted: the arithmetic is the same)
    Lengths,    \* lengths passed to ftruncate
    Addrs,      \* mmap-region addresses, numbered up from USER_MMAP_START
    NoAddr,     \* 0, the failed vmm_map_memory result
    MaxMaps     \* bound: mmap records one object may hold

ASSUME /\ Frames \subseteq Nat /\ PageSize \in Nat \ {0}
       /\ Lengths \subseteq Int /\ Addrs \subseteq Nat /\ NoAddr = 0
       /\ NoAddr \notin Addrs

VARIABLES
    shmList,    \* g_shm_list, in list order
    everAlloc,  \* objects ever allocated (kmalloc'd)
    objName,    \* node->name
    length,     \* node->length
    pages,      \* physical_address_list
    maps,       \* mmapped_list: records [proc, addr, count]
    marked,     \* marked_unlink
    freeFrames, \* frames the vmm holds free
    handles,    \* open Files: <<process, object>>
    vm          \* process page tables: [proc, addr, frames] per successful map

vars == <<shmList, everAlloc, objName, length, pages, maps, marked,
          freeFrames, handles, vm>>

MapInfo == [proc : Procs, addr : Addrs \cup {NoAddr}, count : Nat]

Live == ToSet(shmList)

-----------------------------------------------------------------------------
Init ==
    /\ shmList = <<>>
    /\ everAlloc = {}
    /\ objName = [o \in Objects |-> CHOOSE n \in Names : TRUE]
    /\ length = [o \in Objects |-> 0]
    /\ pages = [o \in Objects |-> <<>>]
    /\ maps = [o \in Objects |-> <<>>]
    /\ marked = [o \in Objects |-> FALSE]
    /\ freeFrames = Frames
    /\ handles = {}
    /\ vm = {}

-----------------------------------------------------------------------------
\* sharedmemory_find / sharedmemory_get_node / sharedmemorydir_finddir:
\* the first object of the list with that name, as a set of zero or one.
FindByName(n) ==
    LET idx == SelectInSeq(shmList, LAMBDA o : objName[o] = n) IN
    IF idx = 0 THEN {} ELSE {shmList[idx]}

\* PAGE_COUNT(length): pages needed for length bytes (spec 4.5: ceil).
PageCount(l) == (l + PageSize - 1) \div PageSize

\* Mutant: the mapping count is not consulted.
SuitableIgnoringMaps(mk, ms) == mk

\* The test of sharedmemory_destroy_if_suitable: marked_unlink and an empty
\* mmapped_list (mk and ms are the object's fields after the caller's update).
Suitable(mk, ms) == mk /\ ms = <<>>

\* sharedmemory_destroy_if_suitable for the objects G found suitable:
\* vmm_release_page_frame_4k on every frame of physical_address_list, then
\* sharedmemory_destroy, which frees the struct and its lists and removes it
\* from g_shm_list.
Reclaim(G) ==
    /\ freeFrames' = freeFrames \cup UNION {ToSet(pages[o]) : o \in G}
    /\ shmList' = SelectSeq(shmList, LAMBDA o : o \notin G)

-----------------------------------------------------------------------------
(* sharedmemory_create                                                     *)
Create(n) ==
    /\ FindByName(n) = {}
    /\ \E o \in Objects \ everAlloc :
          /\ everAlloc' = everAlloc \cup {o}
          /\ shmList' = Append(shmList, o)
          /\ objName' = [objName EXCEPT ![o] = n]
    /\ UNCHANGED <<length, pages, maps, marked, freeFrames, handles, vm>>

(* fs_open of /system/shm/<n>: sharedmemorydir_finddir, then               *)
(* sharedmemory_open, which always succeeds                                *)
Open(p, n) ==
    /\ FindByName(n) # {}
    /\ handles' = handles \cup {<<p, CHOOSE o \in FindByName(n) : TRUE>>}
    /\ UNCHANGED <<shmList, everAlloc, objName, length, pages, maps, marked,
                   freeFrames, vm>>

(* fs_close of an shm File (the node has no close hook)                    *)
Close(p, o) ==
    /\ <<p, o>> \in handles
    /\ handles' = handles \ {<<p, o>>}
    /\ UNCHANGED <<shmList, everAlloc, objName, length, pages, maps, marked,
                   freeFrames, vm>>

\* Mutant: the "already set" check is lost, a second ftruncate adds pages.
FtruncateOk(o, l) == l > 0

\* Mutant: the length <= 0 check is lost.
FtruncateNoLengthCheck(o, l) == length[o] = 0

\* length > 0 and node->length still 0
FtruncateAllowed(o, l) == l > 0 /\ length[o] = 0

\* A File whose object sharedmemory_destroy has freed reads freed memory in
\* ftruncate and mmap (undefined behaviour).  NoDanglingHandle shows such a
\* File exists; the model does not follow calls made through one.
Usable(p, o) == <<p, o>> \in handles /\ o \in Live

(* sharedmemory_ftruncate: one vmm_acquire_page_frame_4k per page, in      *)
(* order; the vmm hands out its lowest free frames.                        *)
Ftruncate(p, o, l) ==
    /\ Usable(p, o)
    /\ IF FtruncateAllowed(o, l)
       THEN LET k   == PageCount(l)
                got == SetToSortSeq(
                         CHOOSE S \in SUBSET freeFrames :
                            Cardinality(S) = k /\
                            \A x \in S, y \in freeFrames \ S : x < y,
                         <)
            IN /\ Cardinality(freeFrames) >= k
               /\ pages' = [pages EXCEPT ![o] = @ \o got]
               /\ freeFrames' = freeFrames \ ToSet(got)
               /\ length' = [length EXCEPT ![o] = l]
       ELSE UNCHANGED <<pages, freeFrames, length>>
    /\ UNCHANGED <<shmList, everAlloc, objName, maps, marked, handles, vm>>

\* The mappings vmm holds in p's address space.
InSpace(p) == {m \in vm : m.proc = p}

\* vmm_map_memory(owner, USER_MMAP_START, ...): the first free address of
\* the mmap region, or 0 when the region is full or the mapping fails.
MapResults(p) ==
    LET free == Addrs \ {m.addr : m \in InSpace(p)} IN
    {NoAddr} \cup (IF free = {} THEN {} ELSE {Min(free)})

(* sharedmemory_mmap: with no pages, NULL and no record; otherwise a       *)
(* MapInfo is appended whatever vmm_map_memory returned.                   *)
Mmap(p, o) ==
    /\ Usable(p, o)
    /\ IF pages[o] # <<>>
       THEN /\ Len(maps[o]) < MaxMaps
            /\ \E a \in MapResults(p) :
                  /\ maps' = [maps EXCEPT ![o] =
                                Append(@, [proc |-> p, addr |-> a,
                                           count |-> Len(pages[o])])]
                  /\ vm' = IF a = NoAddr THEN vm
                          ELSE vm \cup {[proc |-> p, addr |-> a,
                                         frames |-> ToSet(pages[o])]}
       ELSE UNCHANGED <<maps, vm>>
    /\ UNCHANGED <<shmList, everAlloc, objName, length, pages, marked,
                   freeFrames, handles>>


(* sharedmemory_unlink, reached by fs_unlink of /system/shm/<n>            *)
Unlink(n) ==
    /\ FindByName(n) # {}
    /\ LET o == CHOOSE x \in FindByName(n) : TRUE IN
          /\ marked' = [marked EXCEPT ![o] = TRUE]
          /\ Reclaim(IF Suitable(TRUE, maps[o]) THEN {o} ELSE {})
    /\ UNCHANGED <<everAlloc, objName, length, pages, maps, handles, vm>>

\* The mapping records of process p at address a.
At(p, a, r) == r.proc = p /\ r.addr = a

(* sharedmemory_unmap_if_exists(p, a), from the munmap path: the first     *)
(* object in list order with a record of p at a loses its first such       *)
(* record, then destroy_if_suitable.  With no record it returns FALSE and  *)
(* changes nothing.  The caller drops the process's view of the pages      *)
(* (spec 4.5: they become unreachable to the process).                     *)
UnmapIfExists(p, a) ==
    LET idx == SelectInSeq(shmList,
                  LAMBDA o : \E j \in DOMAIN maps[o] : At(p, a, maps[o][j]))
    IN /\ idx # 0
       /\ LET o  == shmList[idx]
              ms == RemoveAt(maps[o], SelectInSeq(maps[o], LAMBDA r : At(p, a, r)))
          IN /\ maps' = [maps EXCEPT ![o] = ms]
             /\ Reclaim(IF Suitable(marked[o], ms) THEN {o} ELSE {})
       /\ vm' = {m \in vm : ~At(p, a, m)}
       /\ UNCHANGED <<everAlloc, objName, length, pages, marked, handles>>

\* Mutant: teardown removes the records but never destroys anything.
ReleasedByNone(ms) == {}

\* The objects the unmap_if_exists calls of a teardown destroy: those that
\* lost a record and are then suitable (ms: the lists after the removals).
ReleasedBy(ms) ==
    {o \in Live : ms[o] # maps[o] /\ Suitable(marked[o], ms[o])}

(* sharedmemory_unmap_for_process_all, the process teardown hook: collect  *)
(* every address p has mapped, then unmap_if_exists(p, a) for each.  Each  *)
(* call removes one record of p, so together they remove all of them, and  *)
(* each object left marked and unmapped is destroyed.  The process's       *)
(* address space goes with it.                                             *)
UnmapForProcessAll(p) ==
    LET ms == [o \in Objects |->
                 IF o \in Live THEN SelectSeq(maps[o], LAMBDA r : r.proc # p)
                 ELSE maps[o]]
    IN /\ ms # maps
       /\ maps' = ms
       /\ Reclaim(ReleasedBy(ms))
       /\ vm' = {m \in vm : m.proc # p}
       /\ UNCHANGED <<everAlloc, objName, length, pages, marked, handles>>

(* sharedmemory_destroy_by_name: sharedmemory_find, then                   *)
(* sharedmemory_destroy with no check of mappings and no frame release     *)
DestroyByName(n) ==
    /\ FindByName(n) # {}
    /\ shmList' = SelectSeq(shmList, LAMBDA o : o \notin FindByName(n))
    /\ UNCHANGED <<everAlloc, objName, length, pages, maps, marked,
                   freeFrames, handles, vm>>

Next ==
    \/ \E n \in Names : Create(n)
    \/ \E n \in Names : Unlink(n)
    \/ \E n \in Names : DestroyByName(n)
    \/ \E p \in Procs, n \in Names : Open(p, n)
    \/ \E p \in Procs, o \in everAlloc : Close(p, o)
    \/ \E p \in Procs, o \in everAlloc, l \in Lengths : Ftruncate(p, o, l)
    \/ \E p \in Procs, o \in everAlloc : Mmap(p, o)
    \/ \E p \in Procs, a \in Addrs \cup {NoAddr} : UnmapIfExists(p, a)
    \/ \E p \in Procs : UnmapForProcessAll(p)

Spec == Init /\ [][Next]_vars

-----------------------------------------------------------------------------
TypeOK ==
    /\ shmList \in Seq(everAlloc) /\ everAlloc \subseteq Objects
    /\ objName \in [Objects -> Names]
    /\ length \in [Objects -> Nat]
    /\ pages \in [Objects -> Seq(Frames)]
    /\ \A o \in Objects : maps[o] \in Seq(MapInfo)
    /\ marked \in [Objects -> BOOLEAN]
    /\ freeFrames \subseteq Frames
    /\ handles \subseteq Procs \X everAlloc
    /\ \A m \in vm : m.proc \in Procs /\ m.addr \in Addrs
                     /\ m.frames \subseteq Frames

\* Spec invariant 3 (sharedmemory_unlink, unmap_if_exists and the teardown
\* hook all end in destroy_if_suitable): no object on g_shm_list is both
\* marked for unlink and without mappings.
UnlinkedReclaimed ==
    \A o \in Live : ~(marked[o] /\ maps[o] = <<>>)

\* destroy_if_suitable releases frames only once the last mapping is gone:
\* no frame a process still has mapped is back with the vmm, whatever order
\* processes mmap, unlink, munmap and exit in.
MappedFramesHeld ==
    \A m \in vm : m.frames \cap freeFrames = {}

\* Spec invariant 4: every mapping record covers exactly page_count of its
\* object's pages, however ftruncate and mmap by different processes
\* interleave (ftruncate refuses once node->length is set).
MapCountMatches ==
    \A o \in Live : \A j \in DOMAIN maps[o] : maps[o][j].count = Len(pages[o])

\* A File of /system/shm points at node memory that stays allocated: no
\* open handle refers to an object sharedmemory_destroy has freed.
NoDanglingHandle ==
    \A h \in handles : h[2] \in Live

\* Spec 6: a failed mmap leaves the shared object unchanged, so no mapping
\* record holds the failure address 0.
NoFailedMapRecord ==
    \A o \in Live : \A j \in DOMAIN maps[o] : maps[o][j].addr # NoAddr

=============================================================================
