------------------------------ MODULE SystemFs ------------------------------
(***************************************************************************)
(* The system-information provider (src/kernel/systemfs.c) mounted at      *)
(* /system.  Its static subtree (meminfo, pipes, shm) never changes; the   *)
(* threads directory is rebuilt on every open: the old child nodes are     *)
(* kfree'd and one node per live thread is kmalloc'd.  A node struct keeps *)
(* its fields after kfree and kmalloc may hand it out again.               *)
(*                                                                         *)
(* Files are what the VFS keeps for an open: the node and the offset.      *)
(* The scheduler's thread list is the environment: threads are created     *)
(* and exit between calls.  Each provider call runs to completion with     *)
(* interrupts off, so it is one action.  A thread id is the node's name    *)
(* (sprintf "%d" and atoi are inverse on thread ids).                      *)
(***************************************************************************)
EXTENDS Naturals, Sequences, FiniteSets, SequencesExt

CONSTANTS
    Threads,    \* thread ids the scheduler can hand out
    Nodes,      \* filesystem_node structs kmalloc can return for thread files
    Files,      \* File structs of the VFS
    ThreadsDir, \* the "threads" directory node
    MemInfo,    \* the meminfo/totalpages and meminfo/usedpages nodes
    Sizes,      \* buffer sizes passed to read
    Null

ASSUME ThreadsDir \notin Nodes /\ MemInfo \cap Nodes = {} /\ Null \notin Nodes

VARIABLES
    threadList, \* the scheduler's thread list, thread_get_first order
    everThread, \* ids handed out so far (ids are not reused)
    alloc,      \* thread nodes kmalloc'd and not kfree'd
    firstChild, \* the threads directory's first_child
    nextSib,    \* node->next_sibling of thread nodes
    name,       \* node->name of thread nodes (the thread id)
    file,       \* open Files: [node, offset, live], or Null when closed;
                \* live is auxiliary: FALSE once the node has been kfree'd
    ret,        \* what the last call returned
    staleRead   \* auxiliary: a read went through a kfree'd node

vars == <<threadList, everThread, alloc, firstChild, nextSib, name, file, ret, staleRead>>

Init ==
    /\ threadList = <<>> /\ everThread = {}
    /\ alloc = {} /\ firstChild = Null
    /\ nextSib = [n \in Nodes |-> Null]
    /\ name = [n \in Nodes |-> CHOOSE t \in Threads : TRUE]
    /\ file = [f \in Files |-> Null]
    /\ ret = Null
    /\ staleRead = FALSE

-----------------------------------------------------------------------------
\* The child chain from first_child along next_sibling, bounded by the pool.
RECURSIVE ChainFrom(_, _)
ChainFrom(n, k) == IF n = Null \/ k = 0 THEN <<>> ELSE <<n>> \o ChainFrom(nextSib[n], k - 1)

Chain == ChainFrom(firstChild, Cardinality(Nodes))

\* systemfs_finddir on the threads directory: the first child whose name
\* compares equal, or NULL.
FindChild(t) ==
    LET i == SelectInSeq(Chain, LAMBDA n : name[n] = t) IN
    IF i = 0 THEN Null ELSE Chain[i]

Closed(f) == file[f] = Null

-----------------------------------------------------------------------------
(* The scheduler (environment): a thread is created or exits.              *)
ThreadCreate(t) ==
    /\ t \notin everThread
    /\ threadList' = Append(threadList, t) /\ everThread' = everThread \cup {t}
    /\ UNCHANGED <<alloc, firstChild, nextSib, name, file, ret, staleRead>>

ThreadExit(t) ==
    /\ t \in Range(threadList)
    /\ threadList' = SelectSeq(threadList, LAMBDA u : u # t)
    /\ UNCHANGED <<everThread, alloc, firstChild, nextSib, name, file, ret, staleRead>>

(* systemfs_open_threads_dir: clean_thread_nodes kfrees every node of the  *)
(* chain (first_child is not reset), then one node per thread of the list  *)
(* is kmalloc'd, memset, named and linked after the previous one.  The     *)
(* caller is a live thread, so the list is not empty.                      *)
OpenThreadsDir(f) ==
    /\ Closed(f)
    /\ threadList # <<>>
    /\ LET freed == Range(Chain)
           k == Len(threadList)
       IN \E new \in [1..k -> Nodes \ (alloc \ freed)] :
            /\ IsInjective(new)
            /\ alloc' = (alloc \ freed) \cup Range(new)
            /\ firstChild' = new[1]
            /\ nextSib' = [n \in Nodes |->
                             IF \E i \in 1..k : new[i] = n
                             THEN LET i == CHOOSE i \in 1..k : new[i] = n IN
                                  IF i < k THEN new[i + 1] ELSE Null
                             ELSE nextSib[n]]
            /\ name' = [n \in Nodes |->
                          IF \E i \in 1..k : new[i] = n
                          THEN threadList[CHOOSE i \in 1..k : new[i] = n]
                          ELSE name[n]]
    /\ file' = [g \in Files |->
                 IF g = f THEN [node |-> ThreadsDir, offset |-> 0, live |-> TRUE]
                 ELSE IF file[g] # Null /\ file[g].node \in Range(Chain)
                 THEN [file[g] EXCEPT !.live = FALSE]
                 ELSE file[g]]
    /\ ret' = TRUE
    /\ UNCHANGED <<threadList, everThread, staleRead>>

(* open of /system/threads/<t>: the VFS resolves the name with             *)
(* systemfs_finddir on the threads directory, then systemfs_open_thread_file *)
(* returns TRUE                                                            *)
OpenThreadFile(f, t) ==
    /\ Closed(f)
    /\ LET n == FindChild(t) IN
       /\ file' = IF n = Null THEN file ELSE [file EXCEPT ![f] = [node |-> n, offset |-> 0, live |-> TRUE]]
       /\ ret' = (n # Null)
    /\ UNCHANGED <<threadList, everThread, alloc, firstChild, nextSib, name, staleRead>>

(* open of meminfo/totalpages or usedpages: systemfs_open returns TRUE     *)
OpenMemInfo(f, m) ==
    /\ Closed(f)
    /\ file' = [file EXCEPT ![f] = [node |-> m, offset |-> 0, live |-> TRUE]]
    /\ ret' = TRUE
    /\ UNCHANGED <<threadList, everThread, alloc, firstChild, nextSib, name, staleRead>>

(* systemfs_read_thread_file: needs a 128-byte buffer; on the first read   *)
(* it looks the thread up by atoi(file->node->name) and emits its block    *)
(* (abstracted to the thread id; its length is positive), else -1         *)
ReadThreadFile(f, size) ==
    /\ ~Closed(f) /\ file[f].node \in Nodes
    /\ LET fl == file[f]
           t == name[fl.node]
           lookup == size >= 128 /\ fl.offset = 0
       IN /\ ret' = CASE size < 128                -> -1
                       [] fl.offset # 0            -> 0
                       [] t \in Range(threadList)  -> <<"block", t>>
                       [] OTHER                    -> -1
          /\ file' = IF lookup /\ t \in Range(threadList)
                     THEN [file EXCEPT ![f].offset = 1] ELSE file
          /\ staleRead' = (staleRead \/ (lookup /\ ~fl.live))
    /\ UNCHANGED <<threadList, everThread, alloc, firstChild, nextSib, name>>

(* systemfs_read_meminfo_totalpages / usedpages: the decimal page count on *)
(* the first read of a handle with at least 4 bytes, then 0; -1 below 4   *)
ReadMemInfo(f, size) ==
    /\ ~Closed(f) /\ file[f].node \in MemInfo
    /\ ret' = CASE size < 4              -> -1
                 [] file[f].offset # 0    -> 0
                 [] OTHER                 -> <<"pages", file[f].node>>
    /\ file' = IF size >= 4 /\ file[f].offset = 0
               THEN [file EXCEPT ![f].offset = 1] ELSE file
    /\ UNCHANGED <<threadList, everThread, alloc, firstChild, nextSib, name, staleRead>>

(* systemfs_readdir on the threads directory: the index-th child, copied   *)
(* into the static g_dirent, or NULL                                       *)
Readdir(index) ==
    /\ ret' = IF index < Len(Chain) THEN [name |-> name[Chain[index + 1]], file_type |-> "file"]
              ELSE Null
    /\ UNCHANGED <<threadList, everThread, alloc, firstChild, nextSib, name, file, staleRead>>

(* close: systemfs_close_threads_dir and systemfs_close_thread_file do     *)
(* nothing; the VFS drops the File                                         *)
CloseFile(f) ==
    /\ ~Closed(f)
    /\ file' = [file EXCEPT ![f] = Null] /\ ret' = Null
    /\ UNCHANGED <<threadList, everThread, alloc, firstChild, nextSib, name, staleRead>>

Next ==
    \/ \E t \in Threads : ThreadCreate(t) \/ ThreadExit(t)
    \/ \E f \in Files : OpenThreadsDir(f) \/ CloseFile(f)
    \/ \E f \in Files, t \in Threads : OpenThreadFile(f, t)
    \/ \E f \in Files, m \in MemInfo : OpenMemInfo(f, m)
    \/ \E f \in Files, s \in Sizes : ReadThreadFile(f, s) \/ ReadMemInfo(f, s)
    \/ \E i \in 0..Cardinality(Nodes) : Readdir(i)

Spec == Init /\ [][Next]_vars

-----------------------------------------------------------------------------
\* A read of /system/threads/<tid> never goes through a node struct that an
\* open of the threads directory has kfree'd since the File was opened
\* (clean_thread_nodes frees the children while Files on them stay open;
\* the freed struct may already be another thread's node).
NoStaleRead == ~staleRead

====
