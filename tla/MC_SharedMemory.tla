-------------------------- MODULE MC_SharedMemory --------------------------
(* Small instance of the shared-memory provider: two processes, two        *)
(* object structs, one name (so a name is re-created after unlink), three  *)
(* frames, two-byte pages so that lengths 1 and 3 take one and two pages.  *)
EXTENDS SharedMemory, TLC

CONSTANTS p1, p2, o1, o2, n1

\* ftruncate lengths: an error (-1), one page, two pages.
MCLengths == {-1, 1, 3}

ProcSym == Permutations({p1, p2})
=============================================================================
