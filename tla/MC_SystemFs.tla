----------------------------- MODULE MC_SystemFs -----------------------------
(* Two thread ids, two node structs for thread files, two Files.           *)
EXTENDS SystemFs

CONSTANTS n1, n2, f1, f2, td, tp

FileSym == Permutations({f1, f2})
=============================================================================
