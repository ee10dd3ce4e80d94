--------------------------- MODULE MC_LinkedList ---------------------------
(* One List with a pool of three ListNode structs and two data pointers,   *)
(* enough for repeated values, middle-node removal and node reuse.         *)
EXTENDS LinkedList, TLC

CONSTANTS m1, m2, m3, d1, d2
=============================================================================
