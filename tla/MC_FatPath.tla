----------------------------- MODULE MC_FatPath -----------------------------
(* FatPath with the real 128-byte buffer, one volume slot, a FAT and a     *)
(* non-FAT device, and names whose lengths put the assembled paths on      *)
(* both sides of the 126-character limit.                                  *)
EXTENDS FatPath, TLC

CONSTANTS m0, m1, m2, m3, m4, d1, d2, t1, nd

\* A name of k copies of the character c.
Chars(c, k) == [i \in 1..k |-> c]

NameA  == Chars("a", 62)
NameB  == Chars("b", 61)    \* "0:" a.../b... is 126 characters
NameB2 == Chars("c", 62)    \* "0:" a.../c... is 127 characters
NameC  == Chars("d", 1)
NameE  == Chars("e", 124)   \* "0:" e... is 126 characters
NameE2 == Chars("f", 125)   \* "0:" f... is 127 characters
NameF  == Chars("g", 126)   \* longer than finddir's unchecked first write allows

MCNames == {NameA, NameB, NameB2, NameC, NameE, NameE2}
MCNamesLong == MCNames \cup {NameF}

MCTree == {<<NameA>>, <<NameA, NameB>>, <<NameA, NameB2>>, <<NameC>>,
           <<NameE>>, <<NameE2>>}

NodeSym == Permutations({m0, m1, m2, m3, m4})
=============================================================================
