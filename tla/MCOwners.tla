------------------------------ MODULE MCOwners ------------------------------
(* Small instances of Owners. *)
EXTENDS Owners, TLC

CONSTANTS s1, a1, a2, r1, r2, u1, i1

MCStr == {s1}
MCArr == {a1, a2}
MCRe == {r1, r2}
MCU8 == {u1}
MCIt == {i1}
MCSymmetry == Permutations(MCArr) \cup Permutations(MCRe)

\* Captures and Csu8 objects share nothing: a bound on what is there at once.
MCApart == (\A o \in U8 : refs[o] = 0) \/ (heap.live \cap Arr = {})
=============================================================================
