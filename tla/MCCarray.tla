------------------------------ MODULE MCCarray ------------------------------
(* Small instances of Carray and of its refinement. *)
EXTENDS CarrayList, TLC

CONSTANTS o1, o2, v1, v2

MCObj == {o1, o2}
MCValue == {v1, v2}
MCOneValue == {v1}

\* One mark in the middle of the sizes: below, at and beyond it.
MCMarks == <<2>>
MCSymmetry == Permutations({o1, o2})

\* There are only arrays of one kind at a time, and packed ones, which may be
\* passed v2 and refuse it, only when no value is counted.
MCBound ==
    /\ user[v2] = 0
    /\ \/ \A o \in Obj : Live(o) => Ctdt(arr[o])
       \/ rc[v1] = 0 /\ \A o \in Obj : Live(o) => ~ Ctdt(arr[o])
=============================================================================
