--------------------------- MODULE MCCarrayClaims ---------------------------
(* Small instances of CarrayClaims. *)
EXTENDS CarrayClaims

CONSTANTS o1, o2, v1, v2

MCObj == {o1, o2}
MCValue == {v1, v2}
MCOneValue == {v1}
MCOne == {o1}

\* One mark in the middle of the sizes: below, at and beyond it.
MCMarks == <<2>>
=============================================================================
