-------------------------- MODULE MCCarrayForeach --------------------------
(* Two loops over one small array. *)
EXTENDS CarrayForeach

CONSTANTS l1, l2, v1

MCLoop == {l1, l2}
MCValue == {v1}
MCMarks == <<2>>
=============================================================================
