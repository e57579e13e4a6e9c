---------------------------- MODULE MCCapSearch ----------------------------
(* The table of the source, asked for the sizes on and around its marks. *)
EXTENDS CapSearch

MCMarks ==
    << 4, 8, 16, 32, 64, 128, 256, 512, 829, 1342,
       2172, 3515, 5688, 9204, 14893, 24098, 38992, 63091, 102084, 165175 >>

MCSizes ==
    (1..40) \cup UNION {{m - 1, m, m + 1} : m \in Marks}
            \cup {165180, 200001, 1000000}
=============================================================================
