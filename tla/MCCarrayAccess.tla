--------------------------- MODULE MCCarrayAccess ---------------------------
(***************************************************************************)
(* Arrays of every type, of the class itself, and arrays of bytes of       *)
(* classes that override one method.                                       *)
(***************************************************************************)
EXTENDS CarrayAccess

Plain == [m \in Method |-> "inherited"]

MCArrays ==
    [type : Type, class : {Plain}]
      \cup [type : {"uint8"},
            class : {[Plain EXCEPT ![m] = w] : m \in Method, w \in {"own", "parent"}}]

\* On and next to the bounds of the type, and a value of another type.
MCPassed(t) ==
    IF t \in LongType
      THEN {Long(n) : n \in {CastMin(t), CastMin(t) - 1, CastMax(t), CastMax(t) + 1}
                              \cap (- Half("int64"))..(Half("int64") - 1)}
             \cup {[is |-> "DOUBLE", n |-> 0]}
    ELSE IF t \in RealType
      THEN {[is |-> "DOUBLE", n |-> n] :
              n \in {- FltMax - 1, - FltMax, 1, FltMax - 1, FltMax + 1}}
             \cup {Long(0)}
    ELSE {Long(0), [is |-> "OBJECT", n |-> 1]}

MCOffsets ==
    {Long(-1), Long(0), Long(1), Long(2), [is |-> "STRING", n |-> 1],
     Special("TRUE"), Special("NULL")}

MCValue == {[is |-> "OBJECT", n |-> 1]}
MCMarks == <<1, 2>>
=============================================================================
