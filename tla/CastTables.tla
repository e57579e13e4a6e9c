------------------------------ MODULE CastTables ------------------------------
(***************************************************************************)
(* The element types of Carray (carray_obj.c, cast_macro.c): what a type   *)
(* accepts, the bytes it stores and the value it gives back.               *)
(*                                                                         *)
(* A value of a script is a record [is, n].  A double is counted in steps  *)
(* of which every second one is a float, and rounded to the nearest float, *)
(* or to every other one halfway between two; NaN, which passes the        *)
(* comparisons and is stored, is left out.  A stored number is the natural *)
(* number that its bytes are, or the float or double itself; the elements  *)
(* of a mixed array are the values.                                        *)
(***************************************************************************)
EXTENDS Integers

CONSTANTS
    Byte,           \* bits of a byte: 8 in the code
    CharSigned,     \* whether the compiler's char is signed
    FltMax          \* FLT_MAX, in steps

ASSUME CastAssumption ==
    /\ Byte \in Nat \ {0}
    /\ CharSigned \in BOOLEAN
    /\ FltMax \in Nat /\ FltMax % 2 = 0

SignedLong == {"int8", "int16", "int32", "int64"}
LongType == SignedLong \cup {"uint8", "uint16", "uint32"}
RealType == {"float", "double"}
Type == LongType \cup RealType \cup {"mixed"}

\* sizeof in bytes; a zval has 16
esize(t) ==
    CASE t \in {"int8", "uint8"}            -> 1
      [] t \in {"int16", "uint16"}          -> 2
      [] t \in {"int32", "uint32", "float"} -> 4
      [] t \in {"int64", "double"}          -> 8
      [] t = "mixed"                        -> 16

etype(t) ==
    CASE t = "int8"  -> 2  [] t = "uint8"  -> 3
      [] t = "int16" -> 4  [] t = "uint16" -> 5
      [] t = "int32" -> 8  [] t = "uint32" -> 9
      [] t = "int64" -> 16 [] t = "float"  -> 32
      [] t = "double" -> 64
      [] t = "mixed" -> 128

\* Carray::signedType looks at one bit of the type.
signedType(t) == etype(t) % 2 = 0

Half(t) == 2 ^ (Byte * esize(t) - 1)
Whole(t) == 2 * Half(t)

\* A power of two is at least 1.
ASSUME HalfAssumption == \A t \in LongType : Half(t) \in Nat \ {0}

-----------------------------------------------------------------------------
\* PHIZ_CAST_MIN and PHIZ_CAST_MAX, of the types that have them
CastMin(t) ==
    IF t = "int8" THEN (IF CharSigned THEN - Half(t) ELSE 0)
    ELSE IF t = "float" THEN - FltMax
    ELSE IF t \in SignedLong THEN - Half(t)
    ELSE 0

CastMax(t) ==
    IF t = "int8" THEN (IF CharSigned THEN Half(t) - 1 ELSE Whole(t) - 1)
    ELSE IF t = "float" THEN FltMax
    ELSE IF t \in SignedLong THEN Half(t) - 1
    ELSE Whole(t) - 1

HasRange(t) == t \notin {"int64", "double", "mixed"}

ZvalType(t) == IF t \in LongType THEN "LONG" ELSE "DOUBLE"

\* Mutant of SetError: one past the maximum is accepted.
SetErrorPast(t, z) ==
    IF t = "mixed" THEN "OK"
    ELSE IF z.is # ZvalType(t) THEN "TYPE"
    ELSE IF HasRange(t) /\ (z.n < CastMin(t) \/ z.n > CastMax(t) + 1)
           THEN "RANGE"
    ELSE "OK"

\* What set_zval returns: CATE_OK, CATE_TYPE or CATE_RANGE.
SetError(t, z) ==
    IF t = "mixed" THEN "OK"
    ELSE IF z.is # ZvalType(t) THEN "TYPE"
    ELSE IF HasRange(t) /\ (z.n < CastMin(t) \/ z.n > CastMax(t)) THEN "RANGE"
    ELSE "OK"

\* The assignment of set_zval, which converts to the type of the element.
Stored(t, z) ==
    IF t \in LongType THEN z.n % Whole(t)
    ELSE IF t = "float" THEN (IF z.n % 4 = 3 THEN z.n + 1 ELSE z.n - (z.n % 2))
    ELSE IF t = "double" THEN z.n
    ELSE z

\* get_zval, which converts to a long or a double.
Loaded(t, c) ==
    IF t \in LongType
      THEN [is |-> "LONG",
            n |-> IF t \in SignedLong /\ c >= Half(t) THEN c - Whole(t) ELSE c]
    ELSE IF t \in RealType THEN [is |-> "DOUBLE", n |-> c]
    ELSE c

\* Zero, or null, as init_elems writes it.
Initial(t) ==
    IF t \in LongType THEN [is |-> "LONG", n |-> 0]
    ELSE IF t \in RealType THEN [is |-> "DOUBLE", n |-> 0]
    ELSE [is |-> "NULL", n |-> 0]

=============================================================================
