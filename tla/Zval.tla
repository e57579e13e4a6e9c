-------------------------------- MODULE Zval --------------------------------
(***************************************************************************)
(* Values that the Zend engine counts references on, and the variables of  *)
(* a script that hold them.  The engine is not part of the repository: it  *)
(* is modelled from how phiz_cregx.c and phiz_str8.c use its macros.       *)
(*                                                                         *)
(* A heap has                                                              *)
(*   live     the values whose memory is allocated                         *)
(*   count    the counter in front of each value, of Wide numbers          *)
(*   broken   freed or meaningless memory has been used: undefined         *)
(*            behaviour, after which nothing more is modelled              *)
(*                                                                         *)
(* Literal is any string written in the program text.  It is interned: it  *)
(* has no counter, and every macro leaves it alone, like Null and Undef.   *)
(***************************************************************************)
EXTENDS Naturals

CONSTANTS
    Str,            \* strings built at run time
    Arr,            \* arrays of captures
    Literal,
    Null, Undef,
    Wide,           \* 2^32 in the code
    MaxUser,        \* bound on the variables that hold one value
    MaxRefs         \* bound on how far a count goes up, by leaks too

Val == Str \cup Arr
Text == Str \cup {Literal}

ASSUME ZvalAssumption ==
    /\ Str \cap Arr = {}
    /\ {Literal, Null, Undef} \cap Val = {}
    /\ Wide \in Nat /\ MaxUser \in Nat \ {0}
    /\ MaxRefs \in 2..(Wide - 1)        \* no count comes round upwards

VARIABLES
    heap,
    user        \* how many variables of the script hold each value

-----------------------------------------------------------------------------
\* Using the memory of a value that has been freed.
Touch(h, v) == [h EXCEPT !.broken = @ \/ (v \in Val /\ v \notin h.live)]

\* Using what the union of a zval holds when its type says it holds nothing.
TouchText(h, v) == [Touch(h, v) EXCEPT !.broken = @ \/ v \notin Text]

\* Z_ADDREF, ZVAL_COPY, ZVAL_STR_COPY
AddRef(h, v) ==
    IF v \in Val THEN [Touch(h, v) EXCEPT !.count[v] = (@ + 1) % Wide] ELSE h

\* Z_TRY_DELREF: the count goes down and the memory stays, also at 0.
DelRef(h, v) ==
    IF v \in Val THEN [Touch(h, v) EXCEPT !.count[v] = (@ + Wide - 1) % Wide]
                 ELSE h

\* zval_ptr_dtor: the value is freed when the count gets to 0.
PtrDtor(h, v) ==
    LET d == DelRef(h, v)
    IN  IF v \in Val /\ d.count[v] = 0 THEN [d EXCEPT !.live = @ \ {v}] ELSE d

\* A new value, with the one reference of whoever made it.
Allocate(h, v) ==
    [h EXCEPT !.live = @ \cup {v}, !.count[v] = 1]

-----------------------------------------------------------------------------
(***************************************************************************)
(* The script's variables.  A temporary is a variable that is forgotten    *)
(* right after the call it was made for.                                   *)
(***************************************************************************)

Room(v) == v \in Val => heap.count[v] # MaxRefs

\* What can be passed as an argument, and what a call does that returns v.
CanPass(v) == v = Literal \/ (v \in Str /\ user[v] > 0)

Returned(v) ==
    IF v \in Val
      THEN user[v] < MaxUser /\ user' = [user EXCEPT ![v] = @ + 1]
      ELSE UNCHANGED user

CopyVar(v) ==
    /\ user[v] > 0
    /\ Room(v)
    /\ Returned(v)
    /\ heap' = AddRef(heap, v)

ForgetVar(v) ==
    /\ user[v] > 0
    /\ user' = [user EXCEPT ![v] = @ - 1]
    /\ heap' = PtrDtor(heap, v)

ZvalInit ==
    /\ heap = [live |-> {}, count |-> [v \in Val |-> 0], broken |-> FALSE]
    /\ user = [v \in Val |-> 0]

ZvalTypeOK ==
    /\ heap.live \subseteq Val
    /\ heap.count \in [Val -> 0..(Wide - 1)]
    /\ heap.broken \in BOOLEAN
    /\ user \in [Val -> 0..MaxUser]

=============================================================================
