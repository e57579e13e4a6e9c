--------------------------- MODULE CarrayForeach ---------------------------
(***************************************************************************)
(* foreach over a Carray while the body of the loop, or of another loop    *)
(* over the same array, resizes it or drops the last variable that holds   *)
(* it.  The iterator (carray_quickit) keeps no more than an index and a    *)
(* counted reference to the object; the loop itself is run by the Zend VM, *)
(* which moves, checks and fetches without a script step in between.       *)
(***************************************************************************)
EXTENDS Garray

CONSTANTS
    Loop,           \* the foreach statements being run
    MaxSize         \* bound on the size of the array

ASSUME MaxSizeAssumption == MaxSize \in Nat

VARIABLES
    arr,        \* the array
    refcount,   \* references to the object
    var,        \* the script still has a variable that holds it
    pc,         \* of each loop: "idle", "first", "body" or "done"
    current,    \* of each loop: the index in its iterator
    seen,       \* history of each loop: the indices its body was given
    stable      \* history of each loop: the indices that were in the array
                \* at every moment since the loop began

vars == <<arr, refcount, var, pc, current, seen, stable>>

Running(l) == pc[l] \in {"first", "body"}

\* Whoever lets go of the last reference frees the block.
DropReference ==
    /\ refcount' = refcount - 1
    /\ arr' = IF refcount = 1 THEN PcaFree(arr) ELSE arr

-----------------------------------------------------------------------------
(***************************************************************************)
(* The VM drives the iterator.                                             *)
(***************************************************************************)

\* Mutant of FeReset: the iterator borrows the object without counting it.
FeResetBorrowed(l) ==
    /\ ~ Running(l)
    /\ var
    /\ arr.size > 0
    /\ current' = [current EXCEPT ![l] = 0]
    /\ seen' = [seen EXCEPT ![l] = {}]
    /\ stable' = [stable EXCEPT ![l] = 0..(arr.size - 1)]
    /\ pc' = [pc EXCEPT ![l] = "first"]
    /\ UNCHANGED <<arr, refcount, var>>

\* FE_RESET: carray_get_iterator, rewind, and valid once.
FeReset(l) ==
    /\ ~ Running(l)
    /\ var
    /\ current' = [current EXCEPT ![l] = 0]
    /\ seen' = [seen EXCEPT ![l] = {}]
    /\ stable' = [stable EXCEPT ![l] = 0..(arr.size - 1)]
    /\ IF arr.size > 0
         THEN /\ pc' = [pc EXCEPT ![l] = "first"]
              /\ refcount' = refcount + 1
         ELSE /\ pc' = [pc EXCEPT ![l] = "done"]
              /\ UNCHANGED refcount
    /\ UNCHANGED <<arr, var>>

\* Mutant of Moved: the first element is moved past as well.
MovedAlways(l) == current[l] + 1

\* Mutant of Moved: the iterator stays where it is.
MovedNever(l) == current[l]

\* carray_quickit_move_forward, which FE_FETCH skips the first time
Moved(l) == IF pc[l] = "first" THEN current[l] ELSE current[l] + 1

\* Mutant of Valid: one past the end counts as valid.
ValidThrough(i) == i <= arr.size

\* carray_quickit_valid: the size is read anew each time.
Valid(i) == i < arr.size

\* FE_FETCH with an element left: get_current_data at the new index.
FeFetch(l) ==
    /\ Running(l)
    /\ Valid(Moved(l))
    /\ current' = [current EXCEPT ![l] = Moved(l)]
    /\ seen' = [seen EXCEPT ![l] = @ \cup {Moved(l)}]
    /\ pc' = [pc EXCEPT ![l] = "body"]
    /\ UNCHANGED <<arr, refcount, var, stable>>

\* Mutant of FeEnd: the iterator keeps its reference.
FeEndLeaks(l) ==
    /\ Running(l)
    /\ ~ Valid(Moved(l))
    /\ current' = [current EXCEPT ![l] = Moved(l)]
    /\ pc' = [pc EXCEPT ![l] = "done"]
    /\ UNCHANGED <<arr, refcount, var, seen, stable>>

\* FE_FETCH with none left: the loop ends and carray_quickit_dtor runs.
FeEnd(l) ==
    /\ Running(l)
    /\ ~ Valid(Moved(l))
    /\ current' = [current EXCEPT ![l] = Moved(l)]
    /\ pc' = [pc EXCEPT ![l] = "done"]
    /\ DropReference
    /\ UNCHANGED <<var, seen, stable>>

\* break out of the loop
FeFree(l) ==
    /\ pc[l] = "body"
    /\ pc' = [pc EXCEPT ![l] = "idle"]
    /\ DropReference
    /\ UNCHANGED <<var, current, seen, stable>>

-----------------------------------------------------------------------------
(***************************************************************************)
(* What a body does to the array.                                          *)
(***************************************************************************)
Body(g) ==
    /\ var
    /\ arr' = g
    /\ stable' = [l \in Loop |-> stable[l] \cap 0..(g.size - 1)]
    /\ UNCHANGED <<refcount, var, pc, current, seen>>

Push(v) ==
    LET i == arr.size
    IN  /\ i < MaxSize
        /\ Body(Written(GenResize(arr, i + 1), i, v))

Resize(n) == Body(GenResize(arr, n))

Reserve(n) == Body(PcaReserve(arr, n))

\* unset($a)
UnsetVar ==
    /\ var
    /\ var' = FALSE
    /\ DropReference
    /\ UNCHANGED <<pc, current, seen, stable>>

-----------------------------------------------------------------------------
Init ==
    /\ \E k \in Kind, n \in 0..MaxSize :
          arr = InitElems(PcaAlloc(EtypeCtor(k), n), 0, n)
    /\ refcount = 1
    /\ var = TRUE
    /\ pc = [l \in Loop |-> "idle"]
    /\ current = [l \in Loop |-> 0]
    /\ seen = [l \in Loop |-> {}]
    /\ stable = [l \in Loop |-> {}]

Advance(l) == FeFetch(l) \/ FeEnd(l)

Next ==
    \/ \E l \in Loop : FeReset(l)
    \/ \E l \in Loop : FeFetch(l)
    \/ \E l \in Loop : FeEnd(l)
    \/ \E l \in Loop : FeFree(l)
    \/ \E v \in Value : Push(v)
    \/ \E n \in 0..MaxSize : Resize(n)
    \/ \E n \in 0..MaxSize : Reserve(n)
    \/ UnsetVar

\* The VM goes on with a loop once its body has run, however often the body
\* (or another loop) resized the array.
Spec == Init /\ [][Next]_vars /\ \A l \in Loop : WF_vars(Advance(l))

-----------------------------------------------------------------------------
(***************************************************************************)
(* Properties.                                                             *)
(***************************************************************************)
TypeOK ==
    /\ IsArray(arr)
    /\ refcount \in Nat
    /\ var \in BOOLEAN
    /\ pc \in [Loop -> {"idle", "first", "body", "done"}]
    /\ current \in [Loop -> Nat]
    /\ seen \in [Loop -> SUBSET Nat]
    /\ stable \in [Loop -> SUBSET Nat]

\* The element handed to a body is inside the block of a live object, though
\* the index was chosen before other code shrank, grew or let go of the array.
FetchInsideBlock ==
    [][\A l \in Loop : seen'[l] # seen[l] =>
          \A i \in seen'[l] \ seen[l] : refcount > 0 /\ i \in DOMAIN arr.slot]_vars

\* The array outlives the loops over it and no longer: its block is there
\* while a loop is inside it, and is given back with the last reference.
HeldWhileIterated ==
    /\ refcount = 0 => arr.elements = "NULL"
    /\ refcount = 0 <=> (~ var /\ \A l \in Loop : ~ Running(l))

\* A loop that runs to its end has visited every element that was in the
\* array all along, however the array was cut and extended meanwhile.
VisitsStable ==
    \A l \in Loop : pc[l] = "done" => stable[l] \subseteq seen[l]

\* A loop over an array whose size stays bounded ends, also when the body
\* keeps pushing and cutting.
LoopEnds == \A l \in Loop : Running(l) ~> ~ Running(l)

=============================================================================
