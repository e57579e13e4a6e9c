------------------------------- MODULE Garray -------------------------------
(***************************************************************************)
(* The untyped growable block that every array of the extension is built   *)
(* on: struct array_head and the functions pca_* and gen_resize of         *)
(* src/carray_obj.c, as operators on a record.                             *)
(*                                                                         *)
(*   elements   "NULL" or "block": whether the pointer is set              *)
(*   extent     how many elements the block holds, as the allocator knows  *)
(*              it (the C code never stores it)                            *)
(*   size, capacity   the two size_t members of array_head                 *)
(*   slot       the contents of the block, indexed from 0 as in C          *)
(*   kind       "packed" for the C number types, "mixed" for zvals; it     *)
(*              stands for the pointer to the gen_array_fntab              *)
(*                                                                         *)
(* Sizes passed to the operators are natural numbers: a negative one is    *)
(* not a size the callers of the class use.                                *)
(***************************************************************************)
EXTENDS Capacity, FiniteSets

CONSTANTS
    Value,          \* what a script stores in an array
    Blank,          \* an element init_elems made: 0, or null in a mixed array
    Garbage         \* memory nobody has written since emalloc returned it

ASSUME SlotAssumption ==
    /\ Blank \notin Value
    /\ Garbage \notin Value \cup {Blank}

Slot == Value \cup {Blank, Garbage}
Kind == {"packed", "mixed"}

(***************************************************************************)
(* An array, and the block it owns.                                        *)
(***************************************************************************)
Array(k, e, x, s, c, f) ==
    [kind |-> k, elements |-> e, extent |-> x, size |-> s, capacity |-> c,
     slot |-> f]

\* fntab->ctdt: elements of the type are constructed and destroyed.
Ctdt(g) == g.kind = "mixed"

NoSlots == [i \in {} |-> Garbage]

\* carray_etype_ctor: elements, capacity and size are reset, not released.
EtypeCtor(k) == Array(k, "NULL", 0, 0, 0, NoSlots)

-----------------------------------------------------------------------------
(***************************************************************************)
(* Allocation.                                                             *)
(***************************************************************************)

\* pca_alloc, on an array that etype_ctor has just reset: the block gets
\* exactly n elements and capacity stays 0.
PcaAlloc(g, n) ==
    IF n > 0
      THEN Array(g.kind, "block", n, n, g.capacity,
                 [i \in 0..(n - 1) |-> Garbage])
      ELSE g

\* pca_free does not destroy the elements.
PcaFree(g) == EtypeCtor(g.kind)

AtLeast(n, lower) == IF n < lower THEN lower ELSE n

\* Mutant of PcaReserve: "not below current size" is forgotten.
PcaReserveExact(g, n) ==
    IF n = 0 /\ g.capacity > 0
      THEN Array(g.kind, "NULL", 0, g.size, 0, NoSlots)
      ELSE Array(g.kind, "block", n, g.size, n,
                 [i \in 0..(n - 1) |->
                    IF i < g.extent /\ g.capacity > 0 THEN g.slot[i]
                                                      ELSE Garbage])

\* Mutant of PcaReserve: every reallocation takes a fresh block.
PcaReserveAfresh(g, newCapacity) ==
    LET n == AtLeast(newCapacity, g.size)
    IN  IF n = 0 /\ g.capacity > 0
          THEN Array(g.kind, "NULL", 0, g.size, 0, NoSlots)
          ELSE Array(g.kind, "block", n, g.size, n,
                     [i \in 0..(n - 1) |-> Garbage])

\* pca_reserve: capacity is raised to size, an empty array with a capacity
\* gives its block back, and a capacity of 0 means a fresh block.
PcaReserve(g, newCapacity) ==
    LET n == AtLeast(newCapacity, g.size)
        kept == IF g.capacity = 0 THEN 0 ELSE g.extent
    IN  IF n = 0 /\ g.capacity > 0 /\ g.elements = "block"
          THEN Array(g.kind, "NULL", 0, g.size, 0, NoSlots)
          ELSE Array(g.kind, "block", n, g.size, n,
                     [i \in 0..(n - 1) |->
                        IF i < kept THEN g.slot[i] ELSE Garbage])

(***************************************************************************)
(* Elements.                                                               *)
(***************************************************************************)

\* Mutant of Blanked: "begin <= end" writes one element too many.
BlankedThrough(g, from, to) ==
    [i \in 0..(AtLeast(g.extent, to + 1) - 1) |->
        IF from <= i /\ i <= to THEN Blank ELSE g.slot[i]]

\* init_elems, and what dtor_elems leaves behind, over from .. to - 1.
Blanked(g, from, to) ==
    [i \in 0..(g.extent - 1) |->
        IF from <= i /\ i < to THEN Blank ELSE g.slot[i]]

InitElems(g, from, to) ==
    Array(g.kind, g.elements, g.extent, g.size, g.capacity,
          Blanked(g, from, to))

\* copy_elems into a block of exactly to - from elements.
CopyElems(g, other, from, to) ==
    Array(g.kind, g.elements, g.extent, g.size, g.capacity,
          [i \in 0..(g.extent - 1) |-> other.slot[from + i]])

\* set_zval on an element inside the block.
Written(g, i, v) ==
    Array(g.kind, g.elements, g.extent, g.size, g.capacity,
          [g.slot EXCEPT ![i] = v])

(***************************************************************************)
(* gen_resize, one operator for each of its branches.                      *)
(***************************************************************************)
WithSize(g, n) == Array(g.kind, g.elements, g.extent, n, g.capacity, g.slot)

\* Mutant of Grown: the new elements are not initialised.
GrownRaw(g, n) ==
    WithSize(IF n > g.capacity THEN PcaReserve(g, NextCapMark(n)) ELSE g, n)

Grown(g, n) ==
    LET h == IF n > g.capacity THEN PcaReserve(g, NextCapMark(n)) ELSE g
    IN  WithSize(IF Ctdt(g) THEN InitElems(h, g.size, n) ELSE h, n)

\* Only the types with a destructor really become empty.
Emptied(g) ==
    PcaReserve(IF Ctdt(g) THEN WithSize(InitElems(g, 0, g.size), 0) ELSE g, 0)

Shrunk(g, n) == WithSize(IF Ctdt(g) THEN InitElems(g, n, g.size) ELSE g, n)

GenResize(g, n) ==
    CASE n = g.size           -> g
      [] n > g.size           -> Grown(g, n)
      [] n < g.size /\ n = 0  -> Emptied(g)
      [] n < g.size /\ n > 0  -> Shrunk(g, n)

\* carray_copy_ctor and Carray::sub: a new array of the elements from .. size-1.
CopyCtor(other, from) ==
    LET n == other.size - from
        g == PcaAlloc(EtypeCtor(other.kind), n)
    IN  IF n > 0 THEN CopyElems(g, other, from, other.size) ELSE g

(***************************************************************************)
(* Well-formedness.  The size is what every index is checked against, so   *)
(* an element is inside the block exactly because size <= extent.          *)
(***************************************************************************)
IsArray(g) ==
    /\ g = Array(g.kind, g.elements, g.extent, g.size, g.capacity, g.slot)
    /\ g.kind \in Kind
    /\ g.elements \in {"NULL", "block"}
    /\ g.extent \in Nat
    /\ g.size \in Nat
    /\ g.capacity \in Nat
    /\ g.slot \in [0..(g.extent - 1) -> Slot]

ElementsInBlock(g) ==
    /\ g.size <= g.extent
    /\ g.capacity > 0 => g.extent = g.capacity
    /\ g.elements = "NULL" => g.extent = 0

=============================================================================
