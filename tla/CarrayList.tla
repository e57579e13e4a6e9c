----------------------------- MODULE CarrayList -----------------------------
(***************************************************************************)
(* Carray implements ArrayList: blocks, extents and capacities are hidden, *)
(* and a list is fixed while its array has elements and no capacity.       *)
(***************************************************************************)
EXTENDS Carray

AsList(g) ==
    [kind |-> g.kind, fixed |-> g.capacity = 0 /\ g.size > 0, len |-> g.size,
     item |-> [i \in 0..(g.size - 1) |-> g.slot[i]]]

Lists == [o \in Obj |-> AsList(arr[o])]

L == INSTANCE ArrayList WITH list <- Lists

\* Every behaviour of the C code is one of the abstract lists: growth across
\* the marks, spare capacity, shrinking and the reuse of a shrunk tail never
\* disturb an element, except where a fixed list is extended.
ImplementsList == L!Spec

=============================================================================
