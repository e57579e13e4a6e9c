---------------------------- MODULE CarrayClaims ----------------------------
(***************************************************************************)
(* What the comments and assertions of the source say of Carray and the    *)
(* code does not do.  Each is refuted by a run of its own.                 *)
(***************************************************************************)
EXTENDS Carray

Freed(o) == Live(o) /\ arr'[o] = Gone

\* pca_is_empty asserts, whenever an array is freed, that an array with a
\* block has elements.  An array can keep a block and no elements: reserve
\* before the first push, or a mixed array resized to 0 after the constructor.
FreeAsserts ==
    [][\A o \in Obj : Freed(o) =>
          (arr[o].elements = "block") = (arr[o].size > 0)]_vars

\* ctdt says that the elements of the type must be destroyed.  Freeing the
\* array would release every value in it; it releases none.
FreeDestroysElements ==
    [][\A o \in Obj : Freed(o) /\ Ctdt(arr[o]) =>
          \A v \in Value :
             rc'[v] = rc[v] - Occurs(arr[o], 0, arr[o].size, v)]_vars

=============================================================================
