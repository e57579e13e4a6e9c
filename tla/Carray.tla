------------------------------- MODULE Carray -------------------------------
(***************************************************************************)
(* Objects of the class Carray (phiz_carray.c) over the block of Garray,   *)
(* and the reference counts of the values a mixed array holds.             *)
(*                                                                         *)
(* Every method and handler of the class that changes state is one action; *)
(* PHP runs one at a time, in any order a script likes.  A call that only  *)
(* throws (an index out of range, a value of the wrong type for offsetSet) *)
(* changes nothing and is no step.                                         *)
(***************************************************************************)
EXTENDS Garray

CONSTANTS
    Obj,            \* identities of Carray objects
    Kinds,          \* which kinds of arrays the script makes
    CtorSizes,      \* sizes the script passes to the constructor
    Storable,       \* values a packed type accepts: right type and in range
    MaxSize,        \* bound on the size of an array
    MaxReserve,     \* bound on the argument of reserve
    MaxUser,        \* bound on the references a script holds on a value
    MaxRefs         \* bound on the reference count of a value

ASSUME CarrayAssumption ==
    /\ Kinds \subseteq Kind
    /\ CtorSizes \subseteq Nat
    /\ Storable \subseteq Value
    /\ MaxSize \in Nat
    /\ MaxReserve \in Nat
    /\ MaxUser \in Nat
    /\ MaxRefs \in Nat

VARIABLES
    arr,    \* the embedded array of each object, Gone where there is none
    rc,     \* reference count of each value
    user,   \* how many of those references are variables of the script
    ub      \* history: an uninitialised zval has been copied or released

vars == <<arr, rc, user, ub>>

\* An object that does not exist, and what its memory would hold.
Gone == EtypeCtor("gone")
Live(o) == arr[o].kind \in Kind

-----------------------------------------------------------------------------
(***************************************************************************)
(* Effects on the reference counts.                                        *)
(***************************************************************************)

\* Leaked references are never given back, so their number needs a bound.
Counted == \A v \in Value : rc'[v] <= MaxRefs

\* How many of the elements from .. to - 1 are v.
Occurs(g, from, to, v) ==
    Cardinality({i \in from..(to - 1) : g.slot[i] = v})

HasGarbage(g, from, to) == \E i \in from..(to - 1) : g.slot[i] = Garbage

\* dtor_elems: zval_dtor on each, which only the mixed type has.
Releases(g, from, to) ==
    IF Ctdt(g)
      THEN /\ rc' = [v \in Value |-> rc[v] - Occurs(g, from, to, v)]
           /\ ub' = (ub \/ HasGarbage(g, from, to))
      ELSE UNCHANGED <<rc, ub>>

\* copy_elems: ZVAL_COPY takes a reference on each.
Retains(g, from, to) ==
    IF Ctdt(g)
      THEN /\ rc' = [v \in Value |-> rc[v] + Occurs(g, from, to, v)]
           /\ Counted
           /\ ub' = (ub \/ HasGarbage(g, from, to))
      ELSE UNCHANGED <<rc, ub>>

\* A script that stores v in a mixed array has v in a variable.
CanPass(g, v) == Ctdt(g) => user[v] > 0

-----------------------------------------------------------------------------
(***************************************************************************)
(* The methods and handlers of Carray.                                     *)
(***************************************************************************)

\* __construct presumes the object holds nothing, even when it does.
Construct(o, k, n) ==
    /\ arr' = [arr EXCEPT ![o] = InitElems(PcaAlloc(EtypeCtor(k), n), 0, n)]
    /\ UNCHANGED <<rc, user, ub>>

Resize(o, n) ==
    /\ Live(o)
    /\ arr' = [arr EXCEPT ![o] = GenResize(arr[o], n)]
    /\ IF n < arr[o].size
         THEN Releases(arr[o], n, arr[o].size)
         ELSE UNCHANGED <<rc, ub>>
    /\ UNCHANGED user

Reserve(o, n) ==
    /\ Live(o)
    /\ arr' = [arr EXCEPT ![o] = PcaReserve(arr[o], n)]
    /\ UNCHANGED <<rc, user, ub>>

\* $a[] = v, pca_pushback: the array has grown when set_zval is asked, and
\* stays so when a packed type refuses the value.
Push(o, v) ==
    /\ Live(o)
    /\ arr[o].size < MaxSize
    /\ CanPass(arr[o], v)
    /\ LET i == arr[o].size
           g == GenResize(arr[o], i + 1)
       IN  IF Ctdt(g) \/ v \in Storable
             THEN arr' = [arr EXCEPT ![o] = Written(g, i, v)]
             ELSE arr' = [arr EXCEPT ![o] = g]
    /\ rc' = IF Ctdt(arr[o]) THEN [rc EXCEPT ![v] = @ + 1] ELSE rc
    /\ Counted
    /\ UNCHANGED <<user, ub>>

\* $a[i] = v, offsetSet: a mixed element is released, then overwritten.
SetElement(o, i, v) ==
    /\ Live(o)
    /\ i < arr[o].size
    /\ CanPass(arr[o], v)
    /\ Ctdt(arr[o]) \/ v \in Storable
    /\ arr' = [arr EXCEPT ![o] = Written(arr[o], i, v)]
    /\ IF Ctdt(arr[o])
         THEN /\ rc' = [w \in Value |->
                         (rc[w] - Occurs(arr[o], i, i + 1, w))
                            + (IF w = v THEN 1 ELSE 0)]
              /\ Counted
              /\ ub' = (ub \/ HasGarbage(arr[o], i, i + 1))
         ELSE UNCHANGED <<rc, ub>>
    /\ UNCHANGED user

\* $x = $a[i], offsetGet on a mixed array: the caller copies the zval.
ReadElement(o, i) ==
    /\ Live(o)
    /\ Ctdt(arr[o])
    /\ i < arr[o].size
    /\ \A v \in Value : arr[o].slot[i] = v => user[v] < MaxUser
    /\ user' = [v \in Value |-> user[v] + Occurs(arr[o], i, i + 1, v)]
    /\ Retains(arr[o], i, i + 1)
    /\ UNCHANGED arr

\* Mutant of UnsetElement: the value is released but not replaced by null.
UnsetElementDangling(o, i) ==
    /\ Live(o)
    /\ i < arr[o].size
    /\ Ctdt(arr[o])
    /\ Releases(arr[o], i, i + 1)
    /\ UNCHANGED <<arr, user>>

\* unset($a[i]): a mixed element becomes null, a packed one stays.
UnsetElement(o, i) ==
    /\ Live(o)
    /\ i < arr[o].size
    /\ Ctdt(arr[o])
    /\ arr' = [arr EXCEPT ![o] = InitElems(arr[o], i, i + 1)]
    /\ Releases(arr[o], i, i + 1)
    /\ UNCHANGED user

\* $b = $a->sub(from, len): everything from "from" on, whatever len is.
Sub(o, b, from) ==
    /\ Live(o)
    /\ ~ Live(b)
    /\ arr' = [arr EXCEPT ![b] =
                 IF from < arr[o].size THEN CopyCtor(arr[o], from)
                                       ELSE EtypeCtor(arr[o].kind)]
    /\ Retains(arr[o], from, arr[o].size)
    /\ UNCHANGED user

\* $b = clone $a
Clone(o, b) ==
    /\ Live(o)
    /\ ~ Live(b)
    /\ arr' = [arr EXCEPT ![b] = CopyCtor(arr[o], 0)]
    /\ Retains(arr[o], 0, arr[o].size)
    /\ UNCHANGED user

\* The last reference to the object goes: phiz_carray_free_storage gives the
\* block back and does not destroy the elements.
FreeStorage(o) ==
    /\ Live(o)
    /\ arr' = [arr EXCEPT ![o] = Gone]
    /\ UNCHANGED <<rc, user, ub>>

-----------------------------------------------------------------------------
(***************************************************************************)
(* The script's own variables.                                             *)
(***************************************************************************)
NewValue(v) ==
    /\ rc[v] = 0
    /\ user[v] = 0
    /\ rc' = [rc EXCEPT ![v] = 1]
    /\ user' = [user EXCEPT ![v] = 1]
    /\ Counted
    /\ UNCHANGED <<arr, ub>>

ForgetValue(v) ==
    /\ user[v] > 0
    /\ rc' = [rc EXCEPT ![v] = @ - 1]
    /\ user' = [user EXCEPT ![v] = @ - 1]
    /\ UNCHANGED <<arr, ub>>

-----------------------------------------------------------------------------
Init ==
    /\ arr = [o \in Obj |-> Gone]
    /\ rc = [v \in Value |-> 0]
    /\ user = [v \in Value |-> 0]
    /\ ub = FALSE

\* The elements of o that a script can name.
Index(o) == IF Live(o) THEN 0..(arr[o].size - 1) ELSE {}

Next ==
    \/ \E o \in Obj, k \in Kinds, n \in CtorSizes : Construct(o, k, n)
    \/ \E o \in Obj, n \in 0..MaxSize : Resize(o, n)
    \/ \E o \in Obj, n \in 0..MaxReserve : Reserve(o, n)
    \/ \E o \in Obj, v \in Value : Push(o, v)
    \/ \E o \in Obj : \E i \in Index(o), v \in Value : SetElement(o, i, v)
    \/ \E o \in Obj : \E i \in Index(o) : ReadElement(o, i)
    \/ \E o \in Obj : \E i \in Index(o) : UnsetElement(o, i)
    \/ \E o, b \in Obj, from \in 0..MaxSize : Sub(o, b, from)
    \/ \E o, b \in Obj : Clone(o, b)
    \/ \E o \in Obj : FreeStorage(o)
    \/ \E v \in Value : NewValue(v)
    \/ \E v \in Value : ForgetValue(v)

Spec == Init /\ [][Next]_vars

-----------------------------------------------------------------------------
(***************************************************************************)
(* Properties.                                                             *)
(***************************************************************************)

\* The variables have their types: an object is gone or a well-formed array.
TypeOK ==
    /\ arr = [o \in Obj |-> arr[o]]
    /\ \A o \in Obj : IsArray(arr[o]) \/ arr[o] = Gone
    /\ rc \in [Value -> Int]
    /\ user \in [Value -> Nat]
    /\ ub \in BOOLEAN

\* Whatever sequence of resize, reserve, push, clone and sub led here, every
\* index that passes the bounds checks of the handlers (index < head.size) is
\* inside the allocated block, and a nonzero capacity is the block's extent.
SizeWithinBlock == \A o \in Obj : Live(o) => ElementsInBlock(arr[o])

\* The slots of live mixed arrays that hold v.
HeldIn(v) ==
    UNION {{<<o, i>> : i \in {j \in DOMAIN arr[o].slot : arr[o].slot[j] = v}} :
              o \in {b \in Obj : Live(b) /\ Ctdt(arr[b])}}

\* As long as no uninitialised zval was touched, a value has at least as many
\* references as there are script variables and array elements that hold it:
\* resize, set, unset, clone and sub never release a reference twice, so no
\* element outlives its value.
RefsCovered ==
    ~ ub => \A v \in Value : rc[v] >= user[v] + Cardinality(HeldIn(v))

\* The elements that both arrays have and that differ.
Rewritten(g, h) ==
    {i \in DOMAIN g.slot \cap DOMAIN h.slot :
        i < g.size /\ i < h.size /\ g.slot[i] # h.slot[i]}

\* An array whose block was obtained through pca_reserve keeps its elements:
\* a step rewrites at most one element, and none when the size changes.
KeepsElements ==
    [][\A o \in Obj :
         Live(o) /\ arr[o].capacity > 0 /\ arr'[o].capacity > 0
         => /\ Cardinality(Rewritten(arr[o], arr'[o])) <= 1
            /\ arr[o].size # arr'[o].size => Rewritten(arr[o], arr'[o]) = {}]_vars

=============================================================================
