----------------------------- MODULE ArrayList -----------------------------
(***************************************************************************)
(* What the class Carray promises a script, without blocks and capacities: *)
(* a set of lists.  A list can be extended, cut, and changed one element   *)
(* at a time; nothing else disturbs its elements.                          *)
(*                                                                         *)
(* The promise has one reservation.  A list that was made with elements in *)
(* it (by the constructor, clone or sub) is fixed: the first attempt to    *)
(* extend it or to reserve room for it loses what it holds.                *)
(***************************************************************************)
EXTENDS Integers

CONSTANTS Obj, Value, Blank, Garbage

VARIABLE list   \* of each object: its kind, length, elements, and whether
                \* it is fixed; kind "gone" when there is no such object

Slot == Value \cup {Blank, Garbage}

List(k, x, n, f) == [kind |-> k, fixed |-> x, len |-> n, item |-> f]

\* A list made with n elements in it.
Fresh(k, n, f) == List(k, n > 0, n, f)

Gone == Fresh("gone", 0, [i \in {} |-> Garbage])
Live(o) == list[o].kind # "gone"

-----------------------------------------------------------------------------
Make(o, k, n) ==
    list' = [list EXCEPT ![o] = Fresh(k, n, [i \in 0..(n - 1) |-> Blank])]

Discard(o) ==
    /\ Live(o)
    /\ list' = [list EXCEPT ![o] = Gone]

\* b becomes a list of the elements of o from position "from" on.
CopyTail(o, b, from) ==
    /\ Live(o)
    /\ ~ Live(b)
    /\ from \in 0..list[o].len
    /\ LET n == list[o].len - from
       IN  list' = [list EXCEPT ![b] =
                      Fresh(list[o].kind, n,
                            [i \in 0..(n - 1) |-> list[o].item[from + i]])]

\* Longer, with every old element in place.  Elements added to a mixed list
\* are null; those added to a packed list are whatever the memory held.
Extend(o, n, f) ==
    /\ Live(o)
    /\ ~ list[o].fixed
    /\ n > list[o].len
    /\ f \in [0..(n - 1) -> Slot]
    /\ \A i \in 0..(n - 1) :
          \/ i < list[o].len /\ f[i] = list[o].item[i]
          \/ i >= list[o].len /\ list[o].kind = "packed"
          \/ i >= list[o].len /\ f[i] = Blank
    /\ list' = [list EXCEPT ![o] = List(@.kind, FALSE, n, f)]

Append(o, v) ==
    /\ Live(o)
    /\ ~ list[o].fixed
    /\ list' = [list EXCEPT ![o] =
                  List(@.kind, FALSE, @.len + 1,
                       [i \in 0..(@.len) |->
                          IF i = @.len THEN v ELSE @.item[i]])]

\* A packed list is never cut to nothing.
Truncate(o, n) ==
    /\ Live(o)
    /\ n < list[o].len
    /\ n = 0 => list[o].kind = "mixed"
    /\ list' = [list EXCEPT ![o] =
                  List(@.kind, @.fixed /\ n > 0, n,
                       [i \in 0..(n - 1) |-> @.item[i]])]

Replace(o, i, v) ==
    /\ Live(o)
    /\ list' = [list EXCEPT ![o].item[i] = v]

\* The reservation: a fixed list loses its elements when room is made for it.
Forget(o, n, f) ==
    /\ Live(o)
    /\ list[o].fixed
    /\ n >= list[o].len
    /\ f \in [0..(n - 1) -> Slot]
    /\ \A i \in 0..(list[o].len - 1) : f[i] = Garbage
    /\ list' = [list EXCEPT ![o] = List(@.kind, FALSE, n, f)]

-----------------------------------------------------------------------------
Init == list = [o \in Obj |-> Gone]

\* The length and the elements a step gives to o.
Len1(o) == list'[o].len
Items1(o) == list'[o].item

Next ==
    \/ \E o \in Obj, k \in {"packed", "mixed"} : Make(o, k, Len1(o))
    \/ \E o \in Obj : Discard(o)
    \/ \E o, b \in Obj : CopyTail(o, b, list[o].len - Len1(b))
    \/ \E o \in Obj : Extend(o, Len1(o), Items1(o))
    \/ \E o \in Obj, v \in Value : Append(o, v)
    \/ \E o \in Obj : Truncate(o, Len1(o))
    \/ \E o \in Obj, v \in Value \cup {Blank} :
          \E i \in 0..(list[o].len - 1) : Replace(o, i, v)
    \/ \E o \in Obj : Forget(o, Len1(o), Items1(o))

Spec == Init /\ [][Next]_list

=============================================================================
