---------------------------- MODULE CarrayAccess ----------------------------
(***************************************************************************)
(* One Carray and the script that reads and writes its elements, through   *)
(* the handlers of phiz_carray.c: $a[i], isset, unset, count, $a[] = v and *)
(* the methods behind them, any of which a class may override; an iterator *)
(* made by getIterator; toArray; and destructors of the elements, which    *)
(* are script code that runs in the middle of an assignment.               *)
(*                                                                         *)
(* The block is that of Garray.  The array has been made empty and resized *)
(* (a block that the constructor made is lost by the first growth: that is *)
(* in Carray).                                                             *)
(***************************************************************************)
EXTENDS Garray, CastTables

CONSTANTS
    Arrays,         \* [type, class] of the arrays a script makes
    Passed(_),      \* values that it stores in an array of a type
    Offsets,        \* values that it uses as an index
    MaxSize         \* bound on the size of the array

Method == {"get", "set", "has", "del", "count"}

VARIABLES
    arr, type,
    class,      \* of each method: "inherited", "own" or "parent", a method of
                \* the script that calls the one it overrides
    call,       \* the access under way
    answer,     \* what the last one came to
    pending,    \* an assignment whose destructor is running
    it,         \* the iterator
    list,       \* history: the value that was last written to each element
    broken      \* history: undefined behaviour; nothing more is modelled

vars == <<arr, type, class, call, answer, pending, it, list, broken>>

\* Answers that are no values of elements.
Special(what) == [is |-> what, n |-> 0]
Thrown == Special("thrown")
Void == Special("void")
Own == Special("own")           \* what a method of the script returned
Unknown == Special("unknown")   \* what was in memory
Bool(b) == Special(IF b THEN "TRUE" ELSE "FALSE")

Long(n) == [is |-> "LONG", n |-> n]

\* What a script has: a LONG has 64 bits.
IsValue(z) ==
    /\ z = [is |-> z.is, n |-> z.n]
    /\ z \notin {Blank, Garbage, Unknown}
    /\ z.is \in {"LONG", "DOUBLE"} => z.n \in Int
    /\ z.is = "LONG" => - Half("int64") <= z.n /\ z.n < Half("int64")

ASSUME AccessAssumption ==
    /\ MaxSize \in Nat
    /\ \A made \in Arrays : made.type \in Type
    /\ \A off \in Offsets : off.n \in Int
    /\ \A t \in Type : \A z \in Passed(t) : IsValue(z)
    /\ \A c \in {Blank, Garbage} : c \notin Int /\ c # Initial("mixed")

-----------------------------------------------------------------------------
\* phiz_offset_convert_to_long
ToLong(off) ==
    IF off.is \in {"LONG", "DOUBLE", "STRING"} THEN off.n
    ELSE IF off.is = "TRUE" THEN 1
    ELSE IF off.is = "FALSE" THEN 0
    ELSE -1

InRange(index) == index >= 0 /\ index < arr.size

\* get_zval on an element, or on what is behind them.
Element(t, g, index) ==
    IF index \notin DOMAIN g.slot \/ g.slot[index] = Garbage THEN Unknown
    ELSE IF g.slot[index] = Blank THEN Initial(t)
    ELSE Loaded(t, g.slot[index])

\* Mutant of Overrides: inherited methods count as overridden.
OverridesAll == Method

\* phiz_carray_new_ex keeps a pointer to each method that is not its own.
Overrides == {m \in Method : class[m] # "inherited"}

-----------------------------------------------------------------------------
(***************************************************************************)
(* An access goes to a handler.                                            *)
(***************************************************************************)
NoCall == [op |-> "none", off |-> Void, val |-> Void, at |-> "none"]

MethodOf(op) ==
    CASE op = "read"                -> "get"
      [] op \in {"isread", "isset"} -> "has"
      [] op \in {"write", "append"} -> "set"
      [] op = "unset"               -> "del"
      [] op = "count"               -> "count"
      [] op = "none"                -> "none"

Ask(op, off, val) ==
    /\ call = NoCall
    /\ call' = [op |-> op, off |-> off, val |-> val, at |-> "handler"]
    /\ answer' = Void
    /\ UNCHANGED <<arr, type, class, pending, it, list, broken>>

Answered(a) == call' = NoCall /\ answer' = a

InHandler(op) ==
    /\ call.op = op
    /\ call.at = "handler"
    /\ MethodOf(op) \notin Overrides

\* The handler calls the method of the object's class, for $a[] = v with null
\* as the index.
ToMethod ==
    /\ call.at = "handler"
    /\ MethodOf(call.op) \in Overrides
    /\ call' = IF call.op = "append"
                 THEN [call EXCEPT !.op = "write", !.off = Special("NULL"),
                                   !.at = "method"]
                 ELSE [call EXCEPT !.at = "method"]
    /\ UNCHANGED <<arr, type, class, answer, pending, it, list, broken>>

\* A method of the script that answers by itself.
OwnMethod ==
    /\ call.at = "method"
    /\ class[MethodOf(call.op)] = "own"
    /\ IF call.op = "isread"
         THEN \/ Answered(Special("NULL"))
              \/ call' = [call EXCEPT !.op = "read", !.at = "handler"]
                 /\ UNCHANGED answer
         ELSE Answered(Own)
    /\ UNCHANGED <<arr, type, class, pending, it, list, broken>>

\* offsetGet, offsetSet and offsetExists of Carray, called by the method that
\* overrides them, go to the handler; offsetUnset does nothing, and count counts.
ParentMethod ==
    /\ call.at = "method"
    /\ class[MethodOf(call.op)] # "own"
    /\ IF call.op = "unset" THEN Answered(Void)
       ELSE IF call.op = "count" THEN Answered(Long(arr.size))
       ELSE call' = [call EXCEPT !.at = "handler"] /\ UNCHANGED answer
    /\ UNCHANGED <<arr, type, class, pending, it, list, broken>>

-----------------------------------------------------------------------------
(***************************************************************************)
(* The handlers, when nothing is overridden.                               *)
(***************************************************************************)
Index == ToLong(call.off)

ReadDimension ==
    /\ InHandler("read")
    /\ Answered(IF InRange(Index) THEN Element(type, arr, Index) ELSE Thrown)
    /\ UNCHANGED <<arr, type, class, pending, it, list, broken>>

\* BP_VAR_IS, as in $a[i] ?? v: offsetExists is asked first.
IsReadDimension ==
    /\ InHandler("isread")
    /\ IF InRange(Index)
         THEN call' = [call EXCEPT !.op = "read"] /\ UNCHANGED answer
         ELSE Answered(Special("NULL"))
    /\ UNCHANGED <<arr, type, class, pending, it, list, broken>>

HasDimension ==
    /\ InHandler("isset")
    /\ Answered(Bool(InRange(Index)))
    /\ UNCHANGED <<arr, type, class, pending, it, list, broken>>

CountElements ==
    /\ InHandler("count")
    /\ Answered(Long(arr.size))
    /\ UNCHANGED <<arr, type, class, pending, it, list, broken>>

-----------------------------------------------------------------------------
(***************************************************************************)
(* Writing.  In a mixed array the value that was there is released before  *)
(* the new one takes its place.  If that was its last reference, and it is *)
(* an object with a destructor, the script runs before the assignment ends *)
(* (one destructor at a time: a bound).                                    *)
(***************************************************************************)
NoPending == [at |-> -1, val |-> Void, stale |-> FALSE]

ListOf(n, fresh) ==
    [i \in 0..(n - 1) |-> IF i < arr.size THEN list[i] ELSE fresh]

Noted(l, index, val) == [l EXCEPT ![index] = val]

\* The element whose old value is being destroyed is released again.
Again(index) == pending # NoPending /\ index = pending.at

MayDestroy(index) ==
    /\ pending = NoPending
    /\ arr.slot[index] \notin {Blank, Garbage}
    /\ arr.slot[index].is = "OBJECT"
    /\ \A j \in 0..(arr.size - 1) :
          j # index => arr.slot[j] # arr.slot[index]

\* zval_ptr_dtor, then the new value: nothing, or a destructor, comes between.
Replace(index, cell, val) ==
    \/ /\ MayDestroy(index)
       /\ pending' = [at |-> index, val |-> val, stale |-> FALSE]
       /\ call' = NoCall
       /\ UNCHANGED <<arr, list, broken, answer>>
    \/ /\ broken' = Again(index)
       /\ Answered(Void)
       /\ arr' = Written(arr, index, cell)
       /\ list' = Noted(list, index, val)
       /\ UNCHANGED pending

WriteDimension ==
    /\ InHandler("write")
    /\ IF ~ InRange(Index) \/ SetError(type, call.val) # "OK"
         THEN Answered(Thrown) /\ UNCHANGED <<arr, pending, list, broken>>
       ELSE IF type = "mixed" THEN Replace(Index, call.val, call.val)
       ELSE /\ Answered(Void)
            /\ arr' = Written(arr, Index, Stored(type, call.val))
            /\ list' = Noted(list, Index, call.val)
            /\ UNCHANGED <<pending, broken>>
    /\ UNCHANGED <<type, class, it>>

\* dtor_elems on one element leaves a null; a number stays as it is.
UnsetDimension ==
    /\ InHandler("unset")
    /\ IF ~ InRange(Index)
         THEN Answered(Thrown) /\ UNCHANGED <<arr, pending, list, broken>>
       ELSE IF type = "mixed" THEN Replace(Index, Blank, Initial(type))
       ELSE Answered(Void) /\ UNCHANGED <<arr, pending, list, broken>>
    /\ UNCHANGED <<type, class, it>>

\* The destructor returns, and the assignment goes on at the address that it
\* had before.
DestructorEnds ==
    /\ pending # NoPending
    /\ call = NoCall
    /\ IF pending.stale
         THEN broken' = TRUE /\ UNCHANGED <<arr, list>>
         ELSE /\ arr' = Written(arr, pending.at, pending.val)
              /\ list' = Noted(list, pending.at, pending.val)
              /\ UNCHANGED broken
    /\ pending' = NoPending
    /\ answer' = Void
    /\ UNCHANGED <<type, class, call, it>>

\* Growing may move the block.
Moves(g) == [pending EXCEPT !.stale =
               @ \/ (pending # NoPending /\ g.capacity # arr.capacity)]

\* pca_pushback: the array stays longer when the value is refused.
WriteAppended ==
    /\ InHandler("append")
    /\ arr.size < MaxSize
    /\ LET g == GenResize(arr, arr.size + 1)
           accepted == SetError(type, call.val) = "OK"
       IN  /\ arr' = IF accepted THEN Written(g, arr.size, Stored(type, call.val))
                                 ELSE g
           /\ list' = ListOf(g.size, IF accepted THEN call.val ELSE Unknown)
           /\ pending' = Moves(g)
           /\ Answered(IF accepted THEN Void ELSE Thrown)
    /\ UNCHANGED <<type, class, it, broken>>

\* resize, where no destructor runs for what is cut off.  What valid() has said
\* counts as long as the iterator's element is not.
Resize(n) ==
    /\ call = NoCall
    /\ LET g == GenResize(arr, n)
       IN  /\ arr' = g
           /\ list' = ListOf(g.size, IF Ctdt(arr) THEN Initial(type) ELSE Unknown)
           /\ pending' = Moves(g)
           /\ broken' = \E i \in g.size..(arr.size - 1) : Ctdt(arr) /\ Again(i)
    /\ it' = [it EXCEPT !.checked = @ /\ it.current < n]
    /\ answer' = Void
    /\ UNCHANGED <<type, class, call>>

\* toArray copies the local item, which get_zval of a mixed array does not set.
ToArray ==
    /\ call = NoCall
    /\ answer' = [is |-> "array",
                  items |-> [i \in 0..(arr.size - 1) |->
                               IF Ctdt(arr) THEN Unknown
                                            ELSE Element(type, arr, i)]]
    /\ UNCHANGED <<arr, type, class, call, pending, it, list, broken>>

-----------------------------------------------------------------------------
(***************************************************************************)
(* An iterator in the hands of the script: an InternalIterator of the      *)
(* engine, which rewinds it before its first use and checks nothing.       *)
(***************************************************************************)
NoIterator == [there |-> FALSE, current |-> 0, checked |-> FALSE]

\* Mutant of Valid: the end is taken for an element.
ValidThrough == it.current >= 0 /\ it.current <= arr.size

Valid == it.current >= 0 /\ it.current < arr.size

Iterator(next, a) ==
    /\ call = NoCall
    /\ it' = next
    /\ answer' = a
    /\ UNCHANGED <<arr, type, class, call, pending, list>>

GetIterator ==
    /\ Iterator([there |-> TRUE, current |-> 0, checked |-> FALSE], Void)
    /\ UNCHANGED broken

ItValid ==
    /\ it.there
    /\ Iterator([it EXCEPT !.checked = Valid], Bool(Valid))
    /\ UNCHANGED broken

ItNext ==
    /\ it.there
    /\ it.current < MaxSize
    /\ Iterator([it EXCEPT !.current = @ + 1, !.checked = FALSE], Void)
    /\ UNCHANGED broken

ItRewind ==
    /\ it.there
    /\ Iterator([it EXCEPT !.current = 0, !.checked = FALSE], Void)
    /\ UNCHANGED broken

\* The bounds check of current is commented out.
ItCurrent ==
    /\ it.there
    /\ Iterator(it, Element(type, arr, it.current))
    /\ broken' = (it.current \notin DOMAIN arr.slot)

ItKey == it.there /\ Iterator(it, Long(it.current)) /\ UNCHANGED broken

-----------------------------------------------------------------------------
Init ==
    /\ \E made \in Arrays : type = made.type /\ class = made.class
    /\ \E n \in 0..MaxSize :
          /\ arr = GenResize(EtypeCtor(IF type = "mixed" THEN "mixed"
                                                         ELSE "packed"), n)
          /\ list = [i \in 0..(n - 1) |->
                       IF type = "mixed" THEN Initial(type) ELSE Unknown]
    /\ call = NoCall
    /\ answer = Void
    /\ pending = NoPending
    /\ it = NoIterator
    /\ broken = FALSE

\* The engine goes on with the access.
Answering ==
    \/ ToMethod \/ OwnMethod \/ ParentMethod
    \/ ReadDimension \/ IsReadDimension \/ HasDimension \/ CountElements
    \/ WriteDimension \/ UnsetDimension \/ WriteAppended

Asking ==
    \/ \E op \in {"read", "isread", "isset", "unset"}, off \in Offsets :
          Ask(op, off, Void)
    \/ \E off \in Offsets, val \in Passed(type) : Ask("write", off, val)
    \/ arr.size < MaxSize /\ \E val \in Passed(type) : Ask("append", Void, val)
    \/ Ask("count", Void, Void)

Next ==
    /\ ~ broken
    /\ \/ Asking
       \/ Answering
       \/ DestructorEnds
       \/ \E n \in 0..MaxSize : Resize(n)
       \/ ToArray
       \/ GetIterator \/ ItValid \/ ItNext \/ ItRewind \/ ItCurrent \/ ItKey

Spec == Init /\ [][Next]_vars /\ WF_vars(~ broken /\ Answering)

-----------------------------------------------------------------------------
(***************************************************************************)
(* Properties.                                                             *)
(***************************************************************************)

\* Every element gives the value that was last written to it, by whatever index,
\* through the bytes of its type: exactly, or for a float the nearest one.  So
\* does an element whose old value is being destroyed, and all others, when a
\* destructor reads them; undefined behaviour aside, which takes a destructor
\* that releases the same element again or makes the block move.
Gives(t, x, v) ==
    IF t = "float" THEN x.is = v.is /\ x.n - v.n \in -1..1 /\ x.n % 2 = 0
    ELSE x = v

Agree(t, g, l) ==
    \A i \in 0..(g.size - 1) : l[i] # Unknown => Gives(t, Element(t, g, i), l[i])

ReadsBack == ~ broken => Agree(type, arr, list)

\* Whoever asks an iterator whether it is valid before each fetch, and again
\* when the array has been resized to end before its element, never reads behind
\* the elements and gets what was written, however often the array grows, shrinks
\* and is assigned to between the two steps.
CheckedFetch ==
    [][(ItCurrent /\ it.checked) =>
          /\ ~ broken'
          /\ list[it.current] # Unknown => Gives(type, answer', list[it.current])]_vars

\* An access comes to an end, unless it goes to a method of the script that
\* calls the one it overrides.
AccessEnds ==
    (call # NoCall) ~>
        (call = NoCall \/ \E m \in {"get", "set", "has"} : class[m] = "parent")

\* "Returns the value at the specified $index", says the comment on offsetGet
\* (phiz_carray.c:465): reading an element comes to an end.  A class whose
\* offsetGet calls parent::offsetGet is called by it again, without end.
GetReturns == (call.op = "read") ~> (call = NoCall)

=============================================================================
