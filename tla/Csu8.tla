-------------------------------- MODULE Csu8 --------------------------------
(***************************************************************************)
(* Who holds what around a Csu8 (phiz_str8.c): the object its string, the  *)
(* iterators their object, and each iterator a bare pointer into the       *)
(* string its object had when the iterator was made.  What an iterator     *)
(* reads there is in Utf8Readers.                                          *)
(***************************************************************************)
EXTENDS Zval

CONSTANTS
    U8,         \* identities of Csu8 objects
    It          \* identities of iterators

ASSUME Csu8Assumption == Null \notin U8

VARIABLES
    target,     \* the string of each object, or Undef
    refs,       \* references on each object; 0 when it is not there
    named,      \* the objects that a variable of the script holds
    iter,       \* of each iterator: its object, or Null, and the text it reads
    loaned      \* history: the strings that __toString has returned

csu8Vars == <<target, refs, named, iter, loaned>>

NoIter == [over |-> Null, text |-> Null]

\* Whoever lets go of the last reference runs phiz_str8_free_storage, which
\* lowers the count of the string and frees nothing.
DropObject(o) ==
    /\ refs' = [refs EXCEPT ![o] = @ - 1]
    /\ IF refs[o] = 1
         THEN /\ heap' = DelRef(heap, target[o])
              /\ target' = [target EXCEPT ![o] = Undef]
         ELSE UNCHANGED <<heap, target>>

-----------------------------------------------------------------------------
\* phiz_str8_new: the string of a new object is Undef.
Created(o) ==
    /\ refs[o] = 0
    /\ refs' = [refs EXCEPT ![o] = 1]
    /\ named' = named \cup {o}

\* A constructor called by hand works on an object that has its string.
Old(o) ==
    /\ o \in named
    /\ UNCHANGED <<refs, named>>

\* Mutant of ConstructCsu8: ZVAL_STR, the string is not counted.
ConstructCsu8Uncounted(o, s) ==
    /\ Created(o) \/ Old(o)
    /\ CanPass(s)
    /\ target' = [target EXCEPT ![o] = s]
    /\ heap' = Touch(heap, s)
    /\ UNCHANGED <<user, iter, loaned>>

\* new Csu8(s), and __construct(s) called by hand on an object that has a
\* string already: that one is overwritten.
ConstructCsu8(o, s) ==
    /\ Created(o) \/ Old(o)
    /\ CanPass(s)
    /\ Room(s)
    /\ target' = [target EXCEPT ![o] = s]
    /\ heap' = AddRef(heap, s)
    /\ UNCHANGED <<user, iter, loaned>>

\* new Csu8, without an argument, and clone, which copies nothing.
ConstructEmpty(o) ==
    /\ Created(o)
    /\ UNCHANGED <<heap, user, target, iter, loaned>>

\* __toString returns the string without taking a reference.
Csu8ToString(o) ==
    /\ o \in named
    /\ Returned(target[o])
    /\ loaned' = loaned \cup ({target[o]} \cap Str)
    /\ UNCHANGED <<heap, target, refs, named, iter>>

\* Mutant of GetIterator: ZVAL_OBJ, the object is not counted.
GetIteratorUncounted(o, i) ==
    /\ o \in named
    /\ iter[i] = NoIter
    /\ heap' = TouchText(heap, target[o])
    /\ iter' = [iter EXCEPT ![i] = [over |-> o, text |-> target[o]]]
    /\ UNCHANGED <<user, target, refs, named, loaned>>

\* str8_get_iterator, for foreach and for getIterator.
GetIterator(o, i) ==
    /\ o \in named
    /\ iter[i] = NoIter
    /\ heap' = TouchText(heap, target[o])
    /\ iter' = [iter EXCEPT ![i] = [over |-> o, text |-> target[o]]]
    /\ refs' = [refs EXCEPT ![o] = @ + 1]
    /\ UNCHANGED <<user, target, named, loaned>>

\* rewind and next read the text through the pointer.
ReadText(i) ==
    /\ iter[i] # NoIter
    /\ heap' = Touch(heap, iter[i].text)
    /\ UNCHANGED <<user, csu8Vars>>

\* str8_quickit_dtor
DropIterator(i) ==
    /\ iter[i] # NoIter
    /\ iter' = [iter EXCEPT ![i] = NoIter]
    /\ DropObject(iter[i].over)
    /\ UNCHANGED <<user, named, loaned>>

\* unset of the variable that holds the object
DropVar(o) ==
    /\ o \in named
    /\ named' = named \ {o}
    /\ DropObject(o)
    /\ UNCHANGED <<user, iter, loaned>>

-----------------------------------------------------------------------------
Csu8Init ==
    /\ target = [o \in U8 |-> Undef]
    /\ refs = [o \in U8 |-> 0]
    /\ named = {}
    /\ iter = [i \in It |-> NoIter]
    /\ loaned = {}

Csu8Next ==
    \/ \E o \in U8, s \in Text : ConstructCsu8(o, s)
    \/ \E o \in U8 : ConstructEmpty(o)
    \/ \E o \in U8 : Csu8ToString(o)
    \/ \E o \in U8, i \in It : GetIterator(o, i)
    \/ \E i \in It : ReadText(i)
    \/ \E i \in It : DropIterator(i)
    \/ \E o \in U8 : DropVar(o)

Csu8TypeOK ==
    /\ target \in [U8 -> Text \cup {Undef}]
    /\ refs \in [U8 -> Nat]
    /\ named \subseteq U8
    /\ iter \in [It -> [over : U8 \cup {Null}, text : Text \cup {Null, Undef}]]
    /\ loaned \subseteq Str

=============================================================================
