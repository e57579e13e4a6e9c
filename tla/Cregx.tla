-------------------------------- MODULE Cregx -------------------------------
(***************************************************************************)
(* Objects of the class Cregx (phiz_cregx.c): a pattern, and the captures  *)
(* of the last match.  The pattern is stored without taking a reference    *)
(* and released all the same; the captures of a match are given one        *)
(* reference in advance, for the one call of captures() that is expected.  *)
(*                                                                         *)
(* What a pattern matches is left out: a match gives an array of captures, *)
(* or fails because the pattern does not compile.                          *)
(***************************************************************************)
EXTENDS Zval

CONSTANT Re     \* identities of Cregx objects

VARIABLES
    cregx,      \* each object: is it there, its expr and its subpats
    taken,      \* history: how often captures() has returned each array: 0, 1
                \* or, for any more, 2
    given,      \* history: patterns released without having been counted
    parted      \* history: arrays whose object was freed with them in it

cregxVars == <<cregx, taken, given, parted>>
cregxHistory == <<taken, given, parted>>

Regex(e, p) == [live |-> TRUE, expr |-> e, subpats |-> p]
NoRegex == [live |-> FALSE, expr |-> Null, subpats |-> Null]

\* An array that is not in use and that nothing points to.
FreshArray(a) ==
    /\ a \notin heap.live
    /\ user[a] = 0
    /\ \A o \in Re : cregx[o].subpats # a

-----------------------------------------------------------------------------
\* __construct, on a new object or, called by hand, on an old one.
ConstructRegex(o, s) ==
    /\ CanPass(s)
    /\ cregx' = [cregx EXCEPT ![o] = Regex(s, @.subpats)]
    /\ heap' = Touch(heap, s)
    /\ UNCHANGED <<user, cregxHistory>>

SetExpr(o, s) ==
    /\ cregx[o].live
    /\ CanPass(s)
    /\ cregx' = [cregx EXCEPT ![o] = Regex(s, @.subpats)]
    /\ heap' = DelRef(Touch(heap, s), cregx[o].expr)
    /\ given' = given \cup ({cregx[o].expr} \cap Str)
    /\ UNCHANGED <<user, taken, parted>>

\* __toString takes a reference for the caller.
RegexToString(o) ==
    /\ cregx[o].live
    /\ Room(cregx[o].expr)
    /\ Returned(cregx[o].expr)
    /\ heap' = AddRef(heap, cregx[o].expr)
    /\ UNCHANGED cregxVars

\* match and clear first give up the captures of the match before.
WithoutCaptures(o) == PtrDtor(heap, cregx[o].subpats)

\* The pattern does not compile.
MatchFails(o) ==
    /\ cregx[o].live
    /\ heap' = TouchText(WithoutCaptures(o), cregx[o].expr)
    /\ cregx' = [cregx EXCEPT ![o].subpats = Null]
    /\ UNCHANGED <<user, cregxHistory>>

\* Mutant of Match: no reference is added for captures().
MatchUncounted(o, a) ==
    /\ cregx[o].live
    /\ FreshArray(a)
    /\ heap' = Allocate(TouchText(WithoutCaptures(o), cregx[o].expr), a)
    /\ cregx' = [cregx EXCEPT ![o].subpats = a]
    /\ taken' = [taken EXCEPT ![a] = 0]
    /\ parted' = parted \ {a}
    /\ UNCHANGED <<user, given>>

\* php_pcre_match_impl makes the array, and one more reference is added.
Match(o, a) ==
    /\ cregx[o].live
    /\ FreshArray(a)
    /\ LET compiled == TouchText(WithoutCaptures(o), cregx[o].expr)
       IN  heap' = AddRef(Allocate(compiled, a), a)
    /\ cregx' = [cregx EXCEPT ![o].subpats = a]
    /\ taken' = [taken EXCEPT ![a] = 0]
    /\ parted' = parted \ {a}
    /\ UNCHANGED <<user, given>>

\* captures hands out the array without a reference of its own.
Captures(o) ==
    /\ cregx[o].subpats \in Arr
    /\ Returned(cregx[o].subpats)
    /\ taken' = [taken EXCEPT ![cregx[o].subpats] = IF @ = 2 THEN 2 ELSE @ + 1]
    /\ UNCHANGED <<heap, cregx, given, parted>>

\* Mutant of Clear: the captures are forgotten, not released.
ClearForgets(o) ==
    /\ cregx[o].live
    /\ cregx' = [cregx EXCEPT ![o].subpats = Null]
    /\ UNCHANGED <<heap, user, cregxHistory>>

Clear(o) ==
    /\ cregx[o].live
    /\ heap' = WithoutCaptures(o)
    /\ cregx' = [cregx EXCEPT ![o].subpats = Null]
    /\ UNCHANGED <<user, cregxHistory>>

\* Mutant of CloneRegex: the fields of a new object are not set to null.
CloneRegexUnset(o, b) ==
    /\ cregx[o].live
    /\ ~ cregx[b].live
    /\ cregx' = [cregx EXCEPT ![b] = Regex(Undef, Undef)]
    /\ UNCHANGED <<heap, user, cregxHistory>>

\* phiz_cregx_new_ex sets the fields to null, and the copy constructor is empty.
CloneRegex(o, b) ==
    /\ cregx[o].live
    /\ ~ cregx[b].live
    /\ cregx' = [cregx EXCEPT ![b] = Regex(Null, Null)]
    /\ UNCHANGED <<heap, user, cregxHistory>>

\* phiz_cregx_free_storage lowers both counts and frees nothing.
FreeRegex(o) ==
    /\ cregx[o].live
    /\ heap' = DelRef(DelRef(heap, cregx[o].expr), cregx[o].subpats)
    /\ cregx' = [cregx EXCEPT ![o] = NoRegex]
    /\ given' = given \cup ({cregx[o].expr} \cap Str)
    /\ parted' = parted \cup ({cregx[o].subpats} \cap Arr)
    /\ UNCHANGED <<user, taken>>

-----------------------------------------------------------------------------
CregxInit ==
    /\ cregx = [o \in Re |-> NoRegex]
    /\ taken = [a \in Arr |-> 0]
    /\ given = {}
    /\ parted = {}

CregxNext ==
    \/ \E o \in Re, s \in Text : ConstructRegex(o, s)
    \/ \E o \in Re, s \in Text : SetExpr(o, s)
    \/ \E o \in Re : RegexToString(o)
    \/ \E o \in Re : MatchFails(o)
    \/ \E o \in Re, a \in Arr : Match(o, a)
    \/ \E o \in Re : Captures(o)
    \/ \E o \in Re : Clear(o)
    \/ \E o, b \in Re : CloneRegex(o, b)
    \/ \E o \in Re : FreeRegex(o)

CregxTypeOK ==
    /\ cregx \in [Re -> [live : BOOLEAN, expr : Text \cup {Null},
                         subpats : Arr \cup {Null}]]
    /\ taken \in [Arr -> 0..2]
    /\ given \subseteq Str
    /\ parted \subseteq Arr

\* The captures of the last match are there, for the object and for every
\* variable and copy, when captures() was called at most once for the match:
\* whatever is matched, cleared, set, cloned, freed and forgotten meanwhile.
CapturesValid ==
    \A a \in Arr :
        (user[a] > 0 \/ \E o \in Re : cregx[o].subpats = a) /\ taken[a] <= 1
        => a \in heap.live

\* No captures stay behind once nobody holds them, except where captures() was
\* never called for the match, or the object was freed with them in it.
CapturesReleased ==
    \A a \in heap.live \cap Arr :
        \/ user[a] > 0
        \/ \E o \in Re : cregx[o].subpats = a
        \/ taken[a] = 0
        \/ a \in parted

=============================================================================
