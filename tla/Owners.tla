------------------------------- MODULE Owners -------------------------------
(***************************************************************************)
(* A script with objects of Cregx and of Csu8 that share strings: what a   *)
(* Csu8 holds may be the pattern of a Cregx, and every count is lowered by *)
(* whichever object goes.                                                  *)
(***************************************************************************)
EXTENDS Cregx, Csu8, FiniteSets

vars == <<heap, user, cregxVars, csu8Vars>>

FreshString(s) ==
    /\ s \notin heap.live
    /\ user[s] = 0
    /\ \A o \in Re : cregx[o].expr # s
    /\ \A o \in U8 : target[o] # s
    /\ \A i \in It : iter[i].text # s

\* The script builds a string.
NewString(s) ==
    /\ FreshString(s)
    /\ heap' = Allocate(heap, s)
    /\ user' = [user EXCEPT ![s] = 1]
    /\ given' = given \ {s}
    /\ loaned' = loaned \ {s}
    /\ UNCHANGED <<cregx, taken, parted, target, refs, named, iter>>

Variables ==
    /\ \E v \in Val : CopyVar(v) \/ ForgetVar(v)
    /\ UNCHANGED <<cregxVars, csu8Vars>>

Init == ZvalInit /\ CregxInit /\ Csu8Init

Next ==
    /\ ~ heap.broken
    /\ \/ CregxNext /\ UNCHANGED csu8Vars
       \/ Csu8Next /\ UNCHANGED cregxVars
       \/ \E s \in Str : NewString(s)
       \/ Variables

Spec == Init /\ [][Next]_vars

-----------------------------------------------------------------------------
TypeOK == ZvalTypeOK /\ CregxTypeOK /\ Csu8TypeOK

\* Everyone who reads a string finds it allocated, script, object or iterator,
\* also an iterator whose object has been given another string meanwhile, as
\* long as no Cregx has given the string up as its pattern or read it after it
\* was freed, and __toString of Csu8 has not handed it out.
TextHeld ==
    ~ heap.broken =>
        \A s \in Str \ (given \cup loaned) :
            \/ user[s] > 0
            \/ \E o \in U8 : target[o] = s
            \/ \E i \in It : iter[i].text = s
            => s \in heap.live

\* An iterator's object is there, and everything that holds it is counted.
ObjectHeld ==
    \A o \in U8 :
        refs[o] = Cardinality({i \in It : iter[i].over = o})
                    + (IF o \in named THEN 1 ELSE 0)

=============================================================================
