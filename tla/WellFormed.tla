----------------------------- MODULE WellFormed -----------------------------
(***************************************************************************)
(* What UTF-8 text is, as the Unicode standard has it (table 3-7): the     *)
(* reference that the codec and the readers are measured against.  Nothing *)
(* here is translated from the code, which checks much less.               *)
(***************************************************************************)
EXTENDS Integers, Sequences, FiniteSets

Continuation == 128..191

\* The byte sequences that are a character.
IsCharacter(c) ==
    \/ Len(c) = 1 /\ c[1] \in 0..127
    \/ Len(c) = 2 /\ c[1] \in 194..223 /\ c[2] \in Continuation
    \/ /\ Len(c) = 3
       /\ \/ c[1] = 224 /\ c[2] \in 160..191
          \/ c[1] \in (225..236) \cup {238, 239} /\ c[2] \in Continuation
          \/ c[1] = 237 /\ c[2] \in 128..159
       /\ c[3] \in Continuation
    \/ /\ Len(c) = 4
       /\ \/ c[1] = 240 /\ c[2] \in 144..191
          \/ c[1] \in 241..243 /\ c[2] \in Continuation
          \/ c[1] = 244 /\ c[2] \in 128..143
       /\ c[3] \in Continuation
       /\ c[4] \in Continuation

\* The number a character stands for: its digits in base 64, less the marks
\* that tell a first byte from the others.
Scalar(c) ==
    IF Len(c) = 1 THEN c[1]
    ELSE IF Len(c) = 2 THEN (c[1] - 192) * 64 + (c[2] - 128)
    ELSE IF Len(c) = 3
      THEN ((c[1] - 224) * 64 + (c[2] - 128)) * 64 + (c[3] - 128)
    ELSE (((c[1] - 240) * 64 + (c[2] - 128)) * 64 + (c[3] - 128)) * 64
            + (c[4] - 128)

\* Where a text is cut into characters: at its ends and before each byte that
\* does not continue a character.
Cuts(s) ==
    {0, Len(s)} \cup {k \in 1..(Len(s) - 1) : s[k + 1] \notin Continuation}

\* The cut that follows the one at k, and what is between them.
After(s, k) ==
    CHOOSE m \in Cuts(s) : m > k /\ \A j \in Cuts(s) : j > k => m <= j

Character(s, k) == SubSeq(s, k + 1, After(s, k))

IsText(s) == \A k \in Cuts(s) \ {Len(s)} : IsCharacter(Character(s, k))

\* How many characters there are in front of a cut.
Place(s, k) == Cardinality({j \in Cuts(s) : j < k})

=============================================================================
