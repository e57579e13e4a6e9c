------------------------------- MODULE StrCase -------------------------------
(***************************************************************************)
(* str_camel and str_uncamel of php_phiz.c, and a script that calls one of *)
(* them and gives the result to the other, as tests/006.phpt does.  A      *)
(* character is a string of length 1, or Nul; each round of a loop is an   *)
(* action.                                                                 *)
(***************************************************************************)
EXTENDS Integers, Sequences

CONSTANTS
    UpperOf,    \* the capital of each small letter in use
    Nul,        \* the zero byte
    Words,      \* the words that a script passes
    Seps        \* the separators it passes, <<>> for none

Character == STRING
Small == DOMAIN UpperOf
Capital == {UpperOf[c] : c \in Small}

ASSUME LettersAssumption ==
    /\ Small \cap Capital = {}
    /\ \A c, d \in Small : UpperOf[c] = UpperOf[d] => c = d
    /\ Small \cup Capital \cup {Nul, "_"} \subseteq Character
    /\ Nul \notin Small \cup Capital \cup {"1"}
    /\ Words \cup Seps \subseteq Seq(Character)

VARIABLES
    word, sep,  \* history: what the script passed to the first call
    first,      \* history: the function it called first
    todo,       \* the calls that are not finished, the one under way in front
    src,        \* the argument of that call
    i,          \* characters of it that the loop has passed
    found,      \* phiz_camel: a separator was just passed, or nothing was
    out         \* the result so far

caseVars == <<word, sep, first, todo, src, i, found, out>>

toupper(c) == IF c \in Small THEN UpperOf[c] ELSE c
tolower(c) ==
    IF c \in Capital THEN CHOOSE s \in Small : UpperOf[s] = c ELSE c

\* phiz_uncamel uses the first character of the separator, phiz_camel all.
sepch == IF sep = <<>> THEN "_" ELSE sep[1]
psep ==
    IF sep = <<>> THEN {"_", "-"} ELSE {sep[k] : k \in 1..Len(sep)}

Calling(f) == todo # <<>> /\ todo[1] = f
Cur == src[i + 1]

Pass(chars) ==
    /\ i' = i + 1
    /\ out' = out \o chars
    /\ UNCHANGED <<word, sep, first, todo, src>>

-----------------------------------------------------------------------------
UncamelChar ==
    /\ Calling("uncamel")
    /\ i < Len(src)
    /\ Cur # Nul
    /\ Pass(IF Cur \notin Capital THEN <<Cur>>
               ELSE IF i > 0 THEN <<sepch, tolower(Cur)>>
               ELSE <<tolower(Cur)>>)
    /\ UNCHANGED found

CamelSeparator ==
    /\ Calling("camel")
    /\ i < Len(src)
    /\ Cur \in psep
    /\ Pass(<<>>)
    /\ found' = TRUE

\* Mutant of CamelChar: the flag is not taken back.
CamelCharFound ==
    /\ Calling("camel")
    /\ i < Len(src)
    /\ Cur \notin psep
    /\ Pass(<<IF found THEN toupper(Cur) ELSE tolower(Cur)>>)
    /\ UNCHANGED found

CamelChar ==
    /\ Calling("camel")
    /\ i < Len(src)
    /\ Cur \notin psep
    /\ Pass(<<IF found THEN toupper(Cur) ELSE tolower(Cur)>>)
    /\ found' = FALSE

\* The loop is at the end of the string, or phiz_uncamel at a zero byte; the
\* script gives the result to the next call.
CaseReturn ==
    /\ todo # <<>>
    /\ \/ i = Len(src)
       \/ i < Len(src) /\ Calling("uncamel") /\ Cur = Nul
    /\ todo' = Tail(todo)
    /\ IF Len(todo) = 1
         THEN UNCHANGED <<src, i, found, out>>
         ELSE src' = out /\ i' = 0 /\ found' = TRUE /\ out' = <<>>
    /\ UNCHANGED <<word, sep, first>>

-----------------------------------------------------------------------------
NoCase ==
    /\ word = <<>> /\ sep = <<>> /\ src = <<>> /\ out = <<>>
    /\ todo = <<>> /\ first = "none"
    /\ i = 0
    /\ found = TRUE

CaseInit ==
    /\ word \in Words
    /\ sep \in Seps
    /\ todo \in {<<"camel", "uncamel">>, <<"uncamel", "camel">>}
    /\ first = todo[1]
    /\ src = word
    /\ i = 0
    /\ found = TRUE
    /\ out = <<>>

CaseNext == UncamelChar \/ CamelSeparator \/ CamelChar \/ CaseReturn

-----------------------------------------------------------------------------
Letter == Small \cup Capital \cup {"1"}
Within(chars) == \A k \in 1..Len(word) : word[k] \in chars

\* A word in capitals style: no separators, and no small letter in front.
IsCamel ==
    /\ Within(Letter)
    /\ word # <<>> => word[1] \notin Small

\* A word in separator style: small letters and digits, and single separators
\* between them, with a letter behind each.
IsUncamel ==
    /\ Within((Letter \ Capital) \cup {sepch})
    /\ \A k \in 1..Len(word) :
          word[k] = sepch => k > 1 /\ k < Len(word) /\ word[k + 1] \in Small

\* A word in the style that the first call takes apart comes back unchanged
\* from the second, with any separator that is no letter or digit, given to both.
ComesBack ==
    /\ todo = <<>>
    /\ first = "uncamel" => IsCamel
    /\ first = "camel" => IsUncamel
    /\ psep \cap Letter = {}
    => out = word

=============================================================================
