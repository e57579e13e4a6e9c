-------------------------- MODULE MCPhizFunctions --------------------------
(***************************************************************************)
(* Patterns for TLC: every one of up to five of the characters that the    *)
(* loop tells apart, every one of up to three brackets in odd forms, and   *)
(* every one put together from up to three items.  Words for the case      *)
(* functions: every one of up to four letters, digits and separators.      *)
(***************************************************************************)
EXTENDS PhizFunctions, SequencesExt

MCChar == {"a", "b", "1", "{", "}", "(", ")", ":", ".", "|", "/", "\\"}
Chars == {"{", "}", "(", ")", ":", "a", "."}
UpTo(S, n) == UNION {[1..k -> S] : k \in 0..n}

Pieces ==
    {<<"{", "a", "}">>, <<"{", "a", ":", "b", "}">>,
     <<"{", "b", ":", "(", ".", ")", "}">>,    \* a bad item that leaves a type
     <<"{", ":", "}">>, <<"{", "{", "a", "}", "}">>, <<"{">>, <<"}">>,
     <<"\\", "(">>, <<")">>}

MCPatterns ==
    UpTo(Chars, 5) \cup UpTo({"\\", ".", "a", "("}, 3)
      \cup {FlattenSeq(pieces) : pieces \in UpTo(Pieces, 3)}

Items ==
    {Literal(<<"a", ".">>), Literal(<<".">>), Literal(<<"\\", ".", "|">>), Param(<<"a">>),
     Param(<<"b", "1">>), Typed(<<"a">>, <<"b">>), Typed(<<"b", "a">>, <<"1">>),
     Group(<<"a", "|", "b">>), Group(<<"{", "a", "}">>),
     Group(<<"(", "a", ")", ".">>)}

MCItemLists == UpTo(Items, 3) \ {<<>>}

MCUpperOf == [c \in {"a", "b"} |-> IF c = "a" THEN "A" ELSE "B"]
MCWords == UpTo({"a", "A", "B", "1", "_", "-"}, 4) \cup {<<"a", "Nul", "A">>}
MCSeps == {<<>>, <<"-">>, <<"-", "_">>, <<"b">>}

=============================================================================
