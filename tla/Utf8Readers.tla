----------------------------- MODULE Utf8Readers ----------------------------
(***************************************************************************)
(* The three readers of UTF-8 the extension gives a script, over one text: *)
(* the iterator of a Csu8 object, a Csu32 object made from the text, and   *)
(* str_utf8c, called at one offset after the other as the token reader of  *)
(* tomlparser.php does.  A script uses them in any order.                  *)
(***************************************************************************)
EXTENDS Str8, Garray, WellFormed

CONSTANTS
    Texts,          \* the texts a script reads, as sequences of bytes
    Stale,          \* what an uninitialised char32_t may hold
    Pushed,         \* codes a script appends to a Csu32 object
    MaxCodes        \* bound on the size of a Csu32 object

ASSUME ReadersAssumption ==
    /\ Texts \subseteq Seq(Byte)
    /\ Value \subseteq Nat         \* char32_t
    /\ Pushed \subseteq Value
    /\ \A s \in Texts : \A n \in 0..Len(s) :
          Code(From(s, n), INVALID_CHAR) \in Value \cup {INVALID_CHAR}
    /\ MaxCodes \in Nat

VARIABLES
    text,           \* the string; nothing changes it
    cursor,         \* str8 of the iterator over the Csu8 object
    rewind_called,  \* the iterator has been put on the first character
    codes,          \* the array of the Csu32 object, Unmade before it exists
    out,            \* what its __toString returned last
    index,          \* offset of the next call of str_utf8c
    code            \* the code the last call of it gave

vars == <<text, cursor, rewind_called, codes, out, index, code>>
csu8 == <<cursor, rewind_called>>
csu32 == <<codes, out>>
walker == <<index, code>>

-----------------------------------------------------------------------------
(***************************************************************************)
(* Csu8: an iterator, driven by foreach or by its methods.                 *)
(***************************************************************************)
OnFirst == phiz_str8_move(Rewound, text)

Rewind ==
    /\ cursor' = OnFirst
    /\ rewind_called' = TRUE
    /\ UNCHANGED <<text, csu32, walker>>

\* Zend rewinds an iterator before it is used for the first time.
MoveForward ==
    /\ cursor' = phiz_str8_move(IF rewind_called THEN cursor ELSE OnFirst, text)
    /\ rewind_called' = TRUE
    /\ UNCHANGED <<text, csu32, walker>>

-----------------------------------------------------------------------------
(***************************************************************************)
(* Csu32.                                                                  *)
(***************************************************************************)

Unmade == EtypeCtor("unmade")
Made == codes # Unmade

Appended(g, v) == Written(GenResize(g, g.size + 1), g.size, v)

\* The loop of the constructor: the cursor and the array after n rounds.  A
\* move that fails ends the loop, and would fail again.
Filled(s) ==
    LET round[n \in 0..Len(s)] ==
          IF n = 0 THEN [str8 |-> Rewound, gen |-> EtypeCtor("packed")]
          ELSE LET before == round[n - 1]
                   c == phiz_str8_move(before.str8, s)
                   g == before.gen
               IN  [str8 |-> c,
                    gen |-> IF phiz_str8_valid(c, s) THEN Appended(g, c.ucode)
                                                     ELSE g]
    IN  round[Len(s)].gen

\* Called again, the constructor begins again with an empty array.
Csu32(s) ==
    /\ codes' = Filled(s)
    /\ UNCHANGED <<text, csu8, out, walker>>

Push(v) ==
    /\ Made
    /\ codes.size < MaxCodes
    /\ codes' = Appended(codes, v)
    /\ UNCHANGED <<text, csu8, out, walker>>

\* The codes that __toString prints: those before the first it cannot encode.
Encodable(g) ==
    {n \in 0..g.size : \A i \in 0..(n - 1) : utf32_str8(g.slot[i]) # <<>>}

\* Mutant of Printed: what cannot be encoded is skipped.
PrintedSkipping(g) ==
    LET str[n \in 0..g.size] ==
          IF n = 0 THEN <<>> ELSE str[n - 1] \o utf32_str8(g.slot[n - 1])
    IN  str[g.size]

Printed(g) ==
    LET str[n \in Encodable(g)] ==
          IF n = 0 THEN <<>> ELSE str[n - 1] \o utf32_str8(g.slot[n - 1])
    IN  str[CHOOSE n \in Encodable(g) : \A m \in Encodable(g) : m <= n]

toString ==
    /\ Made
    /\ out' = Printed(codes)
    /\ UNCHANGED <<text, csu8, codes, walker>>

-----------------------------------------------------------------------------
(***************************************************************************)
(* str_utf8c.  The variable it decodes into is not initialised.            *)
(***************************************************************************)
str_utf8c ==
    /\ index < Len(text)
    /\ \E stale \in Stale :
         LET r == ucode8Fore(From(text, index), stale)
         IN  /\ code' = r.uc
             /\ index' = index + r.units
    /\ UNCHANGED <<text, csu8, csu32>>

-----------------------------------------------------------------------------
Init ==
    /\ text \in Texts
    /\ cursor = Rewound
    /\ rewind_called = FALSE
    /\ codes = Unmade
    /\ out = <<>>
    /\ index = 0
    /\ code = 0

Next ==
    \/ Rewind
    \/ MoveForward
    \/ Csu32(text)
    \/ \E v \in Pushed : Push(v)
    \/ toString
    \/ str_utf8c

\* The token reader goes on until it is at the end of the text.
Spec == Init /\ [][Next]_vars /\ WF_vars(str_utf8c)

-----------------------------------------------------------------------------
(***************************************************************************)
(* Properties.                                                             *)
(***************************************************************************)
\* The variables have the types of their declarations, and the block of the
\* Csu32 object has room for the codes it counts.
TypeOK ==
    /\ text \in Texts
    /\ cursor = Cursor(cursor.current, cursor.next, cursor.ucode)
    /\ rewind_called \in BOOLEAN
    /\ codes = Unmade \/ (IsArray(codes) /\ ElementsInBlock(codes))
    /\ out \in Seq(Byte)
    /\ code \in CodePoint \cup {INVALID_CHAR} \cup Stale

\* No reader ever has an offset past the end of the text, whatever its last
\* bytes ask for, and the iterator hands out nothing but code points.
OffsetsInside ==
    /\ cursor.current \in -1..Len(text)
    /\ cursor.next \in 0..Len(text)
    /\ cursor.ucode \in CodePoint \cup {INVALID_CHAR}
    /\ index \in 0..Len(text)

\* On a text in UTF-8 the iterator is always on a character, with its code and
\* with the offset after it as its key; it stops at the end and nowhere else.
ReadsText ==
    (rewind_called /\ IsText(text)) =>
        \/ /\ phiz_str8_valid(cursor, text)
           /\ cursor.current \in Cuts(text)
           /\ cursor.next = After(text, cursor.current)
           /\ cursor.ucode = Scalar(Character(text, cursor.current))
        \/ /\ ~ phiz_str8_valid(cursor, text)
           /\ cursor.current = Len(text)

\* Whatever the text, moving forward goes to the byte after the character read
\* last, never back and never over one; and an iterator that has stopped stays
\* where it is until it is rewound.
NextFollows ==
    [][(MoveForward /\ rewind_called) =>
          /\ cursor'.current = cursor.next
          /\ phiz_str8_valid(cursor', text) => cursor'.next > cursor.next
          /\ (~ phiz_str8_valid(cursor, text)) => cursor' = cursor]_vars

\* A Csu32 made from a text in UTF-8 begins with the characters of the text,
\* through every growth of its block.
HoldsText ==
    (Made /\ IsText(text)) =>
        /\ codes.size >= Place(text, Len(text))
        /\ \A k \in Cuts(text) \ {Len(text)} :
              codes.slot[Place(text, k)] = Scalar(Character(text, k))

\* Whatever the Csu32 object was made from, what it prints, read again, gives
\* its codes up to the first that is no code point.
PrintsWhatItHolds ==
    [][toString =>
          LET again == Filled(out')
          IN  /\ again.size <= codes.size
              /\ \A i \in 0..(again.size - 1) : again.slot[i] = codes.slot[i]
              /\ again.size < codes.size =>
                    codes.slot[again.size] \notin CodePoint]_vars

\* On a text in UTF-8 the token reader is always between two characters and
\* never sees the code of an earlier call.
WalksText ==
    IsText(text) =>
        /\ index \in Cuts(text)
        /\ index > 0 =>
              \E k \in Cuts(text) :
                 /\ k < index
                 /\ After(text, k) = index
                 /\ code = Scalar(Character(text, k))

\* The token reader comes to the end of every text, well-formed or not.
WalkEnds == <>(index = Len(text))

=============================================================================
