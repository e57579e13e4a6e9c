--------------------------- MODULE MCUtf8Readers ---------------------------
(***************************************************************************)
(* Texts for TLC: every string of up to two bytes that stand for the       *)
(* ranges the decoder tells apart, every string of up to three of the      *)
(* bytes that begin a character of each length, every sequence of up to    *)
(* two of the first and last characters of each length, and ill-formed     *)
(* sequences of four bytes.                                                *)
(***************************************************************************)
EXTENDS Utf8Readers, SequencesExt

Bytes == {65, 128, 191, 194, 224, 237, 240, 244, 255}

Leads == {65, 128, 194, 224, 240}

UpTo(S, n) == UNION {[1..k -> S] : k \in 0..n}

Chars == {<<0>>, <<127>>, <<194, 128>>, <<223, 191>>, <<224, 160, 128>>,
          <<237, 159, 191>>, <<238, 128, 128>>, <<239, 191, 191>>,
          <<240, 144, 128, 128>>, <<244, 143, 191, 191>>}

IllFormed == {<<240, 128, 128, 128>>,   \* a longer form than needed
              <<244, 144, 128, 128>>,   \* past the last code point
              <<245, 128, 128, 128>>,   \* no first byte at all
              <<240, 144, 128, 65>>}    \* 65 read as a continuation

MCTexts ==
    UpTo(Bytes, 2) \cup UpTo(Leads, 3) \cup IllFormed
      \cup {FlattenSeq(characters) : characters \in UpTo(Chars, 2)}

MCPushed == {MaxCode, MaxCode + 1}

\* Every number the decoder can find in one of the texts.
MCValue ==
    MCPushed \cup
      UNION {{Code(From(t, k), 0) : k \in 0..(Len(t) - 1)} : t \in MCTexts}

MCMarks == <<1, 2>>

=============================================================================
