------------------------------- MODULE Ucode8 -------------------------------
(***************************************************************************)
(* The UTF-8 codec of src/ucode8.c.  A byte is a number from 0 to 255, a   *)
(* string the sequence of its bytes; masks and shifts are remainders and   *)
(* multiples of powers of 2.                                               *)
(***************************************************************************)
EXTENDS Integers, Sequences

CONSTANT INVALID_CHAR   \* (char32_t) -1, which is no code point

MaxCode == 1114111      \* 0x10FFFF

ASSUME InvalidCharAssumption ==
    /\ INVALID_CHAR \in Nat
    /\ INVALID_CHAR > MaxCode

Byte == 0..255
CodePoint == {d \in Nat : d <= MaxCode}

-----------------------------------------------------------------------------
(***************************************************************************)
(* Decoding.                                                               *)
(***************************************************************************)

\* How many bytes a first byte asks for; 1 when it starts nothing.
Width(lead) ==
    IF lead \in 194..223 THEN 2
    ELSE IF lead \in 224..239 THEN 3
    ELSE IF lead \in 240..244 THEN 4
    ELSE 1

\* The payload of a byte that is not the first; its top bits are not checked.
Low6(byte) == byte % 64

Two(s) == (s[1] % 32) * 64 + Low6(s[2])
Three(s) == ((s[1] % 16) * 64 + Low6(s[2])) * 64 + Low6(s[3])
Four(s) ==
    (((s[1] % 8) * 64 + Low6(s[2])) * 64 + Low6(s[3])) * 64 + Low6(s[4])

\* Mutant of InRange: ">=" for ">".
InRangeBelow(d) == IF d >= MaxCode THEN INVALID_CHAR ELSE d

\* A number past the last code point is none.
InRange(d) == IF d > MaxCode THEN INVALID_CHAR ELSE d

\* Mutant of Code: 0xC2 taken for a byte that starts nothing.
CodeFromC3(s, before) ==
    IF Len(s) = 0 \/ Len(s) < Width(s[1]) THEN INVALID_CHAR
    ELSE IF s[1] < 128        THEN s[1]
    ELSE IF s[1] \in 128..194 THEN before
    ELSE IF s[1] \in 195..223 THEN Two(s)
    ELSE IF s[1] \in 224..239 THEN Three(s)
    ELSE IF s[1] \in 240..244 THEN InRange(Four(s))
    ELSE INVALID_CHAR

\* What *uc holds when ucode8Fore returns, given what it held before: a byte
\* from 0x80 to 0xC1 in front leaves it as it was.
Code(s, before) ==
    IF Len(s) = 0 \/ Len(s) < Width(s[1]) THEN INVALID_CHAR
    ELSE IF s[1] < 128        THEN s[1]
    ELSE IF s[1] \in 128..193 THEN before
    ELSE IF s[1] \in 194..223 THEN Two(s)
    ELSE IF s[1] \in 224..239 THEN Three(s)
    ELSE IF s[1] \in 240..244 THEN InRange(Four(s))
    ELSE INVALID_CHAR

\* Mutant of Used: the end of the string is not looked at.
UsedPastEnd(s) == IF Len(s) = 0 THEN 0 ELSE Width(s[1])

\* Mutant of Used: a byte that starts nothing is not consumed.
UsedNone(s) ==
    IF Len(s) = 0 \/ Len(s) < Width(s[1]) THEN Len(s)
    ELSE IF s[1] \in 128..193 THEN 0 ELSE Width(s[1])

\* The bytes it consumed: never more than there are.
Used(s) ==
    IF Len(s) = 0 \/ Len(s) < Width(s[1]) THEN Len(s) ELSE Width(s[1])

ucode8Fore(s, before) == [uc |-> Code(s, before), units |-> Used(s)]

-----------------------------------------------------------------------------
(***************************************************************************)
(* Encoding.                                                               *)
(***************************************************************************)

\* A byte that continues a character: the six low bits of d.
Follow(d) == 128 + (d % 64)

\* Surrogates are encoded like any other number.
utf32_str8(d) ==
    IF d < 128 THEN <<d>>
    ELSE IF d < 2048 THEN <<192 + (d \div 64), Follow(d)>>
    ELSE IF d < 65536
      THEN <<224 + (d \div 4096), Follow(d \div 64), Follow(d)>>
    ELSE IF d > MaxCode THEN <<>>
    ELSE <<240 + (d \div 262144), Follow(d \div 4096), Follow(d \div 64),
           Follow(d)>>

=============================================================================
