-------------------------- MODULE Utf8ReadersProofs -------------------------
(***************************************************************************)
(* What the codec does for every string of bytes and every code point, and *)
(* that the readers stay inside the text, go forward, and read well-formed *)
(* text as the Unicode standard has it, for every text.                    *)
(***************************************************************************)
EXTENDS Utf8Readers, GarrayProofs, SequenceTheorems, FiniteSetTheorems

-----------------------------------------------------------------------------
(***************************************************************************)
(* The codec.                                                              *)
(***************************************************************************)
\* The decoder never takes a byte that is not there, and takes at least one
\* of a string that is not empty: a reader that adds the result to its offset
\* stays inside the string and moves on.
THEOREM DecodeStaysInside ==
    ASSUME NEW s \in Seq(Byte)
    PROVE  /\ Used(s) \in 0..Len(s)
           /\ Len(s) > 0 => Used(s) > 0
  BY SMT DEF Used, Width

LEMMA WidthByLead ==
    /\ \A b \in 0..127 : Width(b) = 1
    /\ \A b \in 194..223 : Width(b) = 2
    /\ \A b \in 224..239 : Width(b) = 3
    /\ \A b \in 240..244 : Width(b) = 4
  BY SMT DEF Width

LEMMA TwoInRange ==
    ASSUME NEW a \in 194..223, NEW b \in Byte
    PROVE  (a % 32) * 64 + (b % 64) \in CodePoint
  BY SMT DEF Byte, CodePoint, MaxCode

LEMMA ThreeInRange ==
    ASSUME NEW a \in 224..239, NEW b \in Byte, NEW c \in Byte
    PROVE  ((a % 16) * 64 + (b % 64)) * 64 + (c % 64) \in CodePoint
  BY SMT DEF Byte, CodePoint, MaxCode

LEMMA FourInRange ==
    ASSUME NEW a \in 240..244, NEW b \in Byte, NEW c \in Byte, NEW e \in Byte
    PROVE  InRange((((a % 8) * 64 + (b % 64)) * 64 + (c % 64)) * 64 + (e % 64))
             \in CodePoint \cup {INVALID_CHAR}
<1> DEFINE d == (((a % 8) * 64 + (b % 64)) * 64 + (c % 64)) * 64 + (e % 64)
<1>1. d \in Nat
  BY SMT DEF Byte
<1> HIDE DEF d
<1>2. InRange(d) \in CodePoint \cup {INVALID_CHAR}
  BY <1>1, SMT DEF InRange, CodePoint, MaxCode
<1>3. QED
  BY <1>2 DEF d

\* Whatever the bytes are, well-formed or not, what comes back is a code
\* point, INVALID_CHAR or what was there before.
THEOREM DecodeInRange ==
    ASSUME NEW s \in Seq(Byte), NEW before
    PROVE  Code(s, before) \in CodePoint \cup {INVALID_CHAR, before}
<1>1. \A i \in 1..Len(s) : s[i] \in Byte
  BY ElementOfSeq
<1>2. Len(s) \in Nat
  BY LenProperties
<1>3. \A b \in Byte : b \in Nat /\ (b < 128 => b \in CodePoint)
  BY SMT DEF Byte, CodePoint, MaxCode
<1>4. CASE Len(s) = 0 \/ Len(s) < Width(s[1])
  BY <1>4, SMT DEF Code
<1>5. CASE ~ (Len(s) = 0 \/ Len(s) < Width(s[1]))
  <2>1. s[1] \in Byte
    BY <1>1, <1>2, <1>5, SMT
  <2>2. ASSUME s[1] \in 194..223 PROVE Two(s) \in CodePoint
    <3>1. s[2] \in Byte
      BY <1>1, <1>2, <1>5, <2>2, SMT DEF Width
    <3>2. QED
      BY <2>2, <3>1, TwoInRange DEF Two, Low6
  <2>3. ASSUME s[1] \in 224..239 PROVE Three(s) \in CodePoint
    <3>1. Width(s[1]) = 3
      BY <2>3, WidthByLead
    <3>2. s[2] \in Byte /\ s[3] \in Byte
      BY <1>1, <1>2, <1>5, <3>1, SMT
    <3>3. QED
      BY <2>3, <3>2, ThreeInRange DEF Three, Low6
  <2>4. ASSUME s[1] \in 240..244
        PROVE  InRange(Four(s)) \in CodePoint \cup {INVALID_CHAR}
    <3>1. Width(s[1]) = 4
      BY <2>4, WidthByLead
    <3>2. s[2] \in Byte /\ s[3] \in Byte /\ s[4] \in Byte
      BY <1>1, <1>2, <1>5, <3>1, SMT
    <3>3. QED
      BY <2>4, <3>2, FourInRange DEF Four, Low6
  <2>5. s[1] < 128 => s[1] \in CodePoint
    BY <1>3, <2>1
  <2>6. CASE s[1] < 128
    <3>1. Code(s, before) = s[1]
      BY <1>5, <2>6, Zenon DEF Code
    <3> QED  BY <2>5, <2>6, <3>1, Zenon
  <2>7. CASE ~ (s[1] < 128)
    <3>1. Code(s, before) =
            IF s[1] \in 128..193      THEN before
            ELSE IF s[1] \in 194..223 THEN Two(s)
            ELSE IF s[1] \in 224..239 THEN Three(s)
            ELSE IF s[1] \in 240..244 THEN InRange(Four(s))
            ELSE INVALID_CHAR
      BY <1>5, <2>7, Zenon DEF Code
    <3> QED  BY <2>2, <2>3, <2>4, <3>1
  <2>8. QED
    BY <2>6, <2>7
<1>6. QED
  BY <1>4, <1>5

\* Encoding a code point and decoding it again gives it back, with no byte
\* left over.
THEOREM RoundTrip ==
    ASSUME NEW d \in CodePoint, NEW before
    PROVE  ucode8Fore(utf32_str8(d), before)
             = [uc |-> d, units |-> Len(utf32_str8(d))]
<1>0. d \in Nat /\ d <= 1114111
  BY SMT DEF CodePoint, MaxCode
<1>1. CASE d < 128
  <2>1. utf32_str8(d) = <<d>>
    BY <1>1, SMT DEF utf32_str8
  <2>2. QED
    BY <1>0, <1>1, <2>1, SMT DEF ucode8Fore, Code, Used, Width
<1>2. CASE ~ (d < 128) /\ d < 2048
  <2> DEFINE a == 192 + (d \div 64)
             b == Follow(d)
  <2>1. utf32_str8(d) = <<a, b>>
    BY <1>2, SMT DEF utf32_str8
  <2>2. /\ a \in 194..223
        /\ b \in Nat
        /\ (a % 32) * 64 + (b % 64) = d
    BY <1>0, <1>2, SMT DEF Follow
  <2> HIDE DEF a, b
  <2>3. Two(<<a, b>>) = d
    BY <2>2, SMT DEF Two, Low6
  <2>4. QED
    BY <2>1, <2>2, <2>3, SMT DEF ucode8Fore, Code, Used, Width
<1>3. CASE ~ (d < 128) /\ ~ (d < 2048) /\ d < 65536
  <2> DEFINE a == 224 + (d \div 4096)
             b == Follow(d \div 64)
             c == Follow(d)
  <2>1. utf32_str8(d) = <<a, b, c>>
    BY <1>3, SMT DEF utf32_str8
  <2>2. a \in 224..239 /\ b \in Nat /\ c \in Nat
    BY <1>0, <1>3, SMT DEF Follow
  <2>3. a % 16 = d \div 4096 /\ b % 64 = (d \div 64) % 64 /\ c % 64 = d % 64
    BY <1>0, <1>3, SMT DEF Follow
  <2>4. ((d \div 4096) * 64 + ((d \div 64) % 64)) * 64 + (d % 64) = d
    BY <1>0, SMT
  <2> HIDE DEF a, b, c
  <2>5. Three(<<a, b, c>>) = d
    BY <2>3, <2>4, SMT DEF Three, Low6
  <2>6. QED
    BY <2>1, <2>2, <2>5, SMT DEF ucode8Fore, Code, Used, Width
<1>4. CASE ~ (d < 128) /\ ~ (d < 2048) /\ ~ (d < 65536)
  <2> DEFINE a == 240 + (d \div 262144)
             b == Follow(d \div 4096)
             c == Follow(d \div 64)
             e == Follow(d)
  <2>1. ~ (d > MaxCode)
    BY <1>0, SMT DEF MaxCode
  <2>2. utf32_str8(d) = <<a, b, c, e>>
    BY <1>4, <2>1, SMT DEF utf32_str8
  <2>3. a \in 240..244 /\ b \in Nat /\ c \in Nat /\ e \in Nat
    BY <1>0, <1>4, SMT DEF Follow
  <2>4. /\ a % 8 = d \div 262144
        /\ b % 64 = (d \div 4096) % 64
        /\ c % 64 = (d \div 64) % 64
        /\ e % 64 = d % 64
    BY <1>0, <1>4, SMT DEF Follow
  <2>5. (((d \div 262144) * 64 + ((d \div 4096) % 64)) * 64
            + ((d \div 64) % 64)) * 64 + (d % 64) = d
    BY <1>0, SMT
  <2> HIDE DEF a, b, c, e
  <2>6. Four(<<a, b, c, e>>) = d
    BY <2>4, <2>5, SMT DEF Four, Low6
  <2>7. InRange(d) = d
    BY <2>1, SMT DEF InRange
  <2>8. QED
    BY <2>2, <2>3, <2>6, <2>7, SMT DEF ucode8Fore, Code, Used, Width
<1>5. QED
  BY <1>1, <1>2, <1>3, <1>4

-----------------------------------------------------------------------------
(***************************************************************************)
(* The readers.                                                            *)
(***************************************************************************)
\* A text cut at an offset is a text, as long as what is left.
LEMMA RestOfText ==
    ASSUME NEW s \in Seq(Byte), NEW n \in 0..Len(s)
    PROVE  /\ From(s, n) \in Seq(Byte)
           /\ Len(From(s, n)) = Len(s) - n
<1>1. n + 1 \in 1..(Len(s) + 1) /\ Len(s) \in 0..Len(s)
  BY LenProperties, SMT
<1>2. QED
  BY <1>1, SubSeqProperties, SMT DEF From

\* What a decoder finds at an offset, and how far that takes a reader.
LEMMA DecodeAt ==
    ASSUME NEW s \in Seq(Byte), NEW n \in 0..Len(s), NEW before
    PROVE  LET r == ucode8Fore(From(s, n), before)
           IN  /\ r.units \in Nat
               /\ n + r.units \in 0..Len(s)
               /\ r.uc \in CodePoint \cup {INVALID_CHAR, before}
<1> DEFINE rest == From(s, n)
<1>1. rest \in Seq(Byte) /\ Len(rest) = Len(s) - n
  BY RestOfText
<1> HIDE DEF rest
<1>2. Used(rest) \in 0..Len(rest)
  BY <1>1, DecodeStaysInside
<1>3. Code(rest, before) \in CodePoint \cup {INVALID_CHAR, before}
  BY <1>1, DecodeInRange
<1>4. Used(rest) \in Nat /\ n + Used(rest) \in 0..Len(s)
  BY <1>1, <1>2, LenProperties, SMT
<1>5. QED
  BY <1>3, <1>4 DEF ucode8Fore, rest

LEMMA CursorFields ==
    ASSUME NEW c, NEW n, NEW u
    PROVE  /\ Cursor(c, n, u).current = c
           /\ Cursor(c, n, u).next = n
           /\ Cursor(c, n, u).ucode = u
  BY DEF Cursor

CursorInside(c, s) ==
    /\ c.current \in -1..Len(s)
    /\ c.next \in 0..Len(s)
    /\ c.ucode \in CodePoint \cup {INVALID_CHAR}

LEMMA RewoundInside ==
    ASSUME NEW s \in Seq(Byte)
    PROVE  CursorInside(Rewound, s)
  BY LenProperties, SMT DEF CursorInside, Rewound, Cursor

LEMMA MoveInside ==
    ASSUME NEW s \in Seq(Byte), NEW c, CursorInside(c, s)
    PROVE  CursorInside(phiz_str8_move(c, s), s)
<1> DEFINE r == ucode8Fore(From(s, c.next), INVALID_CHAR)
<1>1. c.next \in 0..Len(s)
  BY DEF CursorInside
<1>2. /\ r.units \in Nat
      /\ c.next + r.units \in 0..Len(s)
      /\ r.uc \in CodePoint \cup {INVALID_CHAR}
  BY <1>1, DecodeAt, Zenon
<1>3. phiz_str8_move(c, s) =
        IF r.units > 0 /\ r.uc # INVALID_CHAR
          THEN Cursor(c.next, c.next + r.units, r.uc)
          ELSE Cursor(c.next, c.next, INVALID_CHAR)
  BY DEF phiz_str8_move
<1> HIDE DEF r
<1>4. c.next \in -1..Len(s)
  BY <1>1, LenProperties, SMT
<1>5. CASE r.units > 0 /\ r.uc # INVALID_CHAR
  <2>1. phiz_str8_move(c, s) = Cursor(c.next, c.next + r.units, r.uc)
    BY <1>3, <1>5
  <2>2. QED
    BY <1>2, <1>4, <2>1, CursorFields DEF CursorInside
<1>6. CASE ~ (r.units > 0 /\ r.uc # INVALID_CHAR)
  <2>1. phiz_str8_move(c, s) = Cursor(c.next, c.next, INVALID_CHAR)
    BY <1>3, <1>6
  <2>2. QED
    BY <1>1, <1>4, <2>1, CursorFields DEF CursorInside
<1>7. QED
  BY <1>5, <1>6

-----------------------------------------------------------------------------
Inside ==
    /\ text \in Seq(Byte)
    /\ OffsetsInside

LEMMA InsideInit == Init => Inside
<1> SUFFICES ASSUME Init PROVE Inside
  OBVIOUS
<1>1. text \in Seq(Byte)
  BY ReadersAssumption DEF Init
<1>2. CursorInside(cursor, text) /\ index \in 0..Len(text)
  BY <1>1, RewoundInside, LenProperties, SMT DEF Init
<1>3. QED
  BY <1>1, <1>2 DEF Inside, OffsetsInside, CursorInside

LEMMA InsideNext == Inside /\ [Next]_vars => Inside'
<1> SUFFICES ASSUME Inside, [Next]_vars PROVE Inside'
  OBVIOUS
<1>1. /\ text \in Seq(Byte)
      /\ CursorInside(cursor, text)
      /\ index \in 0..Len(text)
  BY DEF Inside, OffsetsInside, CursorInside
<1>2. CursorInside(OnFirst, text)
  BY <1>1, RewoundInside, MoveInside DEF OnFirst
<1>3. SUFFICES /\ text' = text
               /\ CursorInside(cursor', text)
               /\ index' \in 0..Len(text)
  BY <1>1 DEF Inside, OffsetsInside, CursorInside
<1>4. CASE Rewind
  BY <1>1, <1>2, <1>4 DEF Rewind, walker
<1>5. CASE MoveForward
  <2>1. CursorInside(phiz_str8_move(IF rewind_called THEN cursor ELSE OnFirst,
                                    text), text)
    BY <1>1, <1>2, MoveInside
  <2>2. QED
    BY <1>1, <1>5, <2>1 DEF MoveForward, walker
<1>6. CASE Csu32(text)
  BY <1>1, <1>6 DEF Csu32, csu8, walker
<1>7. CASE \E v \in Pushed : Push(v)
  BY <1>1, <1>7 DEF Push, csu8, walker
<1>8. CASE toString
  BY <1>1, <1>8 DEF toString, csu8, walker
<1>9. CASE str_utf8c
  <2>1. PICK stale \in Stale :
          index' = index + ucode8Fore(From(text, index), stale).units
    BY <1>9 DEF str_utf8c
  <2>2. index + ucode8Fore(From(text, index), stale).units \in 0..Len(text)
    BY <1>1, DecodeAt, Zenon
  <2>3. QED
    BY <1>1, <1>9, <2>1, <2>2 DEF str_utf8c, csu8
<1>10. CASE UNCHANGED vars
  BY <1>1, <1>10 DEF vars
<1>11. QED
  BY <1>4, <1>5, <1>6, <1>7, <1>8, <1>9, <1>10 DEF Next

\* For every set of texts, well-formed or not, no reader leaves its text.
THEOREM ReadersInside == Spec => []OffsetsInside
<1>1. Inside => OffsetsInside
  BY DEF Inside
<1>2. QED
  BY InsideInit, InsideNext, <1>1, PTL DEF Spec

-----------------------------------------------------------------------------
\* A move reads a character, or a second one would change nothing.
LEMMA MoveSettles ==
    ASSUME NEW s \in Seq(Byte), NEW c, CursorInside(c, s)
    PROVE  LET m == phiz_str8_move(c, s)
           IN  /\ m.current = c.next
               /\ phiz_str8_valid(m, s) => m.next > c.next
               /\ phiz_str8_valid(m, s) \/ phiz_str8_move(m, s) = m
<1> DEFINE m == phiz_str8_move(c, s)
           r == ucode8Fore(From(s, c.next), INVALID_CHAR)
<1>1. c.next \in 0..Len(s) /\ Len(s) \in Nat
  BY LenProperties DEF CursorInside
<1>2. /\ r.units \in Nat
      /\ c.next + r.units \in 0..Len(s)
  BY <1>1, DecodeAt, Zenon
<1>3. CASE r.units > 0 /\ r.uc # INVALID_CHAR
  <2>1. m = Cursor(c.next, c.next + r.units, r.uc)
    BY <1>3 DEF phiz_str8_move
  <2>2. m.current = c.next /\ m.next = c.next + r.units /\ m.ucode = r.uc
    BY <2>1, CursorFields
  <2> HIDE DEF m, r
  <2>3. c.next >= 0 /\ c.next < Len(s) /\ c.next + r.units > c.next
    BY <1>1, <1>2, <1>3, SMT
  <2>4. phiz_str8_valid(m, s) /\ m.next > c.next
    BY <1>3, <2>2, <2>3 DEF phiz_str8_valid
  <2>5. QED
    BY <2>2, <2>4 DEF m
<1>4. CASE ~ (r.units > 0 /\ r.uc # INVALID_CHAR)
  <2>1. m = Cursor(c.next, c.next, INVALID_CHAR)
    BY <1>4 DEF phiz_str8_move
  <2>2. m.current = c.next /\ m.next = c.next /\ m.ucode = INVALID_CHAR
    BY <2>1, CursorFields
  <2>3. ~ phiz_str8_valid(m, s)
    BY <2>2 DEF phiz_str8_valid
  <2>4. phiz_str8_move(m, s) = Cursor(c.next, c.next, INVALID_CHAR)
    BY <1>4, <2>2 DEF phiz_str8_move
  <2>5. QED
    BY <2>1, <2>2, <2>3, <2>4
<1>5. QED
  BY <1>3, <1>4

\* Once rewound, the iterator is on a character or has stopped for good.
Settled ==
    rewind_called =>
        phiz_str8_valid(cursor, text) \/ phiz_str8_move(cursor, text) = cursor

LEMMA SettledNext == Inside /\ Settled /\ [Next]_vars => Settled'
<1> SUFFICES ASSUME Inside, Settled, [Next]_vars PROVE Settled'
  OBVIOUS
<1>1. text \in Seq(Byte) /\ CursorInside(cursor, text)
  BY DEF Inside, OffsetsInside, CursorInside
<1>2. CursorInside(Rewound, text) /\ CursorInside(OnFirst, text)
  BY <1>1, RewoundInside, MoveInside DEF OnFirst
<1>3. ASSUME NEW c, CursorInside(c, text), text' = text,
             cursor' = phiz_str8_move(c, text)
      PROVE  Settled'
  BY <1>1, <1>3, MoveSettles DEF Settled
<1>4. CASE Rewind
  BY <1>2, <1>3, <1>4 DEF Rewind, OnFirst
<1>5. CASE MoveForward
  BY <1>1, <1>2, <1>3, <1>5 DEF MoveForward
<1>6. CASE UNCHANGED <<text, csu8>>
  BY <1>6 DEF Settled, csu8
<1>7. Rewind \/ MoveForward \/ UNCHANGED <<text, csu8>>
  BY DEF Next, Csu32, Push, toString, str_utf8c, vars, csu8
<1>8. QED
  BY <1>4, <1>5, <1>6, <1>7

\* For every set of texts the iterator goes from each character to the byte
\* after it, and stays where it has stopped.
THEOREM ReaderGoesForward == Spec => NextFollows
<1> DEFINE Forward ==
      (MoveForward /\ rewind_called) =>
          /\ cursor'.current = cursor.next
          /\ phiz_str8_valid(cursor', text) => cursor'.next > cursor.next
          /\ (~ phiz_str8_valid(cursor, text)) => cursor' = cursor
<1>1. Init => Settled
  BY DEF Init, Settled
<1>2. Inside /\ Settled => Forward
  <2> SUFFICES ASSUME Inside, Settled, MoveForward, rewind_called
               PROVE  /\ cursor'.current = cursor.next
                      /\ phiz_str8_valid(cursor', text) =>
                            cursor'.next > cursor.next
                      /\ (~ phiz_str8_valid(cursor, text)) => cursor' = cursor
    OBVIOUS
  <2>1. text \in Seq(Byte) /\ CursorInside(cursor, text)
    BY DEF Inside, OffsetsInside, CursorInside
  <2>2. cursor' = phiz_str8_move(cursor, text)
    BY DEF MoveForward
  <2>3. QED
    BY <2>1, <2>2, MoveSettles DEF Settled
<1>3. QED
  BY InsideInit, InsideNext, SettledNext, <1>1, <1>2, PTL DEF Spec, NextFollows

-----------------------------------------------------------------------------
(***************************************************************************)
(* Well-formed text.                                                       *)
(***************************************************************************)

\* From each cut but the last one leads to the next.
LEMMA NextCut ==
    ASSUME NEW s \in Seq(Byte), NEW k \in Cuts(s) \ {Len(s)}
    PROVE  /\ k \in 0..(Len(s) - 1)
           /\ After(s, k) \in Cuts(s)
           /\ After(s, k) \in (k + 1)..Len(s)
           /\ \A j \in Cuts(s) : j > k => After(s, k) <= j
<1> DEFINE S == {m \in Cuts(s) : m > k}
<1>1. Len(s) \in Nat
  BY LenProperties
<1>2. Cuts(s) \subseteq 0..Len(s) /\ Len(s) \in Cuts(s)
  BY <1>1 DEF Cuts
<1>3. k \in 0..(Len(s) - 1)
  BY <1>1, <1>2
<1>4. S \in SUBSET Nat /\ S # {}
  BY <1>1, <1>2, <1>3
<1>5. PICK m \in S : \A j \in S : m <= j
  BY <1>4, LeastElement
<1>6. m \in Cuts(s) /\ m > k /\ \A j \in Cuts(s) : j > k => m <= j
  BY <1>5
<1> HIDE DEF S
<1>7. /\ After(s, k) \in Cuts(s) /\ After(s, k) > k
      /\ \A j \in Cuts(s) : j > k => After(s, k) <= j
  BY <1>6 DEF After
<1> QED  BY <1>1, <1>2, <1>3, <1>7

\* The bytes of a character are those of the text.
LEMMA CharacterBytes ==
    ASSUME NEW s \in Seq(Byte), NEW k \in Cuts(s) \ {Len(s)}
    PROVE  LET c == Character(s, k)
           IN  /\ c \in Seq(Byte)
               /\ Len(c) = After(s, k) - k
               /\ Len(c) <= Len(From(s, k))
               /\ \A i \in 1..Len(c) : c[i] = From(s, k)[i]
<1>1. /\ k \in 0..(Len(s) - 1) /\ After(s, k) \in (k + 1)..Len(s)
      /\ Len(s) \in Nat
  BY NextCut, LenProperties
<1>2. /\ Character(s, k) \in Seq(Byte)
      /\ Len(Character(s, k)) = After(s, k) - k
      /\ \A i \in 1..(After(s, k) - k) : Character(s, k)[i] = s[k + i]
  <2>1. k + 1 \in 1..(Len(s) + 1) /\ After(s, k) \in k..Len(s)
    BY <1>1
  <2> QED  BY <1>1, <2>1, SubSeqProperties DEF Character
<1>3. /\ Len(From(s, k)) = Len(s) - k
      /\ \A i \in 1..(Len(s) - k) : From(s, k)[i] = s[k + i]
  <2>1. k + 1 \in 1..(Len(s) + 1) /\ Len(s) \in k..Len(s)
    BY <1>1
  <2> QED  BY <1>1, <2>1, SubSeqProperties DEF From
<1>4. After(s, k) - k \in 1..(Len(s) - k)
  BY <1>1
<1>5. ASSUME NEW i \in 1..(After(s, k) - k)
      PROVE  i \in 1..(Len(s) - k)
  BY <1>1, <1>4
<1> QED  BY <1>2, <1>3, <1>4, <1>5

\* The decoder's masks and the standard's subtractions give the same number.
LEMMA OneIsScalar == \A a \in 0..127 : a \in CodePoint /\ a < 128
  BY SMT DEF CodePoint, MaxCode

\* The first bytes of characters of two, three and four bytes.
Lead2 == 194..223
Lead3 == 224..239
Lead4 == 240..244

\* What the decoder makes of two, three and four bytes of a character is the
\* number the character stands for.
TwoAgrees(a, b) ==
    /\ (a % 32) * 64 + (b % 64) = (a - 192) * 64 + (b - 128)
    /\ (a - 192) * 64 + (b - 128) \in CodePoint

ThreeAgrees(a, b, c) ==
    /\ ((a % 16) * 64 + (b % 64)) * 64 + (c % 64)
         = ((a - 224) * 64 + (b - 128)) * 64 + (c - 128)
    /\ ((a - 224) * 64 + (b - 128)) * 64 + (c - 128) \in CodePoint

Four64(a, b, c, d) ==
    (((a - 240) * 64 + (b - 128)) * 64 + (c - 128)) * 64 + (d - 128)

FourAgrees(a, b, c, d) ==
    /\ (((a % 8) * 64 + (b % 64)) * 64 + (c % 64)) * 64 + (d % 64)
         = Four64(a, b, c, d)
    /\ Four64(a, b, c, d) \in CodePoint
    /\ InRange(Four64(a, b, c, d)) = Four64(a, b, c, d)

LEMMA TwoIsScalar == \A a \in Lead2, b \in Continuation : TwoAgrees(a, b)
  BY SMT DEF TwoAgrees, CodePoint, MaxCode, Lead2, Continuation

LEMMA ThreeIsScalar ==
    \A a \in Lead3, b \in Continuation, c \in Continuation : ThreeAgrees(a, b, c)
<1> TAKE a \in Lead3, b \in Continuation, c \in Continuation
<1>1. a % 16 = a - 224 /\ b % 64 = b - 128 /\ c % 64 = c - 128
  BY SMT DEF Lead3, Continuation
<1>2. ((a - 224) * 64 + (b - 128)) * 64 + (c - 128) \in CodePoint
  BY SMT DEF CodePoint, MaxCode, Lead3, Continuation
<1> QED  BY <1>1, <1>2, Zenon DEF ThreeAgrees

\* The numbers that the first three of four bytes can make.
Prefix == {n \in Nat : n <= 17407}

\* No character of four bytes is past the last code point.
LEMMA FourIsScalar ==
    \A a \in Lead4, b \in Continuation, c \in Continuation, d \in Continuation :
        a \in 240..243 \/ b \in 128..143 => FourAgrees(a, b, c, d)
<1> TAKE a \in Lead4, b \in Continuation, c \in Continuation, d \in Continuation
<1> HAVE a \in 240..243 \/ b \in 128..143
<1>1. /\ a % 8 = a - 240 /\ b % 64 = b - 128
      /\ c % 64 = c - 128 /\ d % 64 = d - 128
  BY SMT DEF Lead4, Continuation
<1>2. (a - 240) * 64 + (b - 128) \in 0..271
  BY SMT DEF Lead4, Continuation
<1>3. ((a - 240) * 64 + (b - 128)) * 64 + (c - 128) \in Prefix
  <2>1. \A h \in 0..271 : h * 64 + (c - 128) \in Prefix
    BY SMT DEF Prefix, Continuation
  <2> QED  BY <1>2, <2>1, Zenon
<1>4. Four64(a, b, c, d) \in CodePoint /\ Four64(a, b, c, d) <= MaxCode
  <2>1. \A h \in Prefix : /\ h * 64 + (d - 128) \in CodePoint
                          /\ h * 64 + (d - 128) <= MaxCode
    BY SMT DEF CodePoint, MaxCode, Prefix, Continuation
  <2> QED  BY <1>3, <2>1, Zenon DEF Four64
<1>5. InRange(Four64(a, b, c, d)) = Four64(a, b, c, d)
  <2>1. \A n \in CodePoint : InRange(n) = n
    BY SMT DEF CodePoint, MaxCode, InRange
  <2> QED  BY <1>4, <2>1, Zenon
<1>6. (((a % 8) * 64 + (b % 64)) * 64 + (c % 64)) * 64 + (d % 64)
        = Four64(a, b, c, d)
  BY <1>1, Zenon DEF Four64
<1> QED  BY <1>4, <1>5, <1>6, Zenon DEF FourAgrees

\* The decoder reads a character as the standard has it.
LEMMA DecodesCharacter ==
    ASSUME NEW c, Len(c) \in Nat, IsCharacter(c), NEW before,
           NEW rest, Len(rest) \in Nat, Len(c) <= Len(rest),
           \A i \in 1..Len(c) : c[i] = rest[i]
    PROVE  /\ Used(rest) = Len(c)
           /\ Code(rest, before) = Scalar(c)
           /\ Scalar(c) \in CodePoint
<1>1. Len(c) \in Nat /\ Len(rest) \in Nat
  OBVIOUS
<1>2. Len(c) \in 1..4
  BY <1>1, SMT DEF IsCharacter
<1>3. CASE Len(c) = 1
  <2>1. c[1] = rest[1] /\ c[1] \in 0..127
    BY <1>3, SMT DEF IsCharacter
  <2>2. PICK x \in 0..127 : c[1] = x /\ rest[1] = x
    BY <2>1, Zenon
  <2>3. Width(x) = 1 /\ x \in CodePoint /\ x < 128
    BY WidthByLead, OneIsScalar, Zenon
  <2>4. Used(rest) = 1 /\ Code(rest, before) = x
    BY <1>1, <1>3, <2>2, <2>3, SMT DEF Used, Code
  <2>5. Scalar(c) = x
    BY <1>3, <2>2, SMT DEF Scalar
  <2> QED  BY <1>3, <2>3, <2>4, <2>5, Zenon
<1>4. CASE Len(c) = 2
  <2>1. /\ c[1] = rest[1] /\ c[1] \in Lead2
        /\ c[2] = rest[2] /\ c[2] \in Continuation
    BY <1>4, SMT DEF IsCharacter, Continuation, Lead2, Lead3, Lead4
  <2>a. TwoAgrees(c[1], c[2])
    BY <2>1, TwoIsScalar, Zenon
  <2>2. PICK x \in Lead2, y \in Continuation :
          /\ c[1] = x /\ rest[1] = x /\ c[2] = y /\ rest[2] = y
          /\ TwoAgrees(x, y)
    BY <2>1, <2>a, Zenon
  <2>3. Width(x) = 2
    BY WidthByLead, Zenon DEF Lead2
  <2>4. Used(rest) = 2 /\ Code(rest, before) = Two(rest)
    BY <1>1, <1>4, <2>2, <2>3, SMT DEF Used, Code, Lead2
  <2>5. Two(rest) = (x % 32) * 64 + (y % 64)
    BY <2>2, Zenon DEF Two, Low6
  <2>6. Scalar(c) = (x - 192) * 64 + (y - 128)
    BY <1>4, <2>2, SMT DEF Scalar
  <2>7. Two(rest) = Scalar(c) /\ Scalar(c) \in CodePoint
    BY <2>2, <2>5, <2>6, Zenon DEF TwoAgrees
  <2> QED  BY <1>4, <2>4, <2>7, Zenon
<1>5. CASE Len(c) = 3
  <2>1. /\ c[1] = rest[1] /\ c[1] \in Lead3
        /\ c[2] = rest[2] /\ c[2] \in Continuation
        /\ c[3] = rest[3] /\ c[3] \in Continuation
    BY <1>5, SMT DEF IsCharacter, Continuation, Lead2, Lead3, Lead4
  <2>a. ThreeAgrees(c[1], c[2], c[3])
    BY <2>1, ThreeIsScalar, Zenon
  <2>2. PICK x \in Lead3, y \in Continuation, z \in Continuation :
          /\ c[1] = x /\ rest[1] = x /\ c[2] = y /\ rest[2] = y
          /\ c[3] = z /\ rest[3] = z
          /\ ThreeAgrees(x, y, z)
    BY <2>1, <2>a, Zenon
  <2>3. Width(x) = 3
    BY WidthByLead, Zenon DEF Lead3
  <2>4. Used(rest) = 3 /\ Code(rest, before) = Three(rest)
    BY <1>1, <1>5, <2>2, <2>3, SMT DEF Used, Code, Lead3
  <2>5. Three(rest) = ((x % 16) * 64 + (y % 64)) * 64 + (z % 64)
    BY <2>2, Zenon DEF Three, Low6
  <2>6. Scalar(c) = ((x - 224) * 64 + (y - 128)) * 64 + (z - 128)
    BY <1>5, <2>2, SMT DEF Scalar
  <2>7. Three(rest) = Scalar(c) /\ Scalar(c) \in CodePoint
    BY <2>2, <2>5, <2>6, Zenon DEF ThreeAgrees
  <2> QED  BY <1>5, <2>4, <2>7, Zenon
<1>6. CASE Len(c) = 4
  <2>0. /\ \/ c[1] = 240 /\ c[2] \in 144..191
           \/ c[1] \in 241..243 /\ c[2] \in Continuation
           \/ c[1] = 244 /\ c[2] \in 128..143
        /\ c[3] \in Continuation /\ c[4] \in Continuation
    BY <1>6, SMT DEF IsCharacter, Continuation, Lead2, Lead3, Lead4
  <2>1. /\ c[1] = rest[1] /\ c[2] = rest[2] /\ c[3] = rest[3] /\ c[4] = rest[4]
        /\ c[1] \in Lead4
        /\ c[2] \in Continuation /\ c[3] \in Continuation /\ c[4] \in Continuation
    BY <1>6, <2>0, SMT DEF Lead4, Continuation
  <2>a. FourAgrees(c[1], c[2], c[3], c[4])
    <3>0. PICK x, y : x = c[1] /\ y = c[2]
      OBVIOUS
    <3>1. x = 240 \/ x \in 241..243 \/ (x = 244 /\ y \in 128..143)
      BY <2>0, <3>0, Zenon
    <3>2. x \in 240..243 \/ y \in 128..143
      BY <3>1, SMT
    <3> QED  BY <2>1, <3>0, <3>2, FourIsScalar, Zenon
  <2>2. PICK x \in Lead4, y \in Continuation, z \in Continuation, w \in Continuation :
          /\ c[1] = x /\ rest[1] = x /\ c[2] = y /\ rest[2] = y
          /\ c[3] = z /\ rest[3] = z /\ c[4] = w /\ rest[4] = w
          /\ FourAgrees(x, y, z, w)
    BY <2>1, <2>a, Zenon
  <2>3. Width(x) = 4
    BY WidthByLead, Zenon DEF Lead4
  <2>4. Used(rest) = 4 /\ Code(rest, before) = InRange(Four(rest))
    BY <1>1, <1>6, <2>2, <2>3, SMT DEF Used, Code, Lead4
  <2>5. Four(rest) = (((x % 8) * 64 + (y % 64)) * 64 + (z % 64)) * 64 + (w % 64)
    BY <2>2, Zenon DEF Four, Low6
  <2>6. Scalar(c) = Four64(x, y, z, w)
    BY <1>6, <2>2, SMT DEF Scalar, Four64
  <2>7. /\ Four(rest) = Scalar(c) /\ Scalar(c) \in CodePoint
        /\ InRange(Scalar(c)) = Scalar(c)
    BY <2>2, <2>5, <2>6, Zenon DEF FourAgrees
  <2> QED  BY <1>6, <2>4, <2>7, Zenon
<1> QED  BY <1>2, <1>3, <1>4, <1>5, <1>6, SMT

\* At a cut of a text the decoder finds the character that begins there, and
\* takes a reader to the next cut.
LEMMA DecodesText ==
    ASSUME NEW s \in Seq(Byte), IsText(s), NEW k \in Cuts(s) \ {Len(s)},
           NEW before
    PROVE  LET r == ucode8Fore(From(s, k), before)
           IN  /\ r.units > 0
               /\ k + r.units = After(s, k)
               /\ r.uc = Scalar(Character(s, k))
               /\ r.uc \in CodePoint /\ r.uc # INVALID_CHAR
<1> DEFINE c == Character(s, k)
           rest == From(s, k)
<1>1. /\ k \in 0..(Len(s) - 1) /\ After(s, k) \in (k + 1)..Len(s)
      /\ Len(s) \in Nat
  BY NextCut, LenProperties
<1>2. /\ Len(c) = After(s, k) - k
      /\ Len(c) <= Len(rest)
      /\ \A i \in 1..Len(c) : c[i] = rest[i]
  BY CharacterBytes
<1>3. IsCharacter(c)
  BY DEF IsText
<1>4. rest \in Seq(Byte) /\ Len(rest) \in Nat /\ Len(c) \in Nat
  <2>1. k \in 0..Len(s)
    BY <1>1
  <2>2. rest \in Seq(Byte) /\ Len(rest) = Len(s) - k
    BY <2>1, RestOfText
  <2> HIDE DEF c, rest
  <2> QED  BY <1>1, <1>2, <2>2
<1> HIDE DEF c, rest
<1>5. /\ Used(rest) = Len(c)
      /\ Code(rest, before) = Scalar(c)
      /\ Scalar(c) \in CodePoint
  BY <1>2, <1>3, <1>4, DecodesCharacter
<1>6. INVALID_CHAR \notin CodePoint
  BY InvalidCharAssumption, SMT DEF CodePoint, MaxCode
<1>7. Len(c) > 0 /\ k + Len(c) = After(s, k)
  <2>1. PICK n, a : n = Len(s) /\ a = After(s, k)
    OBVIOUS
  <2>2. k \in 0..(n - 1) /\ n \in Nat /\ a \in (k + 1)..n /\ Len(c) = a - k
    BY <1>1, <1>2, <2>1, Zenon
  <2>3. a - k > 0 /\ k + (a - k) = a
    BY <2>2
  <2> QED  BY <2>1, <2>2, <2>3
<1> QED  BY <1>5, <1>6, <1>7 DEF ucode8Fore, c, rest

\* Where a cursor is once it has moved from a cut of a text.
OnCharacter(c, s) ==
    \/ /\ phiz_str8_valid(c, s)
       /\ c.current \in Cuts(s)
       /\ c.next = After(s, c.current)
       /\ c.ucode = Scalar(Character(s, c.current))
    \/ /\ ~ phiz_str8_valid(c, s)
       /\ c.current = Len(s)

LEMMA MoveOnText ==
    ASSUME NEW s \in Seq(Byte), IsText(s), NEW c, c.next \in Cuts(s)
    PROVE  /\ phiz_str8_move(c, s).next \in Cuts(s)
           /\ OnCharacter(phiz_str8_move(c, s), s)
<1> DEFINE r == ucode8Fore(From(s, c.next), INVALID_CHAR)
<1>1. Len(s) \in Nat /\ Cuts(s) \subseteq 0..Len(s)
  BY LenProperties DEF Cuts
<1>2. phiz_str8_move(c, s) =
        IF r.units > 0 /\ r.uc # INVALID_CHAR
          THEN Cursor(c.next, c.next + r.units, r.uc)
          ELSE Cursor(c.next, c.next, INVALID_CHAR)
  BY DEF phiz_str8_move
<1>3. CASE c.next # Len(s)
  <2>1. /\ r.units > 0 /\ c.next + r.units = After(s, c.next)
        /\ r.uc = Scalar(Character(s, c.next)) /\ r.uc # INVALID_CHAR
    BY <1>3, DecodesText
  <2>2. PICK m : /\ m = phiz_str8_move(c, s)
                 /\ m = Cursor(c.next, After(s, c.next),
                               Scalar(Character(s, c.next)))
    BY <1>2, <2>1
  <2>3. /\ m.current = c.next /\ m.next = After(s, c.next)
        /\ m.ucode = Scalar(Character(s, c.next)) /\ m.ucode # INVALID_CHAR
    BY <2>1, <2>2, CursorFields
  <2>4. c.next >= 0 /\ c.next < Len(s)
    BY <1>1, <1>3
  <2>5. phiz_str8_valid(m, s)
    BY <2>3, <2>4 DEF phiz_str8_valid
  <2>6. m.next \in Cuts(s)
    BY <1>3, <2>3, NextCut
  <2> QED  BY <2>2, <2>3, <2>5, <2>6 DEF OnCharacter
<1>4. CASE c.next = Len(s)
  <2>1. r.units \in Nat /\ c.next + r.units \in 0..Len(s)
    <3>1. c.next \in 0..Len(s)
      BY <1>1
    <3> QED  BY <3>1, DecodeAt, Zenon
  <2>2. ~ (r.units > 0)
    <3> HIDE DEF r
    <3> QED  BY <1>1, <1>4, <2>1
  <2>3. PICK m : /\ m = phiz_str8_move(c, s)
                 /\ m = Cursor(c.next, c.next, INVALID_CHAR)
    BY <1>2, <2>2
  <2>4. m.current = c.next /\ m.next = c.next /\ m.ucode = INVALID_CHAR
    BY <2>3, CursorFields
  <2>5. ~ phiz_str8_valid(m, s)
    BY <2>4 DEF phiz_str8_valid
  <2> QED  BY <1>4, <2>3, <2>4, <2>5 DEF OnCharacter
<1> QED  BY <1>3, <1>4

\* What a text in UTF-8 adds to the invariant: each reader is at a cut.
AtCuts ==
    IsText(text) =>
        /\ cursor.next \in Cuts(text)
        /\ rewind_called => OnCharacter(cursor, text)
        /\ index \in Cuts(text)
        /\ index > 0 =>
              \E k \in Cuts(text) :
                 /\ k < index
                 /\ After(text, k) = index
                 /\ code = Scalar(Character(text, k))

LEMMA AtCutsInit == Init => AtCuts
<1> SUFFICES ASSUME Init PROVE AtCuts
  OBVIOUS
<1>1. cursor.next = 0 /\ index = 0 /\ ~ rewind_called
  BY CursorFields DEF Init, Rewound
<1>2. 0 \in Cuts(text)
  BY DEF Cuts
<1> QED  BY <1>1, <1>2 DEF AtCuts

LEMMA AtCutsNext == Inside /\ AtCuts /\ [Next]_vars => AtCuts'
<1> SUFFICES ASSUME Inside, AtCuts, [Next]_vars
             PROVE  AtCuts'
  OBVIOUS
<1>0. text' = text
  BY DEF Next, Rewind, MoveForward, str_utf8c, Csu32, toString, Push, vars
<1> SUFFICES ASSUME IsText(text)
             PROVE  AtCuts'
  BY <1>0 DEF AtCuts
<1>1. text \in Seq(Byte) /\ index \in 0..Len(text) /\ Len(text) \in Nat
  BY LenProperties DEF Inside, OffsetsInside
<1>2. /\ OnFirst.next \in Cuts(text)
      /\ OnCharacter(OnFirst, text)
  <2>1. Rewound.next = 0 /\ 0 \in Cuts(text)
    BY CursorFields DEF Rewound, Cuts
  <2> QED  BY <1>1, <2>1, MoveOnText DEF OnFirst
<1>3. ASSUME cursor'.next \in Cuts(text), OnCharacter(cursor', text),
             UNCHANGED walker
      PROVE  AtCuts'
  BY <1>0, <1>3 DEF AtCuts, walker
<1>4. CASE Rewind
  BY <1>2, <1>3, <1>4 DEF Rewind
<1>5. CASE MoveForward
  <2>1. cursor.next \in Cuts(text)
    BY DEF AtCuts
  <2>2. PICK c : /\ c.next \in Cuts(text)
                 /\ cursor' = phiz_str8_move(c, text)
    BY <1>2, <1>5, <2>1 DEF MoveForward
  <2>3. cursor'.next \in Cuts(text) /\ OnCharacter(cursor', text)
    BY <1>1, <2>2, MoveOnText
  <2> QED  BY <1>3, <1>5, <2>3 DEF MoveForward
<1>6. CASE str_utf8c
  <2>1. PICK stale \in Stale :
          LET r == ucode8Fore(From(text, index), stale)
          IN  code' = r.uc /\ index' = index + r.units
    BY <1>6 DEF str_utf8c
  <2>2. index \in Cuts(text) \ {Len(text)}
    BY <1>1, <1>6 DEF str_utf8c, AtCuts
  <2>3. index' = After(text, index) /\ code' = Scalar(Character(text, index))
    BY <1>1, <2>1, <2>2, DecodesText
  <2>4. index' \in Cuts(text) /\ index < index'
    <3>1. After(text, index) \in Cuts(text)
          /\ After(text, index) \in (index + 1)..Len(text)
      BY <1>1, <2>2, NextCut
    <3> QED  BY <1>1, <2>3, <3>1
  <2>5. UNCHANGED csu8
    BY <1>6 DEF str_utf8c
  <2> QED  BY <1>0, <2>2, <2>3, <2>4, <2>5 DEF AtCuts, csu8
<1>7. CASE UNCHANGED <<csu8, walker>>
  BY <1>0, <1>7 DEF AtCuts, csu8, walker
<1>8. Rewind \/ MoveForward \/ str_utf8c \/ UNCHANGED <<csu8, walker>>
  BY DEF Next, Csu32, Push, toString, vars, csu8, walker
<1> QED  BY <1>4, <1>5, <1>6, <1>7, <1>8

\* On every text in UTF-8 the iterator gives the characters, as the Unicode
\* standard has them, and stops at the end.
THEOREM IteratorReadsText == Spec => []ReadsText
<1>1. AtCuts => ReadsText
  BY DEF AtCuts, OnCharacter, ReadsText
<1> QED
  BY InsideInit, InsideNext, AtCutsInit, AtCutsNext, <1>1, PTL DEF Spec

\* On every text in UTF-8 the token reader goes from character to character,
\* with the code of the one it has just passed.
THEOREM TokenReaderWalksText == Spec => []WalksText
<1>1. AtCuts => WalksText
  BY DEF AtCuts, WalksText
<1> QED
  BY InsideInit, InsideNext, AtCutsInit, AtCutsNext, <1>1, PTL DEF Spec

-----------------------------------------------------------------------------
(***************************************************************************)
(* The array of a Csu32 object: sound, of one number type, with a capacity *)
(* as soon as it has an element, and with a value in each.                 *)
(***************************************************************************)
HeldCodes(g) ==
    /\ Sound(g)
    /\ g.kind = "packed"
    /\ g.size > 0 => g.capacity > 0
    /\ \A i \in 0..(g.size - 1) : g.slot[i] \in Value

LEMMA NoCodes == HeldCodes(EtypeCtor("packed")) /\ EtypeCtor("packed").size = 0
<1>1. "packed" \in Kind
  BY DEF Kind
<1>2. LET g == EtypeCtor("packed")
      IN  Sound(g) /\ g.kind = "packed" /\ g.size = 0
  BY <1>1, EtypeCtorSound
<1> QED  BY <1>2 DEF HeldCodes

LEMMA AppendedHeld ==
    ASSUME NEW g, HeldCodes(g), NEW v \in Value
    PROVE  /\ HeldCodes(Appended(g, v))
           /\ Appended(g, v).size = g.size + 1
           /\ \A i \in 0..(g.size - 1) : Appended(g, v).slot[i] = g.slot[i]
           /\ Appended(g, v).slot[g.size] = v
<1> DEFINE n == g.size + 1
<1>1. g.size \in Nat /\ g.capacity \in Nat /\ n \in Nat /\ n > g.size /\ n > 0 /\ n # 0
  BY PartsOfSound DEF HeldCodes
<1> HIDE DEF n
<1>2. PICK h : h = GenResize(g, n)
  OBVIOUS
<1>3. Sound(h) /\ h.kind = "packed" /\ h.size = n
  BY <1>1, <1>2, GenResizeSound DEF HeldCodes
<1>4. h = Grown(g, n)
  BY <1>1, <1>2 DEF GenResize
<1>5. h.capacity > 0
  BY <1>1, <1>4, GrownElements DEF HeldCodes
<1>6. \A i \in 0..(g.size - 1) : h.slot[i] = g.slot[i]
  <2>1. CASE g.capacity > 0
    BY <1>1, <1>4, <2>1, GrownElements DEF HeldCodes, Keeps
  <2>2. CASE ~ (g.capacity > 0)
    BY <1>1, <2>2 DEF HeldCodes
  <2> QED  BY <2>1, <2>2
<1>7. h.extent \in Nat /\ g.size < h.extent
      /\ h.slot \in [0..(h.extent - 1) -> Slot]
  <2>1. h.extent \in Nat /\ h.size <= h.extent
        /\ h.slot \in [0..(h.extent - 1) -> Slot]
    BY <1>3, PartsOfSound
  <2> QED  BY <1>1, <1>3, <2>1 DEF n
<1>8. PICK w : w = Written(h, g.size, v)
  OBVIOUS
<1>9. Sound(w) /\ w.kind = "packed" /\ w.size = n /\ w.capacity = h.capacity
  BY <1>1, <1>3, <1>7, <1>8, WrittenSound
<1>10. w.slot = [h.slot EXCEPT ![g.size] = v]
  BY <1>8 DEF Written, Array
<1>11. /\ \A i \in 0..(g.size - 1) : w.slot[i] = g.slot[i]
       /\ w.slot[g.size] = v
  BY <1>1, <1>6, <1>7, <1>10
<1>12. \A i \in 0..(n - 1) : w.slot[i] \in Value
  BY <1>1, <1>11 DEF HeldCodes, n
<1>13. HeldCodes(w)
  BY <1>5, <1>9, <1>12 DEF HeldCodes
<1>14. w = Appended(g, v)
  BY <1>2, <1>8 DEF Appended, n
<1> QED  BY <1>9, <1>11, <1>13, <1>14 DEF n

-----------------------------------------------------------------------------
(***************************************************************************)
(* The loop of the constructor of Csu32, over a string s whose characters  *)
(* begin at the offsets of P.                                              *)
(***************************************************************************)
\* From each offset of P a move reads a code that can be stored and goes to
\* another one, or reads nothing.
ReadAt(s, n) == ucode8Fore(From(s, n), INVALID_CHAR)

Readable(s, P) ==
    /\ 0 \in P
    /\ P \subseteq 0..Len(s)
    /\ \A n \in P : (ReadAt(s, n).units > 0 /\ ReadAt(s, n).uc # INVALID_CHAR) =>
          /\ ReadAt(s, n).uc \in Value
          /\ n + ReadAt(s, n).units \in P

\* The states of the loop, as a set.
Blocks ==
    UNION {[kind : Kind, elements : {"NULL", "block"}, extent : {x}, size : Nat,
            capacity : Nat, slot : [0..(x - 1) -> Slot]] : x \in Nat}

Cursors(P) == [current : P \cup {-1}, next : P, ucode : Nat]

FillStates(P) ==
    {st \in [str8 : Cursors(P), gen : Blocks] : HeldCodes(st.gen)}

FillStart == [str8 |-> Rewound, gen |-> EtypeCtor("packed")]

FillStep(st, s) ==
    [str8 |-> phiz_str8_move(st.str8, s),
     gen |-> IF phiz_str8_valid(phiz_str8_move(st.str8, s), s)
               THEN Appended(st.gen, phiz_str8_move(st.str8, s).ucode)
               ELSE st.gen]

LEMMA HeldInBlocks ==
    ASSUME NEW g, HeldCodes(g)
    PROVE  g \in Blocks
<1>1. /\ g.kind \in Kind /\ g.elements \in {"NULL", "block"} /\ g.extent \in Nat
      /\ g.size \in Nat /\ g.capacity \in Nat
      /\ g.slot \in [0..(g.extent - 1) -> Slot]
  BY PartsOfSound DEF HeldCodes
<1>2. g = Array(g.kind, g.elements, g.extent, g.size, g.capacity, g.slot)
  BY DEF HeldCodes, Sound, IsArray
<1>3. g \in [kind : Kind, elements : {"NULL", "block"}, extent : {g.extent},
             size : Nat, capacity : Nat, slot : [0..(g.extent - 1) -> Slot]]
  <2> DEFINE A == [0..(g.extent - 1) -> Slot]
  <2>1. g.slot \in A
    BY <1>1
  <2> HIDE DEF A
  <2>2. Array(g.kind, g.elements, g.extent, g.size, g.capacity, g.slot)
          \in [kind : Kind, elements : {"NULL", "block"}, extent : {g.extent},
               size : Nat, capacity : Nat, slot : A]
    BY <1>1, <2>1 DEF Array
  <2> QED  BY <1>2, <2>2 DEF A
<1> QED  BY <1>1, <1>3 DEF Blocks

\* What a move does from an offset of P.
LEMMA MoveReads ==
    ASSUME NEW s \in Seq(Byte), NEW P, Readable(s, P), NEW c \in Cursors(P)
    PROVE  LET m == phiz_str8_move(c, s)
           IN  /\ m \in Cursors(P)
               /\ m.current = c.next
               /\ phiz_str8_valid(m, s) => /\ m.ucode \in Value
                                           /\ m.ucode = ReadAt(s, c.next).uc
                                           /\ m.next = c.next + ReadAt(s, c.next).units
                                           /\ ReadAt(s, c.next).units > 0
               /\ ~ phiz_str8_valid(m, s) => m.next = c.next
               /\ (ReadAt(s, c.next).units > 0 /\ ReadAt(s, c.next).uc # INVALID_CHAR)
                     => phiz_str8_valid(m, s)
<1> DEFINE r == ReadAt(s, c.next)
<1>1. c.next \in P /\ c.next \in 0..Len(s) /\ Len(s) \in Nat
  BY LenProperties DEF Cursors, Readable
<1>2. /\ r.units \in Nat
      /\ c.next + r.units \in 0..Len(s)
      /\ r.uc \in CodePoint \cup {INVALID_CHAR}
  BY <1>1, DecodeAt, Zenon DEF ReadAt
<1>3. phiz_str8_move(c, s) =
        IF r.units > 0 /\ r.uc # INVALID_CHAR
          THEN Cursor(c.next, c.next + r.units, r.uc)
          ELSE Cursor(c.next, c.next, INVALID_CHAR)
  BY DEF phiz_str8_move, ReadAt
<1>4. (r.units > 0 /\ r.uc # INVALID_CHAR) =>
        r.uc \in Value /\ c.next + r.units \in P
  BY <1>1, Zenon DEF Readable
<1>5. INVALID_CHAR \in Nat /\ CodePoint \subseteq Nat
  BY InvalidCharAssumption DEF CodePoint
<1> HIDE DEF r
<1>6. CASE r.units > 0 /\ r.uc # INVALID_CHAR
  <2>1. PICK m : /\ m = phiz_str8_move(c, s)
                 /\ m = Cursor(c.next, c.next + r.units, r.uc)
    BY <1>3, <1>6
  <2>2. m.current = c.next /\ m.next = c.next + r.units /\ m.ucode = r.uc
    BY <2>1, CursorFields
  <2>3. c.next >= 0 /\ c.next < Len(s)
    BY <1>1, <1>2, <1>6
  <2>4. phiz_str8_valid(m, s)
    BY <1>6, <2>2, <2>3 DEF phiz_str8_valid
  <2>5. m \in Cursors(P)
    <3>1. c.next + r.units \in P /\ r.uc \in Nat
      BY <1>2, <1>4, <1>5, <1>6
    <3> QED  BY <1>1, <2>1, <3>1 DEF Cursor, Cursors
  <2> QED  BY <1>4, <1>6, <2>1, <2>2, <2>4, <2>5 DEF r
<1>7. CASE ~ (r.units > 0 /\ r.uc # INVALID_CHAR)
  <2>1. PICK m : /\ m = phiz_str8_move(c, s)
                 /\ m = Cursor(c.next, c.next, INVALID_CHAR)
    BY <1>3, <1>7
  <2>2. m.current = c.next /\ m.next = c.next /\ m.ucode = INVALID_CHAR
    BY <2>1, CursorFields
  <2>3. ~ phiz_str8_valid(m, s)
    BY <2>2 DEF phiz_str8_valid
  <2>4. m \in Cursors(P)
    BY <1>1, <1>5, <2>1 DEF Cursor, Cursors
  <2> QED  BY <1>7, <2>1, <2>2, <2>3, <2>4 DEF r
<1> QED  BY <1>6, <1>7

LEMMA FillStepIn ==
    ASSUME NEW s \in Seq(Byte), NEW P, Readable(s, P), NEW st \in FillStates(P)
    PROVE  FillStep(st, s) \in FillStates(P)
<1>1. PICK m : m = phiz_str8_move(st.str8, s)
  OBVIOUS
<1>2. st.str8 \in Cursors(P) /\ st.gen \in Blocks /\ HeldCodes(st.gen)
  BY DEF FillStates
<1>3. m \in Cursors(P) /\ (phiz_str8_valid(m, s) => m.ucode \in Value)
  BY <1>1, <1>2, MoveReads
<1>4. PICK g : g = IF phiz_str8_valid(m, s) THEN Appended(st.gen, m.ucode)
                                            ELSE st.gen
  OBVIOUS
<1>5. HeldCodes(g)
  BY <1>2, <1>3, <1>4, AppendedHeld
<1>6. g \in Blocks
  BY <1>5, HeldInBlocks
<1>7. FillStep(st, s) = [str8 |-> m, gen |-> g]
  BY <1>1, <1>4 DEF FillStep
<1> QED  BY <1>3, <1>5, <1>6, <1>7 DEF FillStates

LEMMA FillStartIn ==
    ASSUME NEW s \in Seq(Byte), NEW P, Readable(s, P)
    PROVE  FillStart \in FillStates(P)
<1>1. Rewound \in Cursors(P)
  BY InvalidCharAssumption DEF Readable, Rewound, Cursor, Cursors
<1>2. HeldCodes(EtypeCtor("packed")) /\ EtypeCtor("packed") \in Blocks
  BY NoCodes, HeldInBlocks
<1> QED  BY <1>1, <1>2 DEF FillStart, FillStates

\* The rounds of the loop, one after the other.
Rounds(h, s, P) ==
    /\ h \in [0..Len(s) -> FillStates(P)]
    /\ h[0] = FillStart
    /\ \A n \in 1..Len(s) : h[n] = FillStep(h[n - 1], s)
    /\ Filled(s) = h[Len(s)].gen

LEMMA FillRounds ==
    ASSUME NEW s \in Seq(Byte), NEW P, Readable(s, P)
    PROVE  \E h : Rounds(h, s, P)
<1> DEFINE N == Len(s)
           S == FillStates(P)
           G == [n \in 1..N |-> [st \in S |-> FillStep(st, s)]]
           f == CHOOSE round :
                  round = [n \in 0..Len(s) |->
                    IF n = 0 THEN [str8 |-> Rewound, gen |-> EtypeCtor("packed")]
                    ELSE LET before == round[n - 1]
                             c == phiz_str8_move(before.str8, s)
                             g == before.gen
                         IN  [str8 |-> c,
                              gen |-> IF phiz_str8_valid(c, s)
                                        THEN Appended(g, c.ucode) ELSE g]]
<1>1. Filled(s) = f[N].gen
  BY DEF Filled
<1>2. N \in Nat
  BY LenProperties
<1>3. FillStart \in S /\ \A st \in S : FillStep(st, s) \in S
  BY FillStartIn, FillStepIn
<1>4. G \in [1..N -> [S -> S]] /\ \A n \in 1..N, st \in S : G[n][st] = FillStep(st, s)
  <2> HIDE DEF N, S
  <2> QED  BY <1>3
<1>5. PICK h : GoesBy(h, S, FillStart, G, N)
  <2> HIDE DEF N, S, G
  <2> QED  BY <1>2, <1>3, <1>4, GoesByExists
<1>6. /\ h \in [0..N -> S] /\ h[0] = FillStart
      /\ \A n \in 1..N : n - 1 \in 0..N /\ h[n] = FillStep(h[n - 1], s)
  <2> HIDE DEF N, S, G
  <2>1. \A n \in 1..N : n - 1 \in 0..N /\ h[n - 1] \in S
    BY <1>2, <1>5 DEF GoesBy
  <2> QED  BY <1>4, <1>5, <2>1 DEF GoesBy
<1> DEFINE Goes(k) == k = [n \in 0..N |-> IF n = 0 THEN FillStart
                                          ELSE FillStep(k[n - 1], s)]
<1>7. Goes(h)
  <2> HIDE DEF N, S, G
  <2>1. ASSUME NEW n \in 0..N
        PROVE  h[n] = IF n = 0 THEN FillStart ELSE FillStep(h[n - 1], s)
    <3>1. CASE n = 0
      BY <1>6, <3>1
    <3>2. CASE n # 0
      <4>1. n \in 1..N
        BY <1>2, <3>2
      <4> QED  BY <1>6, <3>2, <4>1
    <3> QED  BY <3>1, <3>2
  <2>2. h = [n \in 0..N |-> h[n]]
    BY <1>6
  <2> QED  BY <2>1, <2>2
<1>8. f = CHOOSE k : Goes(k)
  BY DEF FillStep, FillStart
<1>9. Goes(f)
  <2> HIDE DEF Goes, f
  <2> QED  BY <1>7, <1>8
<1>10. \A n \in 0..N : f[n] = h[n]
  <2> HIDE DEF f
  <2>1. f[0] = FillStart /\ \A n \in 1..N : f[n] = FillStep(f[n - 1], s)
    <3> HIDE DEF N
    <3>1. \A n \in 0..N : f[n] = IF n = 0 THEN FillStart ELSE FillStep(f[n - 1], s)
      BY <1>9
    <3> HIDE DEF Goes
    <3> QED  BY <1>2, <3>1
  <2> HIDE DEF N, S, G, Goes
  <2>2. StepsBy(f, S, FillStart, G, N)
    BY <1>4, <2>1 DEF StepsBy
  <2> QED  BY <1>2, <1>3, <1>4, <1>5, <2>2, GoesByUnique
<1>11. Filled(s) = h[N].gen
  <2> HIDE DEF f, N
  <2>1. N \in 0..N
    BY <1>2
  <2> QED  BY <1>1, <1>10, <2>1
<1> HIDE DEF f
<1> QED  BY <1>6, <1>11 DEF Rounds

\* Csu32 always holds codes, and no more than there are bytes.
LEMMA FilledHeld ==
    ASSUME NEW s \in Seq(Byte), NEW P, Readable(s, P)
    PROVE  HeldCodes(Filled(s))
<1>1. PICK h : Rounds(h, s, P)
  BY FillRounds
<1>2. Len(s) \in 0..Len(s)
  BY LenProperties
<1>3. h[Len(s)] \in FillStates(P)
  BY <1>1, <1>2 DEF Rounds
<1> QED  BY <1>1, <1>3 DEF Rounds, FillStates

-----------------------------------------------------------------------------
(***************************************************************************)
(* How many characters are in front of a cut.                              *)
(***************************************************************************)
LEMMA Places ==
    ASSUME NEW s \in Seq(Byte)
    PROVE  /\ \A k \in Cuts(s) : Place(s, k) \in Nat
           /\ Place(s, 0) = 0
           /\ \A k \in Cuts(s) \ {Len(s)} : Place(s, After(s, k)) = Place(s, k) + 1
           /\ \A j, k \in Cuts(s) : j < k => Place(s, j) < Place(s, k)
<1> DEFINE Front(k) == {j \in Cuts(s) : j < k}
<1>1. Len(s) \in Nat /\ Cuts(s) \subseteq 0..Len(s)
  BY LenProperties DEF Cuts
<1>2. \A k : IsFiniteSet(Front(k)) /\ Cardinality(Front(k)) \in Nat
  <2> SUFFICES ASSUME NEW k
               PROVE  IsFiniteSet(Front(k)) /\ Cardinality(Front(k)) \in Nat
    OBVIOUS
  <2>1. IsFiniteSet(0..Len(s))
    BY <1>1, FS_Interval
  <2>2. Front(k) \in SUBSET (0..Len(s))
    BY <1>1
  <2> HIDE DEF Front
  <2> QED  BY <2>1, <2>2, FS_Subset, FS_CardinalityType
<1>3. \A k : Place(s, k) = Cardinality(Front(k))
  BY DEF Place
<1>4. Front(0) = {}
  BY <1>1
<1>5. ASSUME NEW k \in Cuts(s) \ {Len(s)}
      PROVE  Cardinality(Front(After(s, k))) = Cardinality(Front(k)) + 1
  <2>1. /\ After(s, k) \in (k + 1)..Len(s) /\ k \in 0..(Len(s) - 1)
        /\ \A j \in Cuts(s) : j > k => After(s, k) <= j
    BY NextCut
  <2>2. Front(After(s, k)) = Front(k) \cup {k}
    BY <1>1, <2>1
  <2>3. k \notin Front(k)
    BY <1>1
  <2> HIDE DEF Front
  <2> QED  BY <1>2, <2>2, <2>3, FS_AddElement
<1>6. ASSUME NEW j \in Cuts(s), NEW k \in Cuts(s), j < k
      PROVE  Cardinality(Front(j)) < Cardinality(Front(k))
  <2>1. Front(j) \cup {j} \in SUBSET Front(k)
    BY <1>1, <1>6
  <2>2. j \notin Front(j)
    BY <1>1
  <2> HIDE DEF Front
  <2>3. Cardinality(Front(j) \cup {j}) = Cardinality(Front(j)) + 1
    BY <1>2, <2>2, FS_AddElement
  <2>4. Cardinality(Front(j) \cup {j}) <= Cardinality(Front(k))
    BY <1>2, <2>1, FS_Subset
  <2> QED  BY <1>2, <2>3, <2>4
<1> HIDE DEF Front
<1>7. Place(s, 0) = 0
  BY <1>3, <1>4, FS_EmptySet
<1> QED  BY <1>2, <1>3, <1>5, <1>6, <1>7

-----------------------------------------------------------------------------
(***************************************************************************)
(* Over a text in UTF-8 the loop stores the characters.                    *)
(***************************************************************************)
HoldsUpTo(st, s) ==
    /\ st.str8.next \in Cuts(s)
    /\ st.gen.size = Place(s, st.str8.next)
    /\ \A k \in Cuts(s) :
          k < st.str8.next => st.gen.slot[Place(s, k)] = Scalar(Character(s, k))

LEMMA HoldsStep ==
    ASSUME NEW s \in Seq(Byte), IsText(s), Readable(s, Cuts(s)),
           NEW st \in FillStates(Cuts(s)), HoldsUpTo(st, s),
           NEW t, t = FillStep(st, s)
    PROVE  /\ HoldsUpTo(t, s)
           /\ t.str8.next > st.str8.next \/ t.str8.next = Len(s)
<1> DEFINE k == st.str8.next
           m == phiz_str8_move(st.str8, s)
<1>1. k \in Cuts(s) /\ st.str8 \in Cursors(Cuts(s)) /\ HeldCodes(st.gen)
  BY DEF HoldsUpTo, FillStates
<1>2. Len(s) \in Nat /\ k \in 0..Len(s)
  BY <1>1, LenProperties DEF Cuts
<1>3. /\ phiz_str8_valid(m, s) => /\ m.ucode = ReadAt(s, k).uc
                                  /\ m.next = k + ReadAt(s, k).units
                                  /\ ReadAt(s, k).units > 0
      /\ ~ phiz_str8_valid(m, s) => m.next = k
      /\ (ReadAt(s, k).units > 0 /\ ReadAt(s, k).uc # INVALID_CHAR)
            => phiz_str8_valid(m, s)
      /\ phiz_str8_valid(m, s) => m.ucode \in Value
  BY <1>1, MoveReads
<1>4. /\ t.str8 = m
      /\ t.gen = IF phiz_str8_valid(m, s) THEN Appended(st.gen, m.ucode) ELSE st.gen
  BY DEF FillStep
<1>5. CASE k = Len(s)
  <2>1. ReadAt(s, k).units \in Nat /\ k + ReadAt(s, k).units \in 0..Len(s)
    BY <1>2, DecodeAt, Zenon DEF ReadAt
  <2>2. ~ (ReadAt(s, k).units > 0)
    BY <1>2, <1>5, <2>1
  <2>3. ~ phiz_str8_valid(m, s)
    BY <1>3, <2>2
  <2>4. t.gen = st.gen /\ t.str8.next = k
    BY <1>3, <1>4, <2>3
  <2> QED  BY <1>5, <2>4 DEF HoldsUpTo
<1>6. CASE k # Len(s)
  <2>1. /\ ReadAt(s, k).units > 0 /\ k + ReadAt(s, k).units = After(s, k)
        /\ ReadAt(s, k).uc = Scalar(Character(s, k))
        /\ ReadAt(s, k).uc # INVALID_CHAR
    BY <1>1, <1>6, DecodesText DEF ReadAt
  <2>2. PICK g : g = Appended(st.gen, m.ucode)
    OBVIOUS
  <2>3. /\ m.next = After(s, k) /\ m.ucode = Scalar(Character(s, k))
        /\ m.ucode \in Value /\ t.gen = g
    BY <1>3, <1>4, <2>1, <2>2
  <2>4. /\ After(s, k) \in Cuts(s) /\ After(s, k) \in (k + 1)..Len(s)
        /\ \A j \in Cuts(s) : j > k => After(s, k) <= j
    BY <1>1, <1>6, NextCut
  <2>5. /\ \A j \in Cuts(s) : Place(s, j) \in Nat
        /\ Place(s, After(s, k)) = Place(s, k) + 1
        /\ \A i, j \in Cuts(s) : i < j => Place(s, i) < Place(s, j)
    BY <1>1, <1>6, Places
  <2>6. /\ g.size = st.gen.size + 1
        /\ \A i \in 0..(st.gen.size - 1) : g.slot[i] = st.gen.slot[i]
        /\ g.slot[st.gen.size] = Scalar(Character(s, k))
    BY <1>1, <2>2, <2>3, AppendedHeld
  <2>7. st.gen.size = Place(s, k)
    BY DEF HoldsUpTo
  <2>8. ASSUME NEW j \in Cuts(s), j < After(s, k)
        PROVE  g.slot[Place(s, j)] = Scalar(Character(s, j))
    <3>1. j \in 0..Len(s)
      BY <1>2 DEF Cuts
    <3>2. CASE j = k
      BY <2>6, <2>7, <3>2
    <3>3. CASE j # k
      <4>1. j < k
        BY <1>2, <2>4, <2>8, <3>1, <3>3
      <4>2. Place(s, j) \in 0..(st.gen.size - 1)
        BY <1>1, <2>5, <2>7, <4>1
      <4>3. st.gen.slot[Place(s, j)] = Scalar(Character(s, j))
        BY <4>1 DEF HoldsUpTo
      <4> QED  BY <2>6, <4>2, <4>3
    <3> QED  BY <3>2, <3>3
  <2>9. t.str8.next = After(s, k)
    BY <1>4, <2>3
  <2>10. HoldsUpTo(t, s)
    BY <2>3, <2>4, <2>5, <2>6, <2>7, <2>8, <2>9 DEF HoldsUpTo
  <2>11. t.str8.next > k
    BY <1>2, <2>4, <2>9
  <2> QED  BY <2>10, <2>11
<1> QED  BY <1>5, <1>6

LEMMA HoldsRounds ==
    ASSUME NEW s \in Seq(Byte), IsText(s), Readable(s, Cuts(s)),
           NEW h, Rounds(h, s, Cuts(s))
    PROVE  \A n \in 0..Len(s) : HoldsUpTo(h[n], s) /\ h[n].str8.next >= n
<1> DEFINE Bad == {n \in 0..Len(s) : ~ (HoldsUpTo(h[n], s) /\ h[n].str8.next >= n)}
<1> SUFFICES ASSUME Bad # {} PROVE FALSE
  OBVIOUS
<1>1. PICK n \in Bad : \A k \in Bad : n <= k
  <2>1. Bad \in SUBSET Nat
    OBVIOUS
  <2> HIDE DEF Bad
  <2> QED  BY <2>1, LeastElement
<1>2. Len(s) \in Nat /\ n \in 0..Len(s)
  BY <1>1, LenProperties
<1>3. CASE n = 0
  <2>1. h[0].str8 = Rewound /\ h[0].gen = EtypeCtor("packed")
    BY DEF Rounds, FillStart
  <2>2. h[0].str8.next = 0 /\ h[0].gen.size = 0
    BY <2>1, NoCodes, CursorFields DEF Rewound
  <2>3. 0 \in Cuts(s) /\ Cuts(s) \subseteq Nat /\ Place(s, 0) = 0
    BY <1>2, Places DEF Cuts
  <2>4. HoldsUpTo(h[0], s)
    BY <2>2, <2>3 DEF HoldsUpTo
  <2> QED  BY <1>1, <1>3, <2>2, <2>4
<1>4. CASE n # 0
  <2>1. n \in 1..Len(s) /\ n - 1 \in 0..Len(s) /\ n - 1 \notin Bad
    BY <1>1, <1>2, <1>4
  <2>2. HoldsUpTo(h[n - 1], s) /\ h[n - 1].str8.next >= n - 1
    BY <2>1
  <2>3. h[n] = FillStep(h[n - 1], s) /\ h[n - 1] \in FillStates(Cuts(s))
    BY <2>1 DEF Rounds
  <2>4. /\ HoldsUpTo(h[n], s)
        /\ h[n].str8.next > h[n - 1].str8.next \/ h[n].str8.next = Len(s)
    BY <2>2, <2>3, HoldsStep
  <2>5. h[n].str8.next \in Nat /\ h[n - 1].str8.next \in Nat
    BY <1>2, <2>2, <2>4 DEF HoldsUpTo, Cuts
  <2>6. h[n].str8.next >= n
    BY <1>2, <2>2, <2>4, <2>5
  <2> QED  BY <1>1, <2>4, <2>6
<1> QED  BY <1>3, <1>4

LEMMA FilledHolds ==
    ASSUME NEW s \in Seq(Byte), IsText(s), Readable(s, Cuts(s))
    PROVE  /\ Filled(s).size = Place(s, Len(s))
           /\ \A k \in Cuts(s) \ {Len(s)} :
                 Filled(s).slot[Place(s, k)] = Scalar(Character(s, k))
<1>1. PICK h : Rounds(h, s, Cuts(s))
  BY FillRounds
<1>2. Len(s) \in Nat /\ Len(s) \in 0..Len(s) /\ Cuts(s) \subseteq 0..Len(s)
  BY LenProperties DEF Cuts
<1>3. HoldsUpTo(h[Len(s)], s) /\ h[Len(s)].str8.next >= Len(s)
  BY <1>1, <1>2, HoldsRounds
<1>4. h[Len(s)].str8.next = Len(s)
  BY <1>2, <1>3 DEF HoldsUpTo
<1>5. Filled(s) = h[Len(s)].gen
  BY <1>1 DEF Rounds
<1>6. \A k \in Cuts(s) \ {Len(s)} : k < Len(s)
  BY <1>2
<1> QED  BY <1>3, <1>4, <1>5, <1>6 DEF HoldsUpTo

-----------------------------------------------------------------------------
(***************************************************************************)
(* What __toString prints is a string of bytes.                            *)
(***************************************************************************)
LEMMA EncodingIsBytes ==
    ASSUME NEW d \in Nat
    PROVE  utf32_str8(d) \in Seq(Byte)
<1>1. \A n \in Nat : 128 + (n % 64) \in Byte
  BY SMT DEF Byte
<1>2. \A n \in Nat : n \div 64 \in Nat /\ n \div 4096 \in Nat
  BY SMT
<1>3. Follow(d) \in Byte /\ Follow(d \div 64) \in Byte /\ Follow(d \div 4096) \in Byte
  BY <1>1, <1>2 DEF Follow
<1>4. CASE d < 128
  <2>1. d \in Byte
    BY <1>4 DEF Byte
  <2> QED  BY <1>4, <2>1 DEF utf32_str8
<1>5. CASE ~ (d < 128) /\ d < 2048
  <2>1. 192 + (d \div 64) \in Byte
    BY <1>5, SMT DEF Byte
  <2>2. utf32_str8(d) = <<192 + (d \div 64), Follow(d)>>
    BY <1>5 DEF utf32_str8
  <2> QED  BY <1>3, <2>1, <2>2
<1>6. CASE ~ (d < 128) /\ ~ (d < 2048) /\ d < 65536
  <2>1. 224 + (d \div 4096) \in Byte
    BY <1>6, SMT DEF Byte
  <2>2. utf32_str8(d) = <<224 + (d \div 4096), Follow(d \div 64), Follow(d)>>
    BY <1>6 DEF utf32_str8
  <2> QED  BY <1>3, <2>1, <2>2
<1>7. CASE ~ (d < 128) /\ ~ (d < 2048) /\ ~ (d < 65536) /\ d > MaxCode
  BY <1>7 DEF utf32_str8
<1>8. CASE ~ (d < 128) /\ ~ (d < 2048) /\ ~ (d < 65536) /\ ~ (d > MaxCode)
  <2>1. 240 + (d \div 262144) \in Byte
    BY <1>8, SMT DEF Byte, MaxCode
  <2>2. utf32_str8(d) = <<240 + (d \div 262144), Follow(d \div 4096),
                          Follow(d \div 64), Follow(d)>>
    BY <1>8 DEF utf32_str8
  <2> QED  BY <1>3, <2>1, <2>2
<1> QED  BY <1>4, <1>5, <1>6, <1>7, <1>8

\* The codes that are printed are those before a place.
LEMMA EncodableUpTo ==
    ASSUME NEW g, g.size \in Nat
    PROVE  \E m \in 0..g.size :
              /\ Encodable(g) = 0..m
              /\ m = CHOOSE n \in Encodable(g) : \A k \in Encodable(g) : k <= n
<1> DEFINE Enc(n) == \A i \in 0..(n - 1) : utf32_str8(g.slot[i]) # <<>>
           Left == {g.size - n : n \in Encodable(g)}
<1>1. Encodable(g) \subseteq 0..g.size /\ 0 \in Encodable(g)
  BY DEF Encodable
<1>2. PICK b \in Encodable(g) : \A k \in Encodable(g) : k <= b
  <2>1. Left \in SUBSET Nat /\ Left # {}
    BY <1>1
  <2> HIDE DEF Left
  <2>2. PICK m \in Left : \A k \in Left : m <= k
    BY <2>1, LeastElement
  <2>3. PICK b \in Encodable(g) : m = g.size - b
    BY DEF Left
  <2>4. \A k \in Encodable(g) : m <= g.size - k
    BY <2>2 DEF Left
  <2>5. \A k \in Encodable(g) : k <= b
    BY <1>1, <2>3, <2>4
  <2> QED  BY <2>5
<1>3. PICK m : m = CHOOSE n \in Encodable(g) : \A k \in Encodable(g) : k <= n
  OBVIOUS
<1>4. m \in Encodable(g) /\ \A k \in Encodable(g) : k <= m
  BY <1>2, <1>3
<1>5. ASSUME NEW n \in 0..m PROVE n \in Encodable(g)
  <2>1. m \in 0..g.size /\ \A i \in 0..(m - 1) : utf32_str8(g.slot[i]) # <<>>
    BY <1>4 DEF Encodable
  <2>2. n \in 0..g.size /\ 0..(n - 1) \subseteq 0..(m - 1)
    BY <2>1
  <2> QED  BY <2>1, <2>2 DEF Encodable
<1>6. Encodable(g) = 0..m
  <2>1. \A k \in Encodable(g) : k \in Nat /\ k <= m /\ m \in Nat
    BY <1>1, <1>4
  <2>2. Encodable(g) \subseteq 0..m
    BY <2>1
  <2>3. 0..m \subseteq Encodable(g)
    BY <1>5
  <2> QED  BY <2>2, <2>3
<1> QED  BY <1>1, <1>3, <1>4, <1>6

\* What is printed of an array, place after place: a string of bytes.
Strings(h, g, m) ==
    /\ h \in [0..m -> Seq(Byte)]
    /\ h[0] = <<>>
    /\ \A n \in 1..m : h[n] = h[n - 1] \o utf32_str8(g.slot[n - 1])
    /\ Printed(g) = h[m]

LEMMA PrintedStrings ==
    ASSUME NEW g, HeldCodes(g)
    PROVE  \E m \in 0..g.size : \E h : Encodable(g) = 0..m /\ Strings(h, g, m)
<1>1. g.size \in Nat
  BY PartsOfSound DEF HeldCodes
<1>2. PICK m \in 0..g.size :
        /\ Encodable(g) = 0..m
        /\ m = CHOOSE n \in Encodable(g) : \A k \in Encodable(g) : k <= n
  BY <1>1, EncodableUpTo
<1> DEFINE S == Seq(Byte)
           e == <<>>
           Part(n) == utf32_str8(g.slot[n - 1])
           G == [n \in 1..m |-> [st \in S |-> st \o Part(n)]]
           f == CHOOSE str : str = [n \in Encodable(g) |->
                  IF n = 0 THEN <<>> ELSE str[n - 1] \o utf32_str8(g.slot[n - 1])]
<1>3. Printed(g) = f[m]
  BY <1>2 DEF Printed
<1>4. \A n \in 1..m : n - 1 \in 0..m /\ Part(n) \in S
  <2> SUFFICES ASSUME NEW n \in 1..m PROVE n - 1 \in 0..m /\ Part(n) \in S
    OBVIOUS
  <2>1. n - 1 \in 0..m /\ n - 1 \in 0..(g.size - 1)
    BY <1>1, <1>2
  <2>2. g.slot[n - 1] \in Nat
    BY <2>1, ReadersAssumption DEF HeldCodes
  <2> QED  BY <2>1, <2>2, EncodingIsBytes
<1>5. e \in S /\ m \in Nat
  BY <1>1, <1>2
<1>6. \A x, y \in S : x \o y \in S
  BY ConcatProperties
<1> HIDE DEF S, e, Part
<1>7. G \in [1..m -> [S -> S]] /\ \A n \in 1..m, st \in S : G[n][st] = st \o Part(n)
  BY <1>4, <1>6
<1> HIDE DEF G
<1>8. PICK h : GoesBy(h, S, e, G, m)
  BY <1>5, <1>7, GoesByExists
<1>9. /\ h \in [0..m -> S] /\ h[0] = e
      /\ \A n \in 1..m : h[n] = h[n - 1] \o Part(n)
  BY <1>4, <1>7, <1>8 DEF GoesBy
<1> DEFINE Goes(k) == k = [n \in 0..m |-> IF n = 0 THEN e ELSE k[n - 1] \o Part(n)]
<1>10. Goes(h)
  <2>1. ASSUME NEW n \in 0..m
        PROVE  h[n] = IF n = 0 THEN e ELSE h[n - 1] \o Part(n)
    <3>1. CASE n = 0
      BY <1>9, <3>1
    <3>2. CASE n # 0
      <4>1. n \in 1..m
        BY <1>5, <3>2
      <4> QED  BY <1>9, <3>2, <4>1
    <3> QED  BY <3>1, <3>2
  <2>2. h = [n \in 0..m |-> h[n]]
    BY <1>9
  <2> QED  BY <2>1, <2>2
<1>11. f = CHOOSE k : Goes(k)
  BY <1>2 DEF e, Part
<1>12. Goes(f)
  <2> HIDE DEF Goes, f
  <2> QED  BY <1>10, <1>11
<1>13. \A n \in 0..m : f[n] = h[n]
  <2> HIDE DEF f
  <2>1. f[0] = e /\ \A n \in 1..m : f[n] = f[n - 1] \o Part(n)
    <3>1. f = [n \in 0..m |-> IF n = 0 THEN e ELSE f[n - 1] \o Part(n)]
      BY <1>12
    <3> HIDE DEF Goes
    <3>2. 0 \in 0..m /\ \A n \in 1..m : n \in 0..m /\ n # 0
      BY <1>5
    <3>3. f[0] = e
      BY <3>1, <3>2, Zenon
    <3>4. ASSUME NEW n \in 1..m PROVE f[n] = f[n - 1] \o Part(n)
      BY <3>1, <3>2
    <3> QED  BY <3>3, <3>4
  <2> HIDE DEF Goes
  <2>2. StepsBy(f, S, e, G, m)
    BY <1>7, <2>1 DEF StepsBy
  <2>3. e \in S /\ m \in Nat /\ G \in [1..m -> [S -> S]]
    BY <1>5, <1>7
  <2> QED  BY <1>8, <2>2, <2>3, GoesByUnique
<1>14. Printed(g) = h[m]
  <2> HIDE DEF f
  <2>1. m \in 0..m
    BY <1>5
  <2> QED  BY <1>3, <1>13, <2>1
<1> HIDE DEF f, Goes
<1>15. Strings(h, g, m)
  BY <1>9, <1>14 DEF Strings, S, e, Part
<1> QED  BY <1>2, <1>15

LEMMA PrintedIsBytes ==
    ASSUME NEW g, HeldCodes(g)
    PROVE  Printed(g) \in Seq(Byte)
<1>1. PICK m \in 0..g.size : \E h : Strings(h, g, m)
  BY PrintedStrings
<1>2. PICK h : Strings(h, g, m)
  BY <1>1
<1>3. m \in 0..m
  BY PartsOfSound DEF HeldCodes
<1> QED  BY <1>3, <1>2 DEF Strings

-----------------------------------------------------------------------------
(***************************************************************************)
(* The texts of a script, and what the readers keep.                       *)
(***************************************************************************)
LEMMA TextIsReadable ==
    ASSUME NEW s \in Texts
    PROVE  /\ s \in Seq(Byte)
           /\ Readable(s, 0..Len(s))
           /\ IsText(s) => Readable(s, Cuts(s))
<1>1. s \in Seq(Byte) /\ Len(s) \in Nat
  BY ReadersAssumption, LenProperties
<1>2. ASSUME NEW n \in 0..Len(s)
      PROVE  /\ ReadAt(s, n).uc # INVALID_CHAR => ReadAt(s, n).uc \in Value
             /\ n + ReadAt(s, n).units \in 0..Len(s)
  <2>1. ReadAt(s, n).uc = Code(From(s, n), INVALID_CHAR)
    BY DEF ReadAt, ucode8Fore
  <2>2. ReadAt(s, n).uc \in Value \cup {INVALID_CHAR}
    BY <2>1, ReadersAssumption
  <2>3. n + ReadAt(s, n).units \in 0..Len(s)
    BY <1>1, DecodeAt, Zenon DEF ReadAt
  <2> QED  BY <2>2, <2>3
<1>3. Readable(s, 0..Len(s))
  BY <1>1, <1>2 DEF Readable
<1>4. ASSUME IsText(s) PROVE Readable(s, Cuts(s))
  <2>1. 0 \in Cuts(s) /\ Cuts(s) \subseteq 0..Len(s)
    BY <1>1 DEF Cuts
  <2>2. ASSUME NEW n \in Cuts(s), ReadAt(s, n).units > 0
        PROVE  n + ReadAt(s, n).units \in Cuts(s)
    <3>1. CASE n = Len(s)
      <4>1. n + ReadAt(s, n).units \in 0..Len(s)
        BY <1>2, <2>1
      <4>2. ReadAt(s, n).units \in Nat
        BY <1>1, <2>1, DecodeAt, Zenon DEF ReadAt
      <4> QED  BY <1>1, <2>2, <3>1, <4>1, <4>2
    <3>2. CASE n # Len(s)
      <4>1. n + ReadAt(s, n).units = After(s, n)
        BY <1>1, <1>4, <3>2, DecodesText DEF ReadAt
      <4> QED  BY <1>1, <3>2, <4>1, NextCut
    <3> QED  BY <3>1, <3>2
  <2> QED  BY <1>2, <2>1, <2>2 DEF Readable
<1> QED  BY <1>1, <1>3, <1>4

Keeping ==
    /\ text \in Texts
    /\ cursor = Cursor(cursor.current, cursor.next, cursor.ucode)
    /\ rewind_called \in BOOLEAN
    /\ codes = Unmade \/ HeldCodes(codes)
    /\ out \in Seq(Byte)
    /\ code \in CodePoint \cup {INVALID_CHAR} \cup Stale
    /\ HoldsText

LEMMA KeepingInit == Init => Keeping
<1> SUFFICES ASSUME Init PROVE Keeping
  OBVIOUS
<1>1. cursor = Cursor(cursor.current, cursor.next, cursor.ucode)
  BY CursorFields DEF Init, Rewound
<1>2. 0 \in CodePoint
  BY DEF CodePoint, MaxCode
<1>3. HoldsText
  BY DEF Init, HoldsText, Made
<1>4. out \in Seq(Byte)
  BY DEF Init
<1> QED  BY <1>1, <1>2, <1>3, <1>4 DEF Init, Keeping

LEMMA KeepingNext == Inside /\ Keeping /\ [Next]_vars => Keeping'
<1> SUFFICES ASSUME Inside, Keeping, [Next]_vars PROVE Keeping'
  OBVIOUS
<1>0. text \in Seq(Byte) /\ text \in Texts /\ index \in 0..Len(text)
  BY DEF Inside, OffsetsInside, Keeping
<1>1. \A c : LET m == phiz_str8_move(c, text)
             IN  m = Cursor(m.current, m.next, m.ucode)
  <2> SUFFICES ASSUME NEW c, NEW m, m = phiz_str8_move(c, text)
               PROVE  m = Cursor(m.current, m.next, m.ucode)
    OBVIOUS
  <2>1. \E x, y, z : m = Cursor(x, y, z)
    BY DEF phiz_str8_move
  <2> QED  BY <2>1, CursorFields
<1>2. CASE Rewind
  <2>1. cursor' = Cursor(cursor'.current, cursor'.next, cursor'.ucode)
    BY <1>1, <1>2 DEF Rewind, OnFirst
  <2> QED  BY <1>2, <2>1 DEF Rewind, csu32, walker, Keeping, HoldsText, Made
<1>3. CASE MoveForward
  <2>1. cursor' = Cursor(cursor'.current, cursor'.next, cursor'.ucode)
    BY <1>1, <1>3 DEF MoveForward
  <2> QED  BY <1>3, <2>1 DEF MoveForward, csu32, walker, Keeping, HoldsText, Made
<1>4. CASE Csu32(text)
  <2>1. codes' = Filled(text) /\ UNCHANGED <<text, cursor, rewind_called, out, code>>
    BY <1>4 DEF Csu32, csu8, walker
  <2>2. HeldCodes(codes')
    BY <1>0, <2>1, TextIsReadable, FilledHeld
  <2>3. HoldsText'
    <3> SUFFICES ASSUME IsText(text)
                 PROVE  /\ codes'.size >= Place(text, Len(text))
                        /\ \A k \in Cuts(text) \ {Len(text)} :
                              codes'.slot[Place(text, k)]
                                = Scalar(Character(text, k))
      BY <2>1 DEF HoldsText
    <3>1. /\ Filled(text).size = Place(text, Len(text))
          /\ \A k \in Cuts(text) \ {Len(text)} :
                Filled(text).slot[Place(text, k)] = Scalar(Character(text, k))
      BY <1>0, TextIsReadable, FilledHolds
    <3>2. codes'.size \in Nat
      BY <2>2, PartsOfSound DEF HeldCodes
    <3> QED  BY <2>1, <3>1, <3>2
  <2> QED  BY <2>1, <2>2, <2>3 DEF Keeping
<1>5. CASE \E v \in Pushed : Push(v)
  <2>1. PICK v \in Pushed : Push(v)
    BY <1>5
  <2>2. /\ codes # Unmade /\ codes' = Appended(codes, v)
        /\ UNCHANGED <<text, cursor, rewind_called, out, code>>
    BY <2>1 DEF Push, Made, csu8, walker
  <2>3. HeldCodes(codes) /\ v \in Value
    BY <2>2, ReadersAssumption DEF Keeping
  <2>4. /\ HeldCodes(codes') /\ codes'.size = codes.size + 1
        /\ \A i \in 0..(codes.size - 1) : codes'.slot[i] = codes.slot[i]
    BY <2>2, <2>3, AppendedHeld
  <2>5. codes.size \in Nat
    BY <2>3, PartsOfSound DEF HeldCodes
  <2>6. HoldsText'
    <3> SUFFICES ASSUME IsText(text)
                 PROVE  /\ codes'.size >= Place(text, Len(text))
                        /\ \A k \in Cuts(text) \ {Len(text)} :
                              codes'.slot[Place(text, k)]
                                = Scalar(Character(text, k))
      BY <2>2 DEF HoldsText
    <3>1. /\ codes.size >= Place(text, Len(text))
          /\ \A k \in Cuts(text) \ {Len(text)} :
                codes.slot[Place(text, k)] = Scalar(Character(text, k))
      BY <2>2 DEF Keeping, HoldsText, Made
    <3>2. Len(text) \in Cuts(text) /\ Cuts(text) \subseteq 0..Len(text)
          /\ Len(text) \in Nat
      BY <1>0, LenProperties DEF Cuts
    <3>3. ASSUME NEW k \in Cuts(text) \ {Len(text)}
          PROVE  codes'.slot[Place(text, k)] = Scalar(Character(text, k))
      <4>1. k < Len(text)
        BY <3>2
      <4>2. /\ Place(text, k) \in Nat /\ Place(text, Len(text)) \in Nat
            /\ Place(text, k) < Place(text, Len(text))
        BY <1>0, <3>2, <4>1, Places
      <4>3. Place(text, k) \in 0..(codes.size - 1)
        BY <2>5, <3>1, <4>2
      <4> QED  BY <2>4, <3>1, <4>3
    <3>4. Place(text, Len(text)) \in Nat
      BY <1>0, <3>2, Places
    <3> QED  BY <2>4, <2>5, <3>1, <3>3, <3>4
  <2> QED  BY <2>2, <2>4, <2>6 DEF Keeping
<1>6. CASE toString
  <2>1. /\ codes # Unmade /\ out' = Printed(codes)
        /\ UNCHANGED <<text, cursor, rewind_called, codes, code>>
    BY <1>6 DEF toString, Made, csu8, walker
  <2>2. out' \in Seq(Byte)
    BY <2>1, PrintedIsBytes DEF Keeping
  <2> QED  BY <2>1, <2>2 DEF Keeping, HoldsText, Made
<1>7. CASE str_utf8c
  <2>1. PICK stale \in Stale :
          code' = ucode8Fore(From(text, index), stale).uc
    BY <1>7 DEF str_utf8c
  <2>2. code' \in CodePoint \cup {INVALID_CHAR, stale}
    BY <1>0, <2>1, DecodeAt, Zenon
  <2>3. UNCHANGED <<text, cursor, rewind_called, codes, out>>
    BY <1>7 DEF str_utf8c, csu8, csu32
  <2> QED  BY <2>2, <2>3 DEF Keeping, HoldsText, Made
<1>8. CASE UNCHANGED vars
  BY <1>8 DEF vars, Keeping, HoldsText, Made
<1> QED  BY <1>2, <1>3, <1>4, <1>5, <1>6, <1>7, <1>8 DEF Next

\* The variables have their types and the Csu32 object's block has room for the
\* codes it counts, whatever the texts hold.
THEOREM ReadersTypes == Spec => []TypeOK
<1>1. Keeping => TypeOK
  BY DEF Keeping, TypeOK, HeldCodes, Sound
<1> QED
  BY InsideInit, InsideNext, KeepingInit, KeepingNext, <1>1, PTL DEF Spec

\* A Csu32 made from a text in UTF-8 begins with its characters, for every text
\* and every growth table.
THEOREM Csu32HoldsText == Spec => []HoldsText
<1>1. Keeping => HoldsText
  BY DEF Keeping
<1> QED
  BY InsideInit, InsideNext, KeepingInit, KeepingNext, <1>1, PTL DEF Spec

-----------------------------------------------------------------------------
(***************************************************************************)
(* What __toString prints is read again as the codes it was made of.       *)
(***************************************************************************)
\* The codes that are printed, and the first that is not.
LEMMA PrintedCodes ==
    ASSUME NEW g, HeldCodes(g), NEW m \in 0..g.size, Encodable(g) = 0..m
    PROVE  /\ \A i \in 0..(m - 1) : g.slot[i] \in CodePoint /\ g.slot[i] \in Value
           /\ m < g.size => g.slot[m] \notin CodePoint
<1>1. g.size \in Nat /\ \A i \in 0..(g.size - 1) : g.slot[i] \in Value /\ g.slot[i] \in Nat
  BY PartsOfSound, ReadersAssumption DEF HeldCodes
<1>2. \A d \in Nat : d \in CodePoint <=> utf32_str8(d) # <<>>
  <2> SUFFICES ASSUME NEW d \in Nat PROVE d \in CodePoint <=> utf32_str8(d) # <<>>
    OBVIOUS
  <2>1. CASE d > MaxCode
    <3>1. ~ (d < 128) /\ ~ (d < 2048) /\ ~ (d < 65536) /\ d \notin CodePoint
      BY <2>1 DEF MaxCode, CodePoint
    <3> QED  BY <2>1, <3>1 DEF utf32_str8
  <2>2. CASE ~ (d > MaxCode)
    <3>1. d \in CodePoint
      BY <2>2 DEF CodePoint, MaxCode
    <3>2. Code(utf32_str8(d), 0) = d /\ d # INVALID_CHAR
      <4>1. ucode8Fore(utf32_str8(d), 0).uc = d
        BY <3>1, RoundTrip
      <4>2. d # INVALID_CHAR
        BY <2>2, InvalidCharAssumption DEF MaxCode
      <4> QED  BY <4>1, <4>2 DEF ucode8Fore
    <3>3. Len(<<>>) = 0
      OBVIOUS
    <3>4. Code(<<>>, 0) = INVALID_CHAR
      BY <3>3, Zenon DEF Code
    <3> QED  BY <3>1, <3>2, <3>4, Zenon
  <2> QED  BY <2>1, <2>2
<1>3. m \in Encodable(g)
  BY <1>1
<1>4. \A i \in 0..(m - 1) : utf32_str8(g.slot[i]) # <<>>
  BY <1>3 DEF Encodable
<1>5. ASSUME m < g.size PROVE utf32_str8(g.slot[m]) = <<>>
  <2> SUFFICES ASSUME utf32_str8(g.slot[m]) # <<>> PROVE FALSE
    OBVIOUS
  <2>1. \A i \in 0..((m + 1) - 1) : utf32_str8(g.slot[i]) # <<>>
    <3>1. \A i \in 0..((m + 1) - 1) : i = m \/ i \in 0..(m - 1)
      BY <1>1
    <3> QED  BY <1>4, <3>1
  <2>2. m + 1 \in 0..g.size
    BY <1>1, <1>5
  <2>3. m + 1 \in Encodable(g)
    BY <2>1, <2>2 DEF Encodable
  <2> QED  BY <1>1, <2>3
<1>6. \A i \in 0..(m - 1) : i \in 0..(g.size - 1)
  BY <1>1
<1>7. m < g.size => m \in 0..(g.size - 1)
  BY <1>1
<1> QED  BY <1>1, <1>2, <1>4, <1>5, <1>6, <1>7

\* The decoder looks at no byte behind the ones it consumes.
LEMMA DecodesEncoded ==
    ASSUME NEW d \in CodePoint, NEW rest \in Seq(Byte), NEW before,
           Len(utf32_str8(d)) <= Len(rest),
           \A j \in 1..Len(utf32_str8(d)) : rest[j] = utf32_str8(d)[j]
    PROVE  /\ ucode8Fore(rest, before) = [uc |-> d, units |-> Len(utf32_str8(d))]
           /\ Len(utf32_str8(d)) > 0
<1> DEFINE c == utf32_str8(d)
<1>1. c \in Seq(Byte) /\ Len(c) \in Nat /\ Len(rest) \in Nat
  BY EncodingIsBytes, LenProperties DEF CodePoint
<1>2. Code(c, before) = d /\ Used(c) = Len(c)
  BY RoundTrip DEF ucode8Fore
<1>3. INVALID_CHAR \notin CodePoint
  BY InvalidCharAssumption, SMT DEF CodePoint, MaxCode
<1> HIDE DEF c
<1>4. ~ (Len(c) = 0 \/ Len(c) < Width(c[1]))
  BY <1>2, <1>3, Zenon DEF Code
<1>5. Width(c[1]) = Len(c)
  BY <1>2, <1>4 DEF Used
<1>6. Len(c) > 0 /\ rest[1] = c[1] /\ Len(rest) > 0
  BY <1>1, <1>4 DEF c
<1>7. Used(rest) = Len(c)
  BY <1>1, <1>5, <1>6 DEF Used, c
<1>8. ~ (Len(rest) = 0 \/ Len(rest) < Width(rest[1]))
  BY <1>1, <1>5, <1>6 DEF c
<1>9. c[1] \in 194..223 => Two(rest) = Two(c)
  <2> SUFFICES ASSUME c[1] \in 194..223 PROVE Two(rest) = Two(c)
    OBVIOUS
  <2>1. Len(c) = 2
    BY <1>5, WidthByLead
  <2>2. rest[2] = c[2]
    BY <2>1 DEF c
  <2> QED  BY <1>6, <2>2 DEF Two
<1>10. c[1] \in 224..239 => Three(rest) = Three(c)
  <2> SUFFICES ASSUME c[1] \in 224..239 PROVE Three(rest) = Three(c)
    OBVIOUS
  <2>1. Len(c) = 3
    BY <1>5, WidthByLead
  <2>2. rest[2] = c[2] /\ rest[3] = c[3]
    BY <2>1 DEF c
  <2> QED  BY <1>6, <2>2 DEF Three
<1>11. c[1] \in 240..244 => Four(rest) = Four(c)
  <2> SUFFICES ASSUME c[1] \in 240..244 PROVE Four(rest) = Four(c)
    OBVIOUS
  <2>1. Len(c) = 4
    BY <1>5, WidthByLead
  <2>2. rest[2] = c[2] /\ rest[3] = c[3] /\ rest[4] = c[4]
    BY <2>1 DEF c
  <2> QED  BY <1>6, <2>2 DEF Four
<1>12. Code(rest, before) = Code(c, before)
  <2>1. Code(c, before) =
          IF c[1] < 128             THEN c[1]
          ELSE IF c[1] \in 128..193 THEN before
          ELSE IF c[1] \in 194..223 THEN Two(c)
          ELSE IF c[1] \in 224..239 THEN Three(c)
          ELSE IF c[1] \in 240..244 THEN InRange(Four(c))
          ELSE INVALID_CHAR
    BY <1>4, Zenon DEF Code
  <2>2. Code(rest, before) =
          IF rest[1] < 128             THEN rest[1]
          ELSE IF rest[1] \in 128..193 THEN before
          ELSE IF rest[1] \in 194..223 THEN Two(rest)
          ELSE IF rest[1] \in 224..239 THEN Three(rest)
          ELSE IF rest[1] \in 240..244 THEN InRange(Four(rest))
          ELSE INVALID_CHAR
    BY <1>8, Zenon DEF Code
  <2> QED  BY <2>1, <2>2, <1>6, <1>9, <1>10, <1>11
<1> QED  BY <1>2, <1>6, <1>7, <1>12 DEF ucode8Fore, c

\* Two strings of bytes, one after the other.
LEMMA OneAfterTheOther ==
    ASSUME NEW x \in Seq(Byte), NEW y \in Seq(Byte)
    PROVE  /\ x \o y \in Seq(Byte)
           /\ Len(x \o y) = Len(x) + Len(y)
           /\ \A j \in 1..(Len(x) + Len(y)) :
                 (x \o y)[j] = IF j <= Len(x) THEN x[j] ELSE y[j - Len(x)]
  BY ConcatProperties, Zenon

\* What has been printed stays in front of what is printed after it.
LEMMA Prefixes ==
    ASSUME NEW g, HeldCodes(g), NEW m \in 0..g.size, NEW h, Strings(h, g, m),
           NEW n \in 0..m
    PROVE  \A k \in n..m : /\ Len(h[n]) <= Len(h[k])
                           /\ \A j \in 1..Len(h[n]) : h[k][j] = h[n][j]
<1>1. m \in Nat /\ g.size \in Nat
  BY PartsOfSound DEF HeldCodes
<1>2. \A k \in 0..m : h[k] \in Seq(Byte) /\ Len(h[k]) \in Nat
  BY LenProperties DEF Strings
<1> DEFINE Front(k) == /\ Len(h[n]) <= Len(h[k])
                       /\ \A j \in 1..Len(h[n]) : h[k][j] = h[n][j]
           Bad == {k \in n..m : ~ Front(k)}
<1> SUFFICES ASSUME Bad # {} PROVE FALSE
  OBVIOUS
<1>3. PICK k \in Bad : \A i \in Bad : k <= i
  <2>1. Bad \in SUBSET Nat
    BY <1>1
  <2> HIDE DEF Bad
  <2> QED  BY <2>1, LeastElement
<1>4. k \in n..m /\ ~ Front(k)
  BY <1>3
<1>5. k # n
  BY <1>2, <1>4
<1>6. k - 1 \in n..m /\ k - 1 \in 0..m /\ k \in 1..m
  BY <1>1, <1>4, <1>5
<1>7. Front(k - 1)
  BY <1>1, <1>3, <1>6
<1>8. h[k] = h[k - 1] \o utf32_str8(g.slot[k - 1])
  BY <1>6 DEF Strings
<1>9. utf32_str8(g.slot[k - 1]) \in Seq(Byte)
  <2>1. k - 1 \in 0..(g.size - 1)
    BY <1>1, <1>6
  <2>2. g.slot[k - 1] \in Nat
    BY <2>1, ReadersAssumption DEF HeldCodes
  <2> QED  BY <2>2, EncodingIsBytes
<1>10. /\ Len(h[k - 1]) <= Len(h[k])
       /\ \A j \in 1..Len(h[k - 1]) : h[k][j] = h[k - 1][j]
  <2>1. h[k - 1] \in Seq(Byte) /\ Len(h[k - 1]) \in Nat
    BY <1>2, <1>6
  <2>2. Len(utf32_str8(g.slot[k - 1])) \in Nat
    BY <1>9, LenProperties
  <2>3. PICK x, y : x = h[k - 1] /\ y = utf32_str8(g.slot[k - 1])
    OBVIOUS
  <2>4. Len(x \o y) = Len(x) + Len(y)
        /\ \A j \in 1..(Len(x) + Len(y)) :
              (x \o y)[j] = IF j <= Len(x) THEN x[j] ELSE y[j - Len(x)]
    BY <1>9, <2>1, <2>3, OneAfterTheOther
  <2>5. h[k] = x \o y /\ Len(x) \in Nat /\ Len(y) \in Nat
    BY <1>8, <2>1, <2>2, <2>3
  <2>6. Len(x) <= Len(h[k]) /\ \A j \in 1..Len(x) : h[k][j] = x[j]
    BY <2>4, <2>5
  <2> QED  BY <2>3, <2>6
<1>11. Front(k)
  <2>1. Len(h[n]) \in Nat /\ Len(h[k - 1]) \in Nat /\ Len(h[k]) \in Nat
    BY <1>1, <1>2, <1>6
  <2> QED  BY <1>7, <1>10, <2>1
<1> QED  BY <1>4, <1>11

\* At the beginning of each code the decoder finds the code.
LEMMA PrintedBytes ==
    ASSUME NEW g, HeldCodes(g), NEW m \in 0..g.size, NEW h, Strings(h, g, m),
           Encodable(g) = 0..m, NEW i \in 0..(m - 1)
    PROVE  LET r == ReadAt(h[m], Len(h[i]))
           IN  /\ r.uc = g.slot[i] /\ r.uc \in Value /\ r.uc # INVALID_CHAR
               /\ r.units > 0
               /\ Len(h[i]) + r.units = Len(h[i + 1])
               /\ Len(h[i]) < Len(h[i + 1]) /\ Len(h[i + 1]) <= Len(h[m])
<1>1. m \in Nat /\ i \in 0..m /\ i + 1 \in 0..m /\ i + 1 \in 1..m /\ m \in (i + 1)..m
      /\ (i + 1) - 1 = i
  BY PartsOfSound DEF HeldCodes
<1>2. h[i] \in Seq(Byte) /\ h[m] \in Seq(Byte) /\ h[i + 1] \in Seq(Byte)
  BY <1>1 DEF Strings
<1>3. PICK p, x, y, s : p = utf32_str8(g.slot[i]) /\ x = h[i] /\ y = h[i + 1] /\ s = h[m]
  OBVIOUS
<1>4. g.slot[i] \in CodePoint /\ g.slot[i] \in Value
  BY PrintedCodes
<1>5. p \in Seq(Byte)
  BY <1>3, <1>4, EncodingIsBytes DEF CodePoint
<1>6. Len(p) \in Nat /\ Len(x) \in Nat /\ Len(y) \in Nat /\ Len(s) \in Nat
  BY <1>2, <1>3, <1>5, LenProperties
<1>7. y = x \o p
  BY <1>1, <1>3 DEF Strings
<1>8. /\ Len(y) = Len(x) + Len(p)
      /\ \A j \in 1..Len(p) : y[Len(x) + j] = p[j]
  <2>1. /\ Len(x \o p) = Len(x) + Len(p)
        /\ \A j \in 1..(Len(x) + Len(p)) :
              (x \o p)[j] = IF j <= Len(x) THEN x[j] ELSE p[j - Len(x)]
    BY <1>2, <1>3, <1>5, OneAfterTheOther
  <2>2. ASSUME NEW j \in 1..Len(p) PROVE y[Len(x) + j] = p[j]
    <3>1. /\ Len(x) + j \in 1..(Len(x) + Len(p)) /\ ~ (Len(x) + j <= Len(x))
          /\ (Len(x) + j) - Len(x) = j
      BY <1>6
    <3> QED  BY <1>7, <2>1, <3>1
  <2> QED  BY <1>7, <2>1, <2>2
<1>9. Len(y) <= Len(s) /\ \A j \in 1..Len(y) : s[j] = y[j]
  BY <1>1, <1>3, Prefixes
<1>10. PICK rest : rest = From(s, Len(x))
  OBVIOUS
<1>11. /\ rest \in Seq(Byte) /\ Len(rest) = Len(s) - Len(x)
       /\ \A j \in 1..(Len(s) - Len(x)) : rest[j] = s[Len(x) + j]
  <2>1. Len(x) + 1 \in Int /\ Len(s) \in Int
    BY <1>6
  <2>2. \A j \in (Len(x) + 1)..Len(s) : s[j] \in Byte
    BY <1>2, <1>3, <1>6
  <2>3. /\ rest \in Seq(Byte)
        /\ Len(rest) = IF Len(x) + 1 <= Len(s) THEN Len(s) - (Len(x) + 1) + 1 ELSE 0
        /\ \A j \in 1..(Len(s) - (Len(x) + 1) + 1) : rest[j] = s[(Len(x) + 1) + j - 1]
    BY <1>10, <2>1, <2>2, SubSeqProperties DEF From
  <2>4. Len(s) - (Len(x) + 1) + 1 = Len(s) - Len(x)
        /\ \A j \in 1..(Len(s) - Len(x)) : (Len(x) + 1) + j - 1 = Len(x) + j
    BY <1>6
  <2>5. Len(rest) = Len(s) - Len(x)
    BY <1>6, <1>8, <1>9, <2>3
  <2> QED  BY <2>3, <2>4, <2>5
<1>12. Len(p) <= Len(rest) /\ \A j \in 1..Len(p) : rest[j] = p[j]
  <2>1. Len(p) <= Len(rest)
    BY <1>6, <1>8, <1>9, <1>11
  <2>2. ASSUME NEW j \in 1..Len(p) PROVE rest[j] = p[j]
    <3>1. j \in 1..(Len(s) - Len(x)) /\ Len(x) + j \in 1..Len(y)
      BY <1>6, <1>8, <1>9
    <3> QED  BY <1>8, <1>9, <1>11, <3>1
  <2> QED  BY <2>1, <2>2
<1>13. /\ ucode8Fore(rest, INVALID_CHAR) = [uc |-> g.slot[i], units |-> Len(p)]
       /\ Len(p) > 0
  BY <1>3, <1>4, <1>11, <1>12, DecodesEncoded
<1>14. g.slot[i] # INVALID_CHAR
  BY <1>4, InvalidCharAssumption DEF CodePoint, MaxCode
<1>15. ReadAt(s, Len(x)) = [uc |-> g.slot[i], units |-> Len(p)]
  BY <1>10, <1>13 DEF ReadAt
<1>16. Len(x) + Len(p) = Len(y) /\ Len(x) < Len(y)
  BY <1>6, <1>8, <1>13
<1>17. ReadAt(s, Len(x)).uc = g.slot[i] /\ ReadAt(s, Len(x)).units = Len(p)
  BY <1>15
<1> QED  BY <1>3, <1>4, <1>9, <1>13, <1>14, <1>16, <1>17

\* Where the codes begin in what is printed, and the end of it.
Begins(h, m) == {Len(h[i]) : i \in 0..m}

LEMMA PrintedReadable ==
    ASSUME NEW g, HeldCodes(g), NEW m \in 0..g.size, NEW h, Strings(h, g, m),
           Encodable(g) = 0..m
    PROVE  /\ h[m] \in Seq(Byte)
           /\ Readable(h[m], Begins(h, m))
           /\ \A i \in 0..m : Len(h[i]) \in 0..Len(h[m])
           /\ \A i \in 0..(m - 1) : Len(h[i]) < Len(h[m])
           /\ ~ (ReadAt(h[m], Len(h[m])).units > 0)
<1>1. m \in Nat
  BY PartsOfSound DEF HeldCodes
<1>2. \A i \in 0..m : h[i] \in Seq(Byte) /\ Len(h[i]) \in Nat
  BY LenProperties DEF Strings
<1>3. \A i \in 0..m : Len(h[i]) \in 0..Len(h[m])
  <2> SUFFICES ASSUME NEW i \in 0..m PROVE Len(h[i]) \in 0..Len(h[m])
    OBVIOUS
  <2>1. m \in i..m /\ m \in 0..m
    BY <1>1
  <2>2. Len(h[i]) <= Len(h[m])
    BY <2>1, Prefixes
  <2> QED  BY <1>2, <2>1, <2>2
<1>4. ASSUME NEW i \in 0..(m - 1) PROVE Len(h[i]) < Len(h[m])
  <2>1. Len(h[i]) < Len(h[i + 1]) /\ Len(h[i + 1]) <= Len(h[m])
    BY PrintedBytes
  <2>2. i \in 0..m /\ i + 1 \in 0..m /\ m \in 0..m
    BY <1>1
  <2>3. Len(h[i]) \in Nat /\ Len(h[i + 1]) \in Nat /\ Len(h[m]) \in Nat
    BY <1>2, <2>2
  <2> QED  BY <2>1, <2>3
<1>5. ~ (ReadAt(h[m], Len(h[m])).units > 0)
  <2>1. h[m] \in Seq(Byte) /\ Len(h[m]) \in Nat /\ Len(h[m]) \in 0..Len(h[m])
    BY <1>1, <1>2
  <2>2. PICK u : u = ReadAt(h[m], Len(h[m])).units
    OBVIOUS
  <2>3. u \in Nat /\ Len(h[m]) + u \in 0..Len(h[m])
    BY <2>1, <2>2, DecodeAt, Zenon DEF ReadAt
  <2> QED  BY <2>1, <2>2, <2>3
<1> DEFINE P == {Len(h[i]) : i \in 0..m}
<1>6. 0 \in P
  <2>1. Len(h[0]) = 0 /\ 0 \in 0..m
    BY <1>1 DEF Strings
  <2> QED  BY <2>1
<1>7. P \subseteq 0..Len(h[m])
  BY <1>3
<1>8. ASSUME NEW n \in P, ReadAt(h[m], n).units > 0
      PROVE  ReadAt(h[m], n).uc \in Value /\ n + ReadAt(h[m], n).units \in P
  <2>1. PICK i \in 0..m : n = Len(h[i])
    OBVIOUS
  <2>2. i # m
    BY <1>5, <1>8, <2>1
  <2>3. i \in 0..(m - 1) /\ i + 1 \in 0..m
    BY <1>1, <2>2
  <2> QED  BY <2>1, <2>3, PrintedBytes
<1> HIDE DEF P
<1>9. Readable(h[m], P)
  BY <1>6, <1>7, <1>8 DEF Readable
<1>10. h[m] \in Seq(Byte)
  BY <1>1, <1>2
<1> QED  BY <1>3, <1>4, <1>5, <1>9, <1>10 DEF P, Begins

\* Where the loop of the constructor is after i of the codes.
ReadUpTo(st, g, h, i) ==
    /\ st.str8.next = Len(h[i])
    /\ st.gen.size = i
    /\ \A k \in 0..(i - 1) : st.gen.slot[k] = g.slot[k]

LEMMA ReadAgainStep ==
    ASSUME NEW g, HeldCodes(g), NEW m \in 0..g.size, NEW h, Strings(h, g, m),
           Encodable(g) = 0..m, NEW P, P = Begins(h, m),
           NEW st \in FillStates(P), NEW i \in 0..m, ReadUpTo(st, g, h, i),
           NEW t, t = FillStep(st, h[m])
    PROVE  \/ i = m /\ ReadUpTo(t, g, h, m)
           \/ /\ i + 1 \in 0..m
              /\ ReadUpTo(t, g, h, i + 1)
              /\ Len(h[i + 1]) > Len(h[i])
<1> DEFINE c == phiz_str8_move(st.str8, h[m])
           n == Len(h[i])
<1>1. m \in Nat /\ i \in Nat
  BY PartsOfSound DEF HeldCodes
<1>2. h[m] \in Seq(Byte) /\ Readable(h[m], P) /\ ~ (ReadAt(h[m], Len(h[m])).units > 0)
  BY PrintedReadable
<1>3. st.str8 \in Cursors(P) /\ HeldCodes(st.gen) /\ st.str8.next = n
      /\ st.gen.size = i
  BY DEF FillStates, ReadUpTo
<1>4. /\ phiz_str8_valid(c, h[m]) => /\ c.ucode = ReadAt(h[m], n).uc
                                     /\ c.next = n + ReadAt(h[m], n).units
                                     /\ ReadAt(h[m], n).units > 0
                                     /\ c.ucode \in Value
      /\ ~ phiz_str8_valid(c, h[m]) => c.next = n
      /\ (ReadAt(h[m], n).units > 0 /\ ReadAt(h[m], n).uc # INVALID_CHAR)
            => phiz_str8_valid(c, h[m])
  BY <1>2, <1>3, MoveReads
<1>5. /\ t.str8 = c
      /\ t.gen = IF phiz_str8_valid(c, h[m]) THEN Appended(st.gen, c.ucode) ELSE st.gen
  BY DEF FillStep
<1>6. CASE i = m
  <2>1. ~ phiz_str8_valid(c, h[m])
    BY <1>2, <1>4, <1>6
  <2>2. t.str8.next = n /\ t.gen = st.gen
    BY <1>4, <1>5, <2>1
  <2> QED  BY <1>6, <2>2 DEF ReadUpTo
<1>7. CASE i # m
  <2>1. i \in 0..(m - 1) /\ i + 1 \in 0..m
    BY <1>1, <1>7
  <2>2. /\ ReadAt(h[m], n).uc = g.slot[i] /\ ReadAt(h[m], n).uc # INVALID_CHAR
        /\ ReadAt(h[m], n).units > 0 /\ n + ReadAt(h[m], n).units = Len(h[i + 1])
        /\ n < Len(h[i + 1])
    BY <2>1, PrintedBytes
  <2>3. phiz_str8_valid(c, h[m])
    BY <1>4, <2>2
  <2>4. PICK a : a = Appended(st.gen, c.ucode)
    OBVIOUS
  <2>5. c.ucode = g.slot[i] /\ c.ucode \in Value /\ t.gen = a
        /\ t.str8.next = Len(h[i + 1])
    BY <1>4, <1>5, <2>2, <2>3, <2>4
  <2>6. /\ a.size = i + 1
        /\ \A k \in 0..(i - 1) : a.slot[k] = st.gen.slot[k]
        /\ a.slot[i] = g.slot[i]
    BY <1>3, <2>4, <2>5, AppendedHeld
  <2>7. ASSUME NEW k \in 0..((i + 1) - 1) PROVE a.slot[k] = g.slot[k]
    <3>1. k = i \/ k \in 0..(i - 1)
      BY <1>1
    <3>2. k \in 0..(i - 1) => st.gen.slot[k] = g.slot[k]
      BY DEF ReadUpTo
    <3> QED  BY <2>6, <3>1, <3>2
  <2>8. ReadUpTo(t, g, h, i + 1)
    BY <2>5, <2>6, <2>7 DEF ReadUpTo
  <2>9. Len(h[i + 1]) > Len(h[i])
    <3>1. Len(h[i]) \in Nat /\ Len(h[i + 1]) \in Nat
      BY <2>1, LenProperties DEF Strings
    <3> QED  BY <2>2, <3>1
  <2> QED  BY <2>1, <2>8, <2>9
<1> QED  BY <1>6, <1>7

LEMMA ReadAgainRounds ==
    ASSUME NEW g, HeldCodes(g), NEW m \in 0..g.size, NEW h, Strings(h, g, m),
           Encodable(g) = 0..m, NEW P, P = Begins(h, m),
           NEW r, Rounds(r, h[m], P)
    PROVE  \A n \in 0..Len(h[m]) :
              \E i \in 0..m : /\ ReadUpTo(r[n], g, h, i)
                              /\ Len(h[i]) >= n \/ i = m
<1> DEFINE Come(n) == \E i \in 0..m : /\ ReadUpTo(r[n], g, h, i)
                                      /\ Len(h[i]) >= n \/ i = m
           Bad == {n \in 0..Len(h[m]) : ~ Come(n)}
<1> SUFFICES ASSUME Bad # {} PROVE FALSE
  OBVIOUS
<1>1. PICK n \in Bad : \A k \in Bad : n <= k
  <2>1. Bad \in SUBSET Nat
    OBVIOUS
  <2> HIDE DEF Bad
  <2> QED  BY <2>1, LeastElement
<1>2. /\ Len(h[m]) \in Nat /\ n \in 0..Len(h[m]) /\ ~ Come(n) /\ m \in Nat
  <2>1. h[m] \in Seq(Byte)
    BY PrintedReadable
  <2> QED  BY <1>1, <2>1, LenProperties, PartsOfSound DEF HeldCodes
<1>3. CASE n = 0
  <2>1. r[0].str8 = Rewound /\ r[0].gen = EtypeCtor("packed")
    BY DEF Rounds, FillStart
  <2>2. r[0].str8.next = 0 /\ r[0].gen.size = 0
    BY <2>1, NoCodes, CursorFields DEF Rewound
  <2>3. Len(h[0]) = 0 /\ 0 \in 0..m
    BY <1>2 DEF Strings
  <2>4. ReadUpTo(r[0], g, h, 0)
    BY <2>2, <2>3 DEF ReadUpTo
  <2> QED  BY <1>2, <1>3, <2>3, <2>4
<1>4. CASE n # 0
  <2>1. n \in 1..Len(h[m]) /\ n - 1 \in 0..Len(h[m]) /\ Come(n - 1)
    <3>1. n \in 1..Len(h[m]) /\ n - 1 \in 0..Len(h[m]) /\ ~ (n <= n - 1)
      BY <1>2, <1>4
    <3>2. n - 1 \notin Bad
      <4> HIDE DEF Bad
      <4> QED  BY <1>1, <3>1
    <3> HIDE DEF Come
    <3> QED  BY <3>1, <3>2
  <2>2. PICK i \in 0..m : /\ ReadUpTo(r[n - 1], g, h, i)
                          /\ Len(h[i]) >= n - 1 \/ i = m
    BY <2>1
  <2>3. r[n] = FillStep(r[n - 1], h[m]) /\ r[n - 1] \in FillStates(P)
    BY <2>1 DEF Rounds
  <2>4. \/ i = m /\ ReadUpTo(r[n], g, h, m)
        \/ /\ i + 1 \in 0..m
           /\ ReadUpTo(r[n], g, h, i + 1)
           /\ Len(h[i + 1]) > Len(h[i])
    BY <2>2, <2>3, ReadAgainStep
  <2>5. CASE i = m
    <3>1. ReadUpTo(r[n], g, h, m)
      <4>1. i + 1 \notin 0..m
        BY <1>2, <2>5
      <4> QED  BY <2>4, <4>1
    <3>2. m \in 0..m
      BY <1>2
    <3> QED  BY <1>2, <3>1, <3>2
  <2>6. CASE i # m
    <3>1. /\ i + 1 \in 0..m /\ ReadUpTo(r[n], g, h, i + 1)
          /\ Len(h[i + 1]) > Len(h[i]) /\ Len(h[i]) >= n - 1
      BY <2>2, <2>4, <2>6
    <3>2. Len(h[i]) \in Nat /\ Len(h[i + 1]) \in Nat
      BY <3>1, LenProperties DEF Strings
    <3>3. Len(h[i + 1]) >= n
      BY <1>2, <3>1, <3>2
    <3> QED  BY <1>2, <3>1, <3>3
  <2> QED  BY <2>5, <2>6
<1> QED  BY <1>3, <1>4

LEMMA ReadsAgain ==
    ASSUME NEW g, HeldCodes(g)
    PROVE  LET again == Filled(Printed(g))
           IN  /\ again.size <= g.size
               /\ \A i \in 0..(again.size - 1) : again.slot[i] = g.slot[i]
               /\ again.size < g.size => g.slot[again.size] \notin CodePoint
<1>0. PICK m \in 0..g.size : \E h : Encodable(g) = 0..m /\ Strings(h, g, m)
  BY PrintedStrings
<1>1. PICK h : Encodable(g) = 0..m /\ Strings(h, g, m)
  BY <1>0
<1>2. PICK P : P = Begins(h, m)
  OBVIOUS
<1>3. /\ h[m] \in Seq(Byte) /\ Readable(h[m], P)
      /\ \A i \in 0..(m - 1) : Len(h[i]) < Len(h[m])
      /\ \A i \in 0..m : Len(h[i]) \in 0..Len(h[m])
  BY <1>1, <1>2, PrintedReadable
<1>4. PICK r : Rounds(r, h[m], P)
  BY <1>3, FillRounds
<1>5. m \in Nat /\ g.size \in Nat /\ m <= g.size /\ Len(h[m]) \in Nat
      /\ Len(h[m]) \in 0..Len(h[m])
  BY <1>3, LenProperties, PartsOfSound DEF HeldCodes
<1>6. PICK i \in 0..m : /\ ReadUpTo(r[Len(h[m])], g, h, i)
                        /\ Len(h[i]) >= Len(h[m]) \/ i = m
  BY <1>1, <1>2, <1>4, <1>5, ReadAgainRounds
<1>7. i = m
  <2> SUFFICES ASSUME i # m PROVE FALSE
    OBVIOUS
  <2>1. i \in 0..(m - 1)
    BY <1>5
  <2>2. Len(h[i]) < Len(h[m]) /\ Len(h[i]) >= Len(h[m]) /\ Len(h[i]) \in 0..Len(h[m])
    BY <1>3, <1>6, <2>1
  <2> QED  BY <1>5, <2>2
<1>8. Filled(Printed(g)) = r[Len(h[m])].gen
  BY <1>1, <1>4 DEF Rounds, Strings
<1>9. /\ Filled(Printed(g)).size = m
      /\ \A k \in 0..(m - 1) : Filled(Printed(g)).slot[k] = g.slot[k]
  BY <1>6, <1>7, <1>8 DEF ReadUpTo
<1>10. m < g.size => g.slot[m] \notin CodePoint
  BY <1>1, PrintedCodes
<1> QED  BY <1>5, <1>9, <1>10

\* What a Csu32 object prints is the UTF-8 form of its codes up to the first
\* that is no code point: a new object made from it holds these and no more.
THEOREM PrintsTheCodes == Spec => PrintsWhatItHolds
<1> DEFINE Again ==
      toString =>
          LET again == Filled(out')
          IN  /\ again.size <= codes.size
              /\ \A i \in 0..(again.size - 1) : again.slot[i] = codes.slot[i]
              /\ again.size < codes.size =>
                    codes.slot[again.size] \notin CodePoint
<1>1. Keeping => Again
  <2> SUFFICES ASSUME Keeping, toString PROVE Again
    OBVIOUS
  <2>1. HeldCodes(codes) /\ out' = Printed(codes)
    BY DEF Keeping, toString, Made
  <2> QED  BY <2>1, ReadsAgain
<1> QED
  BY InsideInit, InsideNext, KeepingInit, KeepingNext, <1>1, PTL
     DEF Spec, PrintsWhatItHolds

=============================================================================
