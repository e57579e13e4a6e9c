-------------------------------- MODULE Str8 --------------------------------
(***************************************************************************)
(* The cursor over a UTF-8 string of src/str8_obj.c: struct str8_obj as a  *)
(* record and the functions phiz_str8_* as operators on it.  The string s  *)
(* is a sequence of bytes; an offset counts from 0, as in C.               *)
(*                                                                         *)
(*   current   offset of the character read last, -1 before the first one  *)
(*   next      offset of the byte after it                                 *)
(*   ucode     its code, or INVALID_CHAR                                   *)
(***************************************************************************)
EXTENDS Ucode8

Cursor(c, n, u) == [current |-> c, next |-> n, ucode |-> u]

\* The bytes of s from an offset on.
From(s, offset) == SubSeq(s, offset + 1, Len(s))

\* phiz_str8_init and phiz_str8_rewind
Rewound == Cursor(-1, 0, INVALID_CHAR)

phiz_str8_valid(c, s) ==
    c.current >= 0 /\ c.current < Len(s) /\ c.ucode # INVALID_CHAR

\* Mutant of phiz_str8_move: a byte that starts no character is stepped over.
phiz_str8_moveOver(c, s) ==
    LET r == ucode8Fore(From(s, c.next), INVALID_CHAR)
    IN  Cursor(c.next, c.next + r.units, r.uc)

\* Where nothing can be read, the cursor stays; next does not move.
phiz_str8_move(c, s) ==
    LET r == ucode8Fore(From(s, c.next), INVALID_CHAR)
    IN  IF r.units > 0 /\ r.uc # INVALID_CHAR
          THEN Cursor(c.next, c.next + r.units, r.uc)
          ELSE Cursor(c.next, c.next, INVALID_CHAR)

=============================================================================
