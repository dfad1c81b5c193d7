------------------------------ MODULE Console -------------------------------
(***************************************************************************)
(* The text console of utils.c, as operators on a screen [cells, pos]: the *)
(* characters of the VGA text buffer and cursor_pos.  Colours are left     *)
(* out, but the bytes that select one are not: putchar swallows them.      *)
(***************************************************************************)
EXTENDS Naturals, SequencesExt

CONSTANTS
  COLS, ROWS,   (* 80 and 25.                                              *)
  WORD,         (* cursor_pos is unsigned: it counts modulo 2^32.          *)
  Newline,      (* The character \n.                                       *)
  Blank,        (* The character space.                                    *)
  ColourCode    (* The characters 1 to 15 but for \n: Tab is one of them.  *)

ASSUME ConsoleAssumption ==
  /\ COLS \in Nat \ {0}
  /\ ROWS \in Nat \ {0}
  /\ WORD \in Nat
  /\ WORD > ROWS * COLS
  /\ Newline \notin ColourCode \union {Blank}
  /\ Blank \notin ColourCode

SIZE == ROWS * COLS
Cell == 0 .. SIZE - 1

(* A write outside the visible page changes nothing that is displayed.     *)
fb_write_cell(s, i, c) ==
  IF i \in Cell THEN [s EXCEPT !.cells[i] = c] ELSE s

(* Every row takes the contents of the one below it, the last goes blank.  *)
Scrolled(s) ==
  [cells |-> [i \in Cell |-> IF i + COLS \in Cell THEN s.cells[i + COLS] ELSE Blank],
   pos   |-> (ROWS - 1) * COLS]

(* Mutant: the screen scrolls one character too late.                      *)
ScrollsLate(s, c) ==
  LET t == IF s.pos > SIZE THEN Scrolled(s) ELSE s IN
  IF c = Newline
  THEN [t EXCEPT !.pos = (t.pos \div COLS + 1) * COLS]
  ELSE [fb_write_cell(t, t.pos, c) EXCEPT !.pos = t.pos + 1]

putchar_color(s, c) ==
  LET t == IF s.pos >= SIZE THEN Scrolled(s) ELSE s IN
  IF c = Newline
  THEN [t EXCEPT !.pos = (t.pos \div COLS + 1) * COLS]
  ELSE [fb_write_cell(t, t.pos, c) EXCEPT !.pos = t.pos + 1]

putchar(s, c) == IF c \in ColourCode THEN s ELSE putchar_color(s, c)

(* The screens before and after each character of a text.                  *)
Printed(s, str) ==
  LET after[n \in 1 .. Len(str) + 1] ==
        IF n = 1 THEN s ELSE putchar(after[n - 1], str[n - 1])
  IN  after

printf(s, str) == Printed(s, str)[Len(str) + 1]

clear_screen == [cells |-> [i \in Cell |-> Blank], pos |-> 0]

(* cursor_pos--, a blank there.                                            *)
RubOut(s) ==
  LET p == (s.pos + WORD - 1) % WORD IN
  [fb_write_cell(s, p, Blank) EXCEPT !.pos = p]
=============================================================================
