------------------------------ MODULE Console -------------------------------
(***************************************************************************)
(* The console's data: the input ring of console.c, whose indices are      *)
(* unsigned and wrap at Wrap, and the cursor of the screen.  The functions *)
(* are operators; Devices calls them with cons.lock held.                  *)
(***************************************************************************)
EXTENDS Integers, Sequences, SequencesExt

CONSTANTS INPUT_BUF, Wrap, COLS, ROWS

ASSUME ConsoleAssumption ==
  /\ INPUT_BUF \in Nat \ {0} /\ Wrap \in Nat /\ Wrap % INPUT_BUF = 0 /\ Wrap > INPUT_BUF
  /\ COLS \in Nat \ {0} /\ ROWS \in Nat /\ ROWS >= 2

Newline == "newline"
Eof == "^D"
Backspace == "backspace"
Plain == {"a"}
Keys == Plain \cup {Newline, Eof, Backspace, "^U", "^P"}

VARIABLES input,    \* buf, r, w, e
          pos       \* the cursor

consvars == <<input, pos>>

Minus(x, y) == (x - y) % Wrap
Plus(x, n) == (x + n) % Wrap
From(in, x, y) == [i \in 1 .. Minus(y, x) |-> in.buf[Plus(x, i - 1) % INPUT_BUF]]

ConsoleInit ==
  /\ input = [buf |-> [i \in 0 .. INPUT_BUF - 1 |-> Newline], r |-> Wrap - 1, w |-> Wrap - 1, e |-> Wrap - 1]
  /\ pos = COLS * ROWS - 1

-----------------------------------------------------------------------------
\* consputc(), cgaputc(): the cursor after ch; past the end the code panics.
Moved(x, ch) ==
  IF ch = Newline THEN x + (COLS - (x % COLS))
  ELSE IF ch = Backspace THEN (IF x > 0 THEN x - 1 ELSE 0)
  ELSE x + 1
CursorBad(x, ch) == Moved(x, ch) > COLS * ROWS

MovedUnscrolled(x, ch) == Moved(x, ch)

Cursor(x, ch) == IF Moved(x, ch) \div COLS >= ROWS - 1 THEN Moved(x, ch) - COLS ELSE Moved(x, ch)

\* consoleintr(): a character is kept while there is room, and ends the line
\* when it is an end or takes the last room.
RoomUnread(in) == Minus(in.e, in.w) < INPUT_BUF

Room(in) == Minus(in.e, in.r) < INPUT_BUF

Ends(in, ch) == ch \in {Newline, Eof} \/ Plus(in.e, 1) = Plus(in.r, INPUT_BUF)
Put(in, ch) ==
  LET e == Plus(in.e, 1) IN
  [in EXCEPT !.buf[in.e % INPUT_BUF] = ch, !.e = e, !.w = IF Ends(in, ch) THEN e ELSE @]

\* The characters that backspace and ^U take back.
Erased(in, ch) ==
  LET line == From(in, in.w, in.e)
      last == {i \in DOMAIN line : line[i] = Newline}
  IN  IF ch = Backspace THEN (IF line = <<>> THEN 0 ELSE 1)
      ELSE IF last = {} THEN Len(line) ELSE Len(line) - (CHOOSE i \in last : \A j \in last : j <= i)

\* consoleread(), from one sleep to the next: the characters that it passes,
\* of the n that it still wants.  An end of file that is not the first of the
\* call is left for the next.
Passed(in, n, target) ==
  LET all == From(in, in.r, in.w)
      stops == {i \in DOMAIN all : i = n \/ all[i] \in {Newline, Eof}}
      i == CHOOSE j \in stops : \A l \in stops : j <= l
  IN  IF n <= 0 THEN [i |-> 0, done |-> TRUE]
      ELSE IF stops = {} THEN [i |-> Len(all), done |-> FALSE]
      ELSE [i |-> IF all[i] = Eof /\ n - i + 1 < target THEN i - 1 ELSE i, done |-> TRUE]
=============================================================================
