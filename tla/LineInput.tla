----------------------------- MODULE LineInput ------------------------------
(***************************************************************************)
(* What the console promises to its readers: keys go to a line that can    *)
(* be edited until it is ended, by a newline, an end of file or a full     *)
(* buffer; a read takes no more than the rest of one line.                 *)
(***************************************************************************)
EXTENDS Naturals, Sequences, SequencesExt

CONSTANTS Plain, Newline, Eof, Size

VARIABLES lines, edited

Init == lines = <<>> /\ edited = <<>>

\* A key beyond Size is lost.
Type(ch) ==
  LET all == lines \o edited \o <<ch>> IN
  /\ Len(all) <= Size
  /\ IF ch \in {Newline, Eof} \/ Len(all) = Size
     THEN lines' = all /\ edited' = <<>>
     ELSE edited' = Append(edited, ch) /\ UNCHANGED lines

Erase == edited # <<>> /\ edited' = Front(edited) /\ UNCHANGED lines
KillLine == edited' = <<>> /\ UNCHANGED lines

\* n characters of one line; an end of file is taken alone.
Take(n) ==
  /\ n <= Len(lines)
  /\ \A i \in 1 .. n : lines[i] \in {Newline, Eof} => i = n
  /\ n > 1 => lines[n] # Eof
  /\ lines' = SubSeq(lines, n + 1, Len(lines))
  /\ UNCHANGED edited

Next ==
  \/ \E ch \in Plain \cup {Newline, Eof} : Type(ch)
  \/ Erase \/ KillLine
  \/ \E n \in 1 .. Size : Take(n)

Spec == Init /\ [][Next]_<<lines, edited>>
=============================================================================
