--------------------------- MODULE NumberedLines ---------------------------
(***************************************************************************)
(* What numbered lines promise: the lines of a job are accepted one after  *)
(* the other, none twice, none left out, until the numbering starts anew.  *)
(***************************************************************************)
EXTENDS Integers, Sequences

CONSTANT N            \* lines of a job

VARIABLE lines        \* numbers of the lines accepted since the job began

Init == lines = <<>>

Accept == Len(lines) < N /\ lines' = Append(lines, Len(lines) + 1)

\* M110
Renumber == lines' = <<>>

Next == Accept \/ Renumber

Spec == Init /\ [][Next]_lines
=============================================================================
