----------------------------- MODULE MCHostLink -----------------------------
(* Values for the constants of HostLink.                                     *)
EXTENDS HostLink

\* A job with an upload, a comment and a command that waits.  A damaged first
\* letter is answered by ok, so nothing the host relies on is in the last line.
Upload == <<"move", "M28", "data", "comment", "M29", "M105">>
\* A short job, for when the UART interrupts stores too.
TwoMoves == <<"move", "move", "M105">>

\* Closes a file that is still open, clears the halt, numbers the lines anew.
Recover == <<"M29", "M999", "M110">>

\* What else the host may send.
Anything == {Query, CtrlX, CtrlY, Text(None, "M112")}
StopAsk  == {Query, CtrlX}

LF   == <<NL>>
CRLF == <<CR, NL>>
=============================================================================
