------------------------------ MODULE HostLink ------------------------------
(***************************************************************************)
(* A host that prints over the serial line, with the console and the       *)
(* dispatcher at the other end.  The host is not part of the firmware: it  *)
(* sends Program as numbered lines with checksums, at most Window of them  *)
(* unanswered, goes back to where a resend request says, and repeats what  *)
(* is unanswered after a timeout.  When the machine is halted, by ^X or    *)
(* otherwise, it clears the halt and begins anew with Setup.               *)
(***************************************************************************)
EXTENDS GcodeDispatch

CONSTANTS
  Program,      \* kinds of the lines of a job
  Setup,        \* kinds of the lines sent before a job that begins anew
  Ending,       \* the characters that end a line
  Window,
  Damage,       \* what the wire may do to a line: "sum", "star", "start", "end"
  Requests      \* of ?, ^X, ^Y and M112, what the host may send at any time

\* A line as it is sent.
Text(num, kind) == [num |-> num, kind |-> kind, sum |-> "good", readable |-> TRUE]
IsLine(c) == c \notin Characters

ASSUME HostAssumption ==
  /\ Window \in Nat \ {0} /\ MaxTroubles \in Nat
  /\ Damage \subseteq {"sum", "star", "start", "end"}
  /\ Requests \subseteq {Query, CtrlX, CtrlY, Text(None, "M112")}
  /\ Ending \in {<<NL>>, <<CR>>, <<CR, NL>>}
  /\ Program \in Seq(STRING)
  /\ Setup \in Seq(STRING) /\ Setup # <<>> /\ Setup[Len(Setup)] = "M110"

VARIABLES
  wire,         \* characters on their way to the machine
  next,         \* the line to send next; up to 0 it is one of Setup
  unanswered,
  mode          \* "setup", "job"; "halting" after ^X, "alarm" after an error

firmwareVars == <<consoleVars, halted, stop, replies, currentline, uploading, fd, accepted, executed>>
machineVars == <<firmwareVars, troubles>>
hostVars == <<wire, next, unanswered, mode>>
vars == <<machineVars, hostVars>>

Init ==
  /\ ConsoleInit /\ DispatchInit
  /\ wire = <<>> /\ next = 0 /\ unanswered = 0 /\ mode = "setup"

N == Len(Program)

HostLine(k) ==
  IF k > 0 THEN Text(k, Program[k])
  ELSE LET kind == Setup[k + Len(Setup)] IN Text(IF kind = "M110" THEN 0 ELSE None, kind)

TypeOK ==
  /\ lf_count \in 0 .. 2 ^ CountBits - 1 /\ Len(buffer) < RingSize
  /\ flags \in Flags /\ pc \in Pcs /\ back \in {"main", "wait"}
  /\ currentline \in -1 .. N /\ fd \in Files
  /\ next \in 1 - Len(Setup) .. N + 1 /\ unanswered \in Nat

-----------------------------------------------------------------------------
(* The host *)

Lower(n) == IF n = 0 THEN 0 ELSE n - 1

Sending == mode \in {"setup", "job"}

\* What comes before the first line is sent one line at a time.
SendLine ==
  /\ wire = <<>>
  /\ \/ mode = "setup" /\ next <= 0 /\ unanswered = 0
     \/ mode = "job" /\ next <= N /\ unanswered < Window
  /\ wire' = <<HostLine(next)>> \o Ending
  /\ next' = next + 1 /\ unanswered' = unanswered + 1
  /\ UNCHANGED <<machineVars, mode>>

SendRequest ==
  /\ Sending /\ Trouble
  /\ \E c \in Requests :
       IF IsLine(c)
       THEN /\ wire = <<>> /\ wire' = <<c>> \o Ending
            /\ unanswered' = unanswered + 1 /\ UNCHANGED mode
       ELSE /\ wire' = Append(wire, c)
            /\ mode' = IF c = CtrlX THEN "halting" ELSE mode
            /\ UNCHANGED unanswered
  /\ UNCHANGED <<firmwareVars, next>>

Hear(word) == replies # <<>> /\ Head(replies).say = word /\ replies' = Tail(replies)
HearKeeps == UNCHANGED <<consoleVars, halted, stop, dispatchVars, wire>>

Alarms == {"!!", "Error"}

\* While the host clears a halt it takes "!!" for an answer: M29 has nothing to close.
HearOk ==
  /\ Hear("ok") \/ (mode = "setup" /\ \E word \in Alarms : Hear(word))
  /\ unanswered' = Lower(unanswered)
  /\ mode' = IF mode = "setup" /\ next = 1 THEN "job" ELSE mode
  /\ UNCHANGED next /\ HearKeeps

HearResend ==
  /\ Hear("rs")
  /\ next' = IF mode = "job" THEN Head(replies).n ELSE next
  /\ unanswered' = Lower(unanswered)
  /\ UNCHANGED mode /\ HearKeeps

HearStatus ==
  /\ Hear("status")
  /\ UNCHANGED <<next, unanswered, mode>> /\ HearKeeps

\* "!!" or an error: the host sends nothing more.
HearAlarm ==
  /\ mode # "setup" /\ \E word \in Alarms : Hear(word)
  /\ unanswered' = Lower(unanswered)
  /\ mode' = IF mode = "job" THEN "alarm" ELSE mode
  /\ UNCHANGED next /\ HearKeeps

HearHalted ==
  /\ Hear("HALTED")
  /\ mode' = "alarm" /\ unanswered' = 0
  /\ UNCHANGED next /\ HearKeeps

\* Nothing is under way in either direction.
Quiet ==
  /\ wire = <<>> /\ replies = <<>> /\ lf_count = 0
  /\ pc \in {"main", "idle", "idleEnd"} /\ back = "main"
  /\ ~flags.query /\ ~flags.halt

\* The host lets the line go quiet first, so that it takes no late answer for a
\* new one, and ends a line of which the buffer may hold a part.
Restart ==
  /\ mode = "alarm" /\ Quiet
  /\ mode' = "setup" /\ next' = 1 - Len(Setup)
  /\ wire' = Ending /\ unanswered' = 1
  /\ UNCHANGED machineVars

Greater(a, b) == IF a > b THEN a ELSE b

Repeat ==
  /\ next' = CASE mode = "setup" -> Greater(next - unanswered, 1 - Len(Setup))
               [] mode = "job"   -> Greater(next - unanswered, 1)
               [] OTHER          -> next
  /\ unanswered' = 0
  /\ UNCHANGED <<firmwareVars, wire, mode>>

Timeout ==
  /\ unanswered > 0 /\ Quiet
  /\ Repeat /\ NoTrouble

EarlyTimeout ==
  /\ unanswered > 0 /\ ~Quiet /\ wire = <<>>
  /\ Repeat /\ Trouble

Host ==
  \/ SendLine \/ HearOk \/ HearResend \/ HearStatus \/ HearAlarm \/ HearHalted
  \/ Restart \/ Timeout

-----------------------------------------------------------------------------
(* The wire *)

Deliver ==
  /\ wire # <<>>
  /\ OnSerialCharReceived(Head(wire))
  /\ wire' = Tail(wire)
  /\ UNCHANGED <<dispatchVars, next, unanswered, mode>>

\* A line of the job is damaged; or its end is lost.  The other lines are taken
\* to arrive: those without a number carry no checksum, and that of M110 is not
\* looked at.
Damaged(text, how) ==
  CASE how = "sum"   -> [text EXCEPT !.sum = "bad"]
    [] how = "star"  -> [text EXCEPT !.sum = "lost"]
    [] how = "start" -> [text EXCEPT !.readable = FALSE]

DamageLine ==
  /\ Trouble /\ wire # <<>>
  /\ \/ /\ IsLine(Head(wire)) /\ Head(wire).num > 0
        /\ \E how \in Damage \ {"end"} :
             wire' = <<Damaged(Head(wire), how)>> \o Tail(wire)
     \/ /\ "end" \in Damage /\ wire = Ending /\ next > 1
        /\ wire' = <<>>
  /\ UNCHANGED <<firmwareVars, next, unanswered, mode>>

\* The kill button or a limit switch, by another handler of ON_IDLE.
OtherHalt ==
  /\ pc = "idleEnd" /\ Trouble
  /\ halted' = TRUE
  /\ UNCHANGED <<consoleVars, stop, replies, currentline, uploading, fd, accepted, executed, hostVars>>

Firmware ==
  \/ ConsoleStep /\ UNCHANGED <<dispatchVars, hostVars>>
  \/ DispatchStep /\ UNCHANGED hostVars

Next ==
  \/ Firmware \/ OtherHalt
  \/ Host \/ SendRequest \/ EarlyTimeout
  \/ Deliver \/ DamageLine

Spec == Init /\ [][Next]_vars

\* The main loop runs, the wire delivers, a wait ends, and the host goes on.
FairSpec ==
  /\ Spec
  /\ WF_vars(Firmware) /\ SF_vars(MoveEnds /\ UNCHANGED hostVars) /\ WF_vars(Deliver) /\ WF_vars(Host)

-----------------------------------------------------------------------------
(* Properties *)

\* Whatever the wire loses and the host repeats, the lines of a job are accepted
\* once each, in order.
Abstract == INSTANCE NumberedLines WITH lines <- [i \in DOMAIN accepted |-> accepted[i].num]
ImplementsNumberedLines == Abstract!Spec

\* There is a file exactly while an upload is open; the lines between M28 and M29
\* go to the file and never to the machine, also when the upload is cut short by
\* a halt, unless M28 could not open the file; and a line is obeyed only as it
\* was sent: what was damaged is asked for again.
ExecutedAsMeant ==
  /\ TypeOK /\ (uploading <=> fd \in {"open", "failed"})
  /\ \A i \in DOMAIN executed :
       executed[i].sum = "good" /\ (fd # "refused" => executed[i].kind # "data")

\* The lines that set up a job find room in the buffer, whatever was in it when
\* the machine was halted: ^X empties it, and after other halts the host lets the
\* machine refuse what it holds.  So a job is not begun without M110, nor with the
\* rest of another line in front of M110.
SetupFits ==
  wire # <<>> /\ (mode = "setup" \/ Head(wire) = HostLine(0)) => Len(buffer) < RingSize - 1

\* "emergency stop ... is also handled out-of-band (it is now with ^X in the
\* serial driver)": each ^X halts the machine, whatever else the thread is doing.
StopIsObeyed == (mode = "halting") ~> halted

\* The job gets done: whatever is damaged, late or halted in between, as long as
\* that ends, all its moves are executed in the end, in order.
Done(s) == SelectSeq(s, LAMBDA l : l.kind = "move")
Wanted == Done([k \in 1 .. N |-> HostLine(k)])

JobIsDone == <>[](Done(executed) = Wanted)
=============================================================================
