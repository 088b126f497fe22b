--------------------------- MODULE GcodeDispatch ---------------------------
(***************************************************************************)
(* GcodeDispatch::on_console_line_received: what becomes of a line that    *)
(* the console hands over.  A line is a record                             *)
(*   [num, kind, sum, readable]                                            *)
(* num: its line number, None without one; kind: the command; sum: is the  *)
(* checksum "good", "bad", or lost together with its '*'; readable: does   *)
(* it start with a letter that the dispatcher knows.  When a line end was  *)
(* lost, several lines come as one: the first '*' and its number decide,   *)
(* and what follows them is cut off.                                       *)
(***************************************************************************)
EXTENDS SerialConsole

CONSTANTS
  MaxTroubles       \* how often something may go wrong in a behaviour

VARIABLES
  currentline,
  uploading, fd,    \* M28 is in force; the file of the upload
  accepted,         \* lines accepted since the last M110
  executed,         \* lines given to the machine since then
  troubles          \* how often it still may

dispatchVars == <<currentline, uploading, fd, accepted, executed, troubles>>

-----------------------------------------------------------------------------
None == -1
AllowedWhenHalted == {"M105"}

\* The file: no upload, open, closed after a write error, or M28 could not open it.
Files == {"none", "open", "failed", "refused"}

DispatchInit ==
  /\ currentline = -1 /\ uploading = FALSE /\ fd = "none"
  /\ accepted = <<>> /\ executed = <<>>
  /\ troubles = MaxTroubles

This == Head(received)
Numbered == This.num # None

\* The thread goes on to ON_IDLE of main().
Handled(reply) ==
  /\ pc' = "idle" /\ back' = "main" /\ received' = <<>>
  /\ replies' = replies \o reply
  /\ UNCHANGED <<buffer, lf_count, flags, reg, missed, stop>>

Reads(l) == pc = "line" /\ received # <<>> /\ l = This
UploadKept == UNCHANGED <<uploading, fd>>

\* One of the troubles still to come, or none.
Trouble == troubles > 0 /\ troubles' = troubles - 1
NoTrouble == UNCHANGED troubles

EmptyLine ==
  /\ pc = "line" /\ received = <<>>
  /\ Handled(<<Reply("ok")>>)
  /\ UNCHANGED <<halted, dispatchVars>>

\* "an uppercase non command word on its own just returns ok"
IgnoredLine ==
  /\ pc = "line" /\ received # <<>> /\ ~This.readable
  /\ Handled(<<Reply("ok")>>)
  /\ UNCHANGED <<halted, dispatchVars>>

Gcode == pc = "line" /\ received # <<>> /\ This.readable

\* N.. M110, before the checksum is looked at.
SetLineNumber ==
  /\ Gcode /\ Numbered /\ This.kind = "M110"
  /\ currentline' = This.num /\ accepted' = <<>> /\ executed' = <<>>
  /\ Handled(<<Reply("ok")>>)
  /\ UploadKept /\ UNCHANGED <<halted, troubles>>

\* Mutant: any line up to the expected one is accepted, a repeated one again.
NotBeyond == ~Numbered \/ (This.sum # "bad" /\ This.num <= currentline + 1)

\* Mutant: the checksum is not compared.
InSequenceUnchecked == ~Numbered \/ This.num = currentline + 1

\* A line without '*' is not checked.
InSequence == ~Numbered \/ (This.sum # "bad" /\ This.num = currentline + 1)

\* Mutant: the last line is asked for, not the next.
ResendCurrent ==
  /\ Gcode /\ ~(Numbered /\ This.kind = "M110") /\ ~InSequence
  /\ Handled(<<[say |-> "rs", n |-> currentline]>>)
  /\ UNCHANGED <<halted, dispatchVars>>

ResendLine ==
  /\ Gcode /\ ~(Numbered /\ This.kind = "M110") /\ ~InSequence
  /\ Handled(<<[say |-> "rs", n |-> currentline + 1]>>)
  /\ UNCHANGED <<halted, dispatchVars>>

Accepts == Gcode /\ ~(Numbered /\ This.kind = "M110") /\ InSequence

\* The line is counted and obeyed at once.
Obey(reply) ==
  /\ currentline' = IF Numbered THEN currentline + 1 ELSE currentline
  /\ accepted' = IF Numbered THEN Append(accepted, This) ELSE accepted
  /\ Handled(reply)

\* A comment leaves nothing to do, and nothing is answered.
CommentLine ==
  /\ Accepts /\ This.kind = "comment"
  /\ Obey(IF Numbered THEN <<>> ELSE <<Reply("ok")>>)
  /\ UploadKept /\ UNCHANGED <<halted, executed>> /\ NoTrouble

Dispatches == Accepts /\ This.kind # "comment" /\ ~uploading

Unhalt ==
  /\ Dispatches /\ halted /\ This.kind = "M999"
  /\ halted' = FALSE
  /\ Obey(<<Reply("ok")>>)
  /\ UploadKept /\ UNCHANGED executed /\ NoTrouble

HaltedLine ==
  /\ Dispatches /\ halted /\ This.kind \notin AllowedWhenHalted \cup {"M999"}
  /\ Obey(<<Reply("!!")>>)
  /\ UploadKept /\ UNCHANGED <<halted, executed>> /\ NoTrouble

Runs(kinds) ==
  /\ Dispatches /\ This.kind \in kinds
  /\ halted => This.kind \in AllowedWhenHalted

\* M28: only lines of this stream are saved, and there is one stream here.
OpenUpload ==
  /\ Runs({"M28"})
  /\ \/ uploading' = TRUE /\ fd' = "open" /\ NoTrouble
     \/ Trouble /\ fd' = "refused" /\ UNCHANGED uploading
  /\ Obey(<<Reply("ok")>>)
  /\ UNCHANGED <<halted, executed>>

EmergencyStop ==
  /\ Runs({"M112"})
  /\ halted' = TRUE
  /\ Obey(<<Reply("ok")>>)
  /\ UploadKept /\ UNCHANGED executed /\ NoTrouble

\* ON_GCODE_RECEIVED finds an error: "we cannot continue safely".
ErrorLine ==
  /\ Runs({"move"}) /\ Trouble
  /\ halted' = TRUE
  /\ Obey(<<Reply("Error")>>)
  /\ UploadKept /\ UNCHANGED executed

\* Any other command; M29 and M999 do nothing here when there is no need.
ExecuteLine ==
  /\ Runs({"data", "M105", "M29", "M999"})
  /\ executed' = IF Numbered THEN Append(executed, This) ELSE executed
  /\ Obey(<<Reply("ok")>>)
  /\ UploadKept /\ UNCHANGED halted /\ NoTrouble

\* A move may wait for room in the queue, calling ON_IDLE, and is answered then.
StartMove ==
  /\ Runs({"move"})
  /\ currentline' = IF Numbered THEN currentline + 1 ELSE currentline
  /\ accepted' = IF Numbered THEN Append(accepted, This) ELSE accepted
  /\ executed' = IF Numbered THEN Append(executed, This) ELSE executed
  /\ pc' = "wait" /\ received' = <<>>
  /\ UploadKept /\ NoTrouble /\ UNCHANGED <<buffer, lf_count, flags, back, reg, missed, halted, stop, replies>>

MoveWaits ==
  /\ pc = "wait"
  /\ pc' = "idle" /\ back' = "wait"
  /\ UNCHANGED <<buffer, lf_count, flags, reg, received, missed, halted, stop, replies, dispatchVars>>

MoveEnds ==
  /\ pc = "wait"
  /\ Handled(<<Reply("ok")>>)
  /\ UNCHANGED <<halted, dispatchVars>>

Uploads == Accepts /\ This.kind # "comment" /\ uploading

CloseUpload ==
  /\ Uploads /\ This.kind = "M29"
  /\ uploading' = FALSE /\ fd' = "none"
  /\ Obey(<<Reply("ok")>>)
  /\ UNCHANGED <<halted, executed>> /\ NoTrouble

SaveLine ==
  /\ Uploads /\ This.kind # "M29"
  /\ Obey(<<Reply("ok")>>)
  /\ UploadKept /\ UNCHANGED <<halted, executed>> /\ NoTrouble

\* A write error closes the file; what follows is discarded.
SaveFails ==
  /\ Uploads /\ This.kind # "M29" /\ fd = "open" /\ Trouble
  /\ fd' = "failed"
  /\ Obey(<<Reply("Error")>>)
  /\ UNCHANGED <<halted, executed, uploading>>

DispatchStep ==
  \/ EmptyLine \/ IgnoredLine \/ SetLineNumber \/ ResendLine \/ CommentLine
  \/ Unhalt \/ HaltedLine \/ OpenUpload \/ EmergencyStop \/ ErrorLine
  \/ ExecuteLine \/ StartMove \/ MoveWaits \/ MoveEnds
  \/ CloseUpload \/ SaveLine \/ SaveFails
=============================================================================
