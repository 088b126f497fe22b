---------------------------- MODULE PlayerProofs ----------------------------
(***************************************************************************)
(* Suspend and resume, for every file, every choice of commands, any       *)
(* number of states that the host pushes and any number of main loops that *)
(* a suspend takes.  The lines that the configuration executes around a    *)
(* suspend are moves or mode changes (PlainScripts), and the host takes the*)
(* care that Sensible asks of it.                                          *)
(***************************************************************************)
EXTENDS Player, SequenceTheorems, TLAPS

PlainScripts ==
  /\ AfterSuspend \in {"none", "move", "mode"}
  /\ BeforeResume \in {"none", "move", "mode"}

-----------------------------------------------------------------------------
(* The stack.                                                               *)

BaseLabels == {"console", "player", "feed", "part2Wait", "part2"}
LineLabels == {"exec", "moveWait", "abortWait", "heat", "heatMore", "heatReached", "heated",
               "restore", "moveBack", "restoreWait", "resumeEnd"}

\* The callers of a line, of the line before a resume, of ON_IDLE and of a halt.
LineStack(s)    == s = <<"player">> \/ s = <<"idle", "console">>
RestoreStack(s) == s # <<>> /\ Head(s) = "restore" /\ LineStack(Tail(s))
IdleStack(s) ==
  /\ s # <<>>
  /\ \/ s = <<"console">> \/ s = <<"part2Wait">>
     \/ Head(s) \in {"abortWait", "restoreWait", "heatMore"} /\ LineStack(Tail(s))
     \/ Head(s) = "moveWait" /\ (LineStack(Tail(s)) \/ RestoreStack(Tail(s)))

Frames ==
  /\ pc \in Labels /\ stack \in Seq(Labels)
  /\ pc \in BaseLabels <=> stack = <<>>
  /\ pc \in LineLabels => LineStack(stack) \/ (pc \in {"exec", "moveWait"} /\ RestoreStack(stack))
  /\ pc = "exec" /\ RestoreStack(stack) => arg \in {"move", "mode"}
  /\ pc = "idle" => IdleStack(stack)
  /\ pc = "halt" => IdleStack(stack) \/ LineStack(stack)

\* The main loop, or a line other than those of a suspend, an abort and a resume.
MainLabels == {"console", "player", "feed", "idle", "exec", "moveWait"}

\* What the thread is doing: during ON_IDLE, what has called it; during the line
\* that is executed before a resume, that resume.
Top == IF pc \in {"idle", "halt"} THEN Head(stack) ELSE pc
Nested == \/ pc \in {"exec", "moveWait"} /\ Head(stack) = "restore"
          \/ pc \in {"idle", "halt"} /\ Head(stack) = "moveWait" /\ Head(Tail(stack)) = "restore"
Place == IF Nested THEN "restore"
         ELSE IF Top \in MainLabels THEN "main" ELSE Top

InPart2   == Place \in {"part2Wait", "part2"}
Heating   == Place \in {"heat", "heatMore", "heatReached", "heated"}
Restoring == Place \in {"moveBack", "restoreWait", "resumeEnd"}
Resuming  == Heating \/ Place = "restore" \/ Restoring

-----------------------------------------------------------------------------
(* The invariant.                                                           *)

PlayerType == [playing_file : BOOLEAN, was_playing_file : BOOLEAN, suspended : BOOLEAN,
               suspend_loops : 0 .. SuspendLoops, abort_flag : BOOLEAN]
RobotType == [position : Position, mode : Mode, states : Seq(State)]

TypeInv ==
  /\ player \in PlayerType
  /\ file \in [open : BOOLEAN, line : 1 .. Len(FileLines) + 1]
  /\ saved \in [position : Position, temperature : {0, 1}]
  /\ robot \in RobotType
  /\ target \in {0, 1} /\ halted \in BOOLEAN /\ limit \in BOOLEAN
  /\ arg \in Lines \cup {"none"} /\ abs_mode \in Mode
  /\ at \in [position : Position, mode : Mode, target : {0, 1}]

\* A file that is played, or will be after a resume, is open.
FileInv ==
  /\ player.playing_file => file.open /\ ~player.suspended
  /\ player.suspended /\ player.was_playing_file => file.open
  /\ Place = "abortWait" => ~player.playing_file /\ ~player.suspended

\* A suspend is given up by a halt only, while it is under way; the lines that
\* would disturb it are not executed.
SuspendInv ==
  /\ player.suspend_loops > 0 => player.suspended
  /\ InPart2 \/ Resuming => player.suspend_loops = 0 /\ (player.suspended \/ halted)
  /\ pc = "exec" /\ arg = "resume" => player.suspend_loops = 0
  /\ pc = "exec" /\ player.suspended => arg \notin {"M120", "M23", "M24", "M32"}

AllHost(s) == \A i \in DOMAIN s : s[i].by = "host"

\* suspend_part2 has pushed a state which resume has not popped.
Marked == player.suspended /\ player.suspend_loops = 0 /\ ~InPart2 /\ ~Restoring

StatesInv ==
  /\ ~Marked => AllHost(robot.states)
  /\ Marked => /\ robot.states # <<>> /\ Head(robot.states).by = "player"
               /\ AllHost(Tail(robot.states))
               /\ Head(robot.states).mode = at.mode /\ saved.position = at.position
  /\ pc = "exec" /\ arg = "M121" => ~Marked

\* What a resume has restored already.
RestoreInv ==
  /\ Marked /\ ~Resuming => target = 0 /\ saved.temperature = at.target
  /\ Resuming /\ player.suspended => target = at.target
  /\ Restoring /\ player.suspended => saved.position = at.position
  /\ Place \in {"moveBack", "restoreWait"} /\ player.suspended => abs_mode = at.mode
  /\ Place \in {"restoreWait", "resumeEnd"} /\ player.suspended /\ ~halted =>
       robot.position = at.position
  /\ Place = "resumeEnd" /\ player.suspended => robot.mode = at.mode

PlayerInv == TypeInv /\ Frames /\ FileInv /\ SuspendInv /\ StatesInv /\ RestoreInv

-----------------------------------------------------------------------------
(* The stack.                                                               *)

\* An element put before a sequence is its head, and the sequence its tail.
LEMMA Push ==
  ASSUME NEW S, NEW s \in Seq(S), NEW e \in S
  PROVE  /\ <<e>> \o s \in Seq(S) /\ <<e>> \o s # <<>>
         /\ Head(<<e>> \o s) = e /\ Tail(<<e>> \o s) = s
<1> DEFINE c == <<e>> \o s
<1>1. /\ c \in Seq(S) /\ c # <<>> /\ Len(c) = Len(s) + 1 /\ c[1] = e
      /\ \A i \in 2 .. Len(s) + 1 : c[i] = s[i - 1]
  OBVIOUS
<1> HIDE DEF c
<1>2. Head(c) = e /\ Tail(c) \in Seq(S) /\ Len(Tail(c)) = Len(s)
  BY <1>1
<1>3. \A i \in 1 .. Len(s) : Tail(c)[i] = s[i]
  BY <1>1
<1>4. Tail(c) = s
  BY <1>2, <1>3, SeqEqual
<1> QED BY <1>1, <1>2, <1>4 DEF c

\* The stacks of one frame and of two.
LEMMA Bottom ==
  /\ Head(<<"player">>) = "player" /\ Tail(<<"player">>) = <<>> /\ <<"player">> # <<>>
  /\ Head(<<"console">>) = "console" /\ Tail(<<"console">>) = <<>> /\ <<"console">> # <<>>
  /\ Head(<<"part2Wait">>) = "part2Wait" /\ Tail(<<"part2Wait">>) = <<>>
  /\ <<"part2Wait">> # <<>>
  /\ Head(<<"idle", "console">>) = "idle" /\ Tail(<<"idle", "console">>) = <<"console">>
  /\ <<"idle", "console">> # <<>> /\ <<"player">> \in Seq(Labels)
  /\ <<"console">> \in Seq(Labels) /\ <<"idle", "console">> \in Seq(Labels)
BY DEF Labels, Waits

\* What is put on an empty stack.
LEMMA Single == \A e : <<e>> \o <<>> = <<e>>
OBVIOUS

\* Every step calls and returns as its caller expects, and the line before a
\* resume is a plain one.
LEMMA FramesStep ==
  ASSUME PlainScripts, TypeInv, Frames, Next
  PROVE  Frames'
<1>1. /\ pc \in Labels /\ stack \in Seq(Labels)
  BY DEF Frames
<1>2. ASSUME NEW l, NEW r \in Labels, Call(l, r)
      PROVE  /\ pc' = l /\ Head(stack') = r /\ Tail(stack') = stack /\ stack' # <<>>
             /\ stack' \in Seq(Labels) /\ (stack = <<>> => stack' = <<r>>)
  BY <1>1, <1>2, Push, Single DEF Call
<1>3. ASSUME stack # <<>>, Return
      PROVE  pc' = Head(stack) /\ stack' = Tail(stack) /\ stack' \in Seq(Labels)
  BY <1>1, <1>3, HeadTailProperties DEF Return
<1> USE <1>1, Bottom DEF Frames, IdleStack, LineStack, RestoreStack, BaseLabels, LineLabels,
        Labels, Waits, Goto
<1>4. CASE LimitHit \/ IdleHalt
  BY <1>4 DEF LimitHit, IdleHalt, threadVars, Locals
<1>5. CASE OnHalt \/ IdleEnd
  <2>1. Return /\ stack # <<>> /\ Locals
    BY <1>5 DEF OnHalt, IdleEnd
  <2>2. pc' = Head(stack) /\ stack' = Tail(stack) /\ stack' \in Seq(Labels)
    BY <2>1, <1>3
  <2> QED BY <1>5, <2>1, <2>2 DEF OnHalt, IdleEnd, Locals
<1>6. CASE WaitMore
  <2>1. Call("idle", pc)
    BY <1>6 DEF WaitMore
  <2>2. /\ pc' = "idle" /\ Head(stack') = pc /\ Tail(stack') = stack /\ stack' # <<>>
        /\ stack' \in Seq(Labels) /\ (stack = <<>> => stack' = <<pc>>)
    BY <2>1, <1>2
  <2> QED BY <1>6, <2>2 DEF WaitMore, Locals
<1>7. CASE HeatMore
  <2>1. Call("idle", "heatMore")
    BY <1>7 DEF HeatMore
  <2>2. /\ pc' = "idle" /\ Head(stack') = "heatMore" /\ Tail(stack') = stack /\ stack' # <<>>
        /\ stack' \in Seq(Labels)
    BY <2>1, <1>2
  <2> QED BY <1>7, <2>2 DEF HeatMore, Locals
<1>8. ASSUME Call("idle", "console"), stack = <<>>
      PROVE  Frames'
  <2>1. pc' = "idle" /\ stack' = <<"console">>
    BY <1>2, <1>8
  <2> QED BY <2>1
<1>9. CASE PlayerAbort \/ FeedNothing \/ FeedEnd \/ Part2Aborted
  BY <1>8, <1>9 DEF PlayerAbort, FeedNothing, FeedEnd, Part2Aborted
<1>10. CASE SuspendLoop \/ NoSuspendLoop \/ Part2Idle
  BY <1>10 DEF SuspendLoop, NoSuspendLoop, Part2Idle, Locals
<1>11. CASE FeedLine
  <2>1. FileLines[file.line] \in Lines
    BY <1>11, PlayerAssumption DEF FeedLine, TypeInv
  <2> QED BY <1>11, <2>1 DEF FeedLine, Lines
<1>12. CASE Part2Save
  <2>1. CASE AfterSuspend = "none"
    BY <1>8, <1>12, <2>1 DEF Part2Save
  <2>2. CASE AfterSuspend # "none"
    BY <1>12, <2>2 DEF Part2Save, PlainScripts
  <2> QED BY <2>1, <2>2
<1>13. CASE Console
  <2>1. CASE Goto("player") /\ Locals
    BY <1>13, <2>1 DEF Console, Locals
  <2>2. CASE \E l \in Commands \ {"kill"} : Sensible(l) /\ Line(l, "player")
    <3>1. PICK l \in Commands \ {"kill"} : Line(l, "player")
      BY <2>2
    <3>2. stack = <<>>
      BY <1>13 DEF Console
    <3>3. pc' = "exec" /\ stack' = <<"player">>
      BY <3>1, <3>2, <1>2 DEF Line
    <3> QED BY <1>13, <3>1, <3>3 DEF Line
  <2> QED BY <1>13, <2>1, <2>2 DEF Console
<1>14. CASE ResumeBefore
  <2>1. CASE BeforeResume = "none"
    BY <1>14, <2>1 DEF ResumeBefore, Locals
  <2>2. CASE BeforeResume # "none"
    <3>1. Call("exec", "restore") /\ arg' = BeforeResume
      BY <1>14, <2>2 DEF ResumeBefore, Line
    <3>2. /\ pc' = "exec" /\ Head(stack') = "restore" /\ Tail(stack') = stack /\ stack' # <<>>
          /\ stack' \in Seq(Labels)
      BY <3>1, <1>2
    <3> QED BY <1>14, <2>2, <3>1, <3>2 DEF ResumeBefore, PlainScripts
  <2> QED BY <2>1, <2>2
<1>15. ASSUME Done, pc \in LineLabels
       PROVE  Frames'
  <2>1. Return /\ stack # <<>>
    BY <1>15 DEF Done
  <2>2. pc' = Head(stack) /\ stack' = Tail(stack) /\ stack' \in Seq(Labels)
    BY <2>1, <1>3
  <2> QED BY <1>15, <2>2 DEF Done
<1>16. CASE ExecIgnored \/ ExecUnhalt \/ ExecState \/ ExecPlay \/ ExecSelect \/ ExecStart
            \/ ExecPause
  BY <1>15, <1>16 DEF ExecIgnored, ExecUnhalt, ExecState, ExecPlay, ExecSelect, ExecStart,
     ExecPause, Files, Exec
<1>17. CASE \/ MoveEnd \/ AbortNothing \/ ResetNothing \/ AbortEnd \/ Suspend \/ ResumeNothing
            \/ HeatAborted \/ ResumeAborted \/ ResumeEnd
  BY <1>15, <1>17 DEF MoveEnd, AbortNothing, ResetNothing, AbortEnd, Suspend, ResumeNothing,
     HeatAborted, ResumeAborted, ResumeEnd, Exec
<1>18. CASE ExecHalt \/ ExecMove \/ ExecHome
  BY <1>18 DEF ExecHalt, ExecMove, ExecHome, Exec, Locals
<1>19. CASE Abort \/ Resume
  BY <1>19 DEF Abort, Resume, Exec, Locals
<1>20. CASE HeatAgain \/ HeatReached \/ HeatDone \/ Restore \/ MoveBack \/ RestoreMode
  BY <1>20 DEF HeatAgain, HeatReached, HeatDone, Restore, MoveBack, RestoreMode, Locals
<1> QED BY <1>4, <1>5, <1>6, <1>7, <1>9, <1>10, <1>11, <1>12, <1>13, <1>14, <1>16, <1>17,
        <1>18, <1>19, <1>20 DEF Next, Thread, Halting, MainLoop, LineReceived, SuspendResume

-----------------------------------------------------------------------------
(* Where the thread is.                                                     *)

\* The steps that go on with what the thread is doing, which may be the line
\* before a resume.
LinesPlainly ==
  \/ ExecIgnored \/ ExecMove \/ MoveEnd \/ (ExecState /\ arg = "mode")

\* The other lines that do not take several steps.
LinesAtOnce ==
  \/ ExecUnhalt \/ ExecHalt \/ (ExecState /\ arg # "mode") \/ ExecHome \/ ExecPlay
  \/ ExecSelect \/ ExecStart \/ ExecPause \/ AbortNothing \/ ResetNothing \/ Suspend
  \/ ResumeNothing

\* The steps that stay in one place.
LEMMA SamePlace ==
  ASSUME Frames, LimitHit \/ Halting \/ LinesPlainly
  PROVE  Place' = Place /\ (pc' = "exec" => pc = "exec" /\ arg' = arg)
<1>1. /\ pc \in Labels /\ stack \in Seq(Labels)
  BY DEF Frames
<1> USE <1>1, Bottom DEF Frames, IdleStack, LineStack, RestoreStack, BaseLabels, LineLabels,
        Labels, Waits, Goto, MainLabels, Locals, Return
<1>2. CASE LimitHit \/ IdleHalt
  BY <1>2 DEF LimitHit, IdleHalt, threadVars, Place, Top, Nested
<1>3. CASE OnHalt \/ IdleEnd
  <2>1. /\ pc' = Head(stack) /\ stack' = Tail(stack) /\ pc \in {"halt", "idle"}
        /\ IdleStack(stack) \/ (pc = "halt" /\ LineStack(stack))
    BY <1>3 DEF OnHalt, IdleEnd
  <2>2. CASE LineStack(stack)
    BY <2>1, <2>2 DEF Place, Top, Nested
  <2>3. CASE IdleStack(stack)
    <3>1. Head(stack) # "idle" /\ Head(stack) # "halt" /\ Head(stack) # "exec"
      BY <2>3
    <3>2. Top' = Top
      BY <2>1, <3>1 DEF Top
    <3>3. Nested' = Nested
      BY <2>1, <3>1 DEF Nested
    <3> QED BY <2>1, <3>1, <3>2, <3>3 DEF Place
  <2> QED BY <2>1, <2>2, <2>3
<1>4. CASE WaitMore
  <2>1. pc' = "idle" /\ Head(stack') = pc /\ Tail(stack') = stack
    BY <1>4, Push DEF WaitMore, Call
  <2>2. Top' = Top /\ Nested' = Nested /\ pc' # "exec"
    BY <1>4, <2>1 DEF Top, Nested, WaitMore
  <2> QED BY <2>2 DEF Place
<1>5. ASSUME Done, pc \in {"exec", "moveWait"}
      PROVE  Place' = Place /\ pc' # "exec"
  <2>1. pc' = Head(stack) /\ stack' = Tail(stack)
    BY <1>5 DEF Done
  <2>2. CASE LineStack(stack)
    BY <1>5, <2>1, <2>2 DEF Place, Top, Nested
  <2>3. CASE RestoreStack(stack)
    BY <1>5, <2>1, <2>3 DEF Place, Top, Nested
  <2> QED BY <1>5, <2>2, <2>3
<1>6. CASE LinesPlainly
  <2>1. CASE ExecMove
    BY <2>1 DEF ExecMove, Exec, Place, Top, Nested
  <2>2. CASE ExecIgnored \/ MoveEnd \/ ExecState
    BY <1>5, <2>2 DEF ExecIgnored, MoveEnd, ExecState, Exec
  <2> QED BY <1>6, <2>1, <2>2 DEF LinesPlainly
<1> QED BY <1>2, <1>3, <1>4, <1>6 DEF Halting

\* Where the thread is, by its label; only ON_IDLE and a line need the callers.
LEMMA PlaceIs ==
  ASSUME Frames
  PROVE  /\ pc \in {"console", "player", "feed"} => Place = "main"
         /\ pc \notin {"console", "player", "feed", "idle", "halt", "exec", "moveWait"} =>
              Place = pc
         /\ pc \in {"exec", "moveWait"} /\ LineStack(stack) => Place = "main"
         /\ pc = "exec" /\ arg \notin {"move", "mode"} => Place = "main" /\ LineStack(stack)
         /\ pc = "exec" => Place \in {"main", "restore"}
BY Bottom DEF Frames, LineStack, RestoreStack, BaseLabels, LineLabels, Labels, Waits, Place,
   Top, Nested, MainLabels

\* The end of a line.
LEMMA DonePlace ==
  ASSUME Frames, Done, LineStack(stack)
  PROVE  Place' = "main" /\ pc' # "exec"
BY Bottom DEF Done, Return, LineStack, Place, Top, Nested, MainLabels

\* The end of a main loop.
LEMMA CallPlace ==
  ASSUME Frames, Call("idle", "console"), stack = <<>>
  PROVE  Place' = "main" /\ pc' # "exec"
<1>1. pc' = "idle" /\ stack' = <<"console">>
  BY Single DEF Call
<1> QED BY <1>1, Bottom DEF Place, Top, Nested, MainLabels

\* A step to another label of the same function.
LEMMA GotoPlace ==
  ASSUME NEW l, Goto(l), l \notin {"idle", "halt", "exec", "moveWait"}
  PROVE  /\ Place' = (IF l \in {"console", "player", "feed"} THEN "main" ELSE l)
         /\ pc' # "exec"
BY DEF Goto, Place, Top, Nested, MainLabels

\* The steps of the main loop that call no line.
LEMMA MainPlace ==
  ASSUME Frames, PlayerAbort \/ NoSuspendLoop \/ FeedNothing \/ FeedEnd
  PROVE  Place = "main" /\ Place' = "main" /\ pc' # "exec"
<1>1. pc \in {"player", "feed"} /\ stack = <<>> /\ Place = "main"
  BY PlaceIs DEF Frames, BaseLabels, PlayerAbort, NoSuspendLoop, FeedNothing, FeedEnd
<1>2. CASE PlayerAbort \/ FeedNothing \/ FeedEnd
  BY <1>1, <1>2, CallPlace DEF PlayerAbort, FeedNothing, FeedEnd
<1>3. CASE NoSuspendLoop
  BY <1>1, <1>3, GotoPlace DEF NoSuspendLoop
<1> QED BY <1>2, <1>3

\* The main loops of a suspend.
LEMMA SuspendLoopPlace ==
  ASSUME Frames, SuspendLoop
  PROVE  /\ Place = "main" /\ pc' # "exec"
         /\ Place' = IF player.suspend_loops = 1 THEN "part2Wait" ELSE "main"
<1>1. Place = "main"
  BY PlaceIs DEF SuspendLoop
<1>2. CASE player.suspend_loops = 1
  <2>1. Goto("part2Wait")
    BY <1>2 DEF SuspendLoop
  <2> QED BY <1>1, <1>2, <2>1, GotoPlace
<1>3. CASE player.suspend_loops # 1
  <2>1. Goto("feed")
    BY <1>3 DEF SuspendLoop
  <2> QED BY <1>1, <1>3, <2>1, GotoPlace
<1> QED BY <1>2, <1>3

\* The steps that execute a line for the host or from the file.
LEMMA CallLinePlace ==
  ASSUME Frames, Console \/ FeedLine
  PROVE  Place = "main" /\ Place' = "main"
<1>1. Place = "main"
  BY PlaceIs DEF Console, FeedLine
<1>2. CASE FeedLine
  <2>1. pc' = "exec" /\ stack' = <<"idle", "console">>
    BY <1>2 DEF FeedLine
  <2>2. Place' = "main"
    BY <2>1, Bottom DEF Place, Top, Nested, MainLabels
  <2> QED BY <1>1, <2>2
<1>3. CASE Console /\ Goto("player")
  BY <1>1, <1>3, GotoPlace
<1>4. CASE Console /\ \E l : Line(l, "player")
  <2>1. stack = <<>>
    BY <1>4 DEF Frames, BaseLabels, Console
  <2>2. pc' = "exec" /\ stack' = <<"player">>
    BY <1>4, <2>1, Single DEF Line, Call
  <2>3. Place' = "main"
    BY <2>2, Bottom DEF Place, Top, Nested, MainLabels
  <2> QED BY <1>1, <2>3
<1> QED BY <1>2, <1>3, <1>4 DEF Console

\* The lines that are no part of a resume.
LEMMA LinePlace ==
  ASSUME Frames, LinesAtOnce
  PROVE  Place = "main" /\ Place' = "main" /\ pc' # "exec"
<1>1. pc = "exec" /\ arg \notin {"move", "mode"}
  <2>1. CASE ExecState /\ arg # "mode"
    BY <2>1 DEF ExecState, Exec
  <2>2. CASE ExecUnhalt \/ ExecHalt \/ ExecHome \/ AbortNothing \/ ResetNothing \/ Suspend
             \/ ResumeNothing
    BY <2>2 DEF ExecUnhalt, ExecHalt, ExecHome, AbortNothing, ResetNothing, Suspend,
       ResumeNothing, Exec
  <2>3. CASE ExecPlay \/ ExecSelect \/ ExecStart \/ ExecPause
    BY <2>3 DEF ExecPlay, ExecSelect, ExecStart, ExecPause, Files, Exec
  <2> QED BY <2>1, <2>2, <2>3 DEF LinesAtOnce
<1>2. Place = "main" /\ LineStack(stack)
  BY <1>1, PlaceIs
<1>3. Done \/ Goto("halt") \/ Goto("moveWait")
  BY DEF LinesAtOnce, ExecUnhalt, ExecHalt, ExecState, ExecHome, ExecPlay, ExecSelect,
     ExecStart, ExecPause, AbortNothing, ResetNothing, Suspend, ResumeNothing, Files
<1>4. ASSUME Goto("halt") \/ Goto("moveWait")
      PROVE  Place' = "main" /\ pc' # "exec"
  BY <1>2, <1>4, Bottom DEF Goto, LineStack, Place, Top, Nested, MainLabels
<1> QED BY <1>2, <1>3, <1>4, DonePlace

\* abort_command.
LEMMA AbortPlace ==
  ASSUME Frames
  PROVE  /\ Abort => Place = "main" /\ Place' = "abortWait" /\ pc' # "exec"
         /\ AbortEnd => Place = "abortWait" /\ Place' = "main" /\ pc' # "exec"
<1>1. ASSUME Abort
      PROVE  Place = "main" /\ Place' = "abortWait" /\ pc' # "exec"
  <2>1. Place = "main" /\ Goto("abortWait")
    BY <1>1, PlaceIs DEF Abort, Exec
  <2> QED BY <2>1, GotoPlace
<1>2. ASSUME AbortEnd
      PROVE  Place = "abortWait" /\ Place' = "main" /\ pc' # "exec"
  <2>1. pc = "abortWait" /\ Done
    BY <1>2 DEF AbortEnd
  <2>2. LineStack(stack)
    BY <2>1 DEF Frames, LineLabels
  <2> QED BY <2>1, <2>2, PlaceIs, DonePlace
<1> QED BY <1>1, <1>2

\* suspend_part2.
LEMMA Part2Place ==
  ASSUME Frames
  PROVE  /\ Part2Idle => Place = "part2Wait" /\ Place' = "part2" /\ pc' # "exec"
         /\ Part2Aborted => Place = "part2" /\ Place' = "main" /\ pc' # "exec"
         /\ Part2Save => Place = "part2" /\ Place' = "main"
<1>1. ASSUME pc = "part2"
      PROVE  stack = <<>> /\ Place = "part2"
  BY <1>1, PlaceIs DEF Frames, BaseLabels
<1>2. ASSUME Part2Idle
      PROVE  Place = "part2Wait" /\ Place' = "part2" /\ pc' # "exec"
  BY <1>2, PlaceIs, GotoPlace DEF Part2Idle
<1>3. ASSUME Part2Aborted
      PROVE  Place = "part2" /\ Place' = "main" /\ pc' # "exec"
  BY <1>1, <1>3, CallPlace DEF Part2Aborted
<1>4. ASSUME Part2Save
      PROVE  Place = "part2" /\ Place' = "main"
  <2>1. Place = "part2" /\ stack = <<>>
    BY <1>1, <1>4 DEF Part2Save
  <2>2. CASE Call("idle", "console")
    BY <2>1, <2>2, CallPlace
  <2>3. CASE pc' = "exec" /\ stack' = <<"idle", "console">>
    <3>1. Place' = "main"
      BY <2>3, Bottom DEF Place, Top, Nested, MainLabels
    <3> QED BY <2>1, <3>1
  <2> QED BY <1>4, <2>2, <2>3, <2>1 DEF Part2Save
<1> QED BY <1>2, <1>3, <1>4

\* resume_command, up to the line before it.
LEMMA HeatPlace ==
  ASSUME Frames
  PROVE  /\ Resume => Place = "main" /\ Place' \in {"heat", "heated"} /\ pc' # "exec"
         /\ HeatMore \/ HeatAgain \/ HeatReached \/ HeatDone =>
              Heating /\ Heating' /\ pc' # "exec"
         /\ HeatAborted \/ ResumeAborted => Heating /\ Place' = "main" /\ pc' # "exec"
         /\ ResumeBefore => Heating /\ Place' = "restore"
<1>1. ASSUME Resume
      PROVE  Place = "main" /\ Place' \in {"heat", "heated"} /\ pc' # "exec"
  <2>1. Place = "main"
    BY <1>1, PlaceIs DEF Resume, Exec
  <2>2. Goto("heat") \/ Goto("heated")
    BY <1>1 DEF Resume
  <2> QED BY <2>1, <2>2, GotoPlace
<1>2. ASSUME HeatAgain \/ HeatReached \/ HeatDone
      PROVE  Heating /\ Heating' /\ pc' # "exec"
  <2>1. Heating
    BY <1>2, PlaceIs DEF Heating, HeatAgain, HeatReached, HeatDone
  <2>2. Goto("heat") \/ Goto("heatReached") \/ Goto("heated")
    BY <1>2 DEF HeatAgain, HeatReached, HeatDone
  <2>3. Place' \in {"heat", "heatReached", "heated"} /\ pc' # "exec"
    BY <2>2, GotoPlace
  <2> QED BY <2>1, <2>3 DEF Heating
<1>3. ASSUME HeatMore
      PROVE  Heating /\ Heating' /\ pc' # "exec"
  <2>1. Place = "heat"
    BY <1>3, PlaceIs DEF HeatMore
  <2>2. stack \in Seq(Labels) /\ "heatMore" \in Labels
    BY DEF Frames, Labels
  <2>3. pc' = "idle" /\ Head(stack') = "heatMore"
    BY <1>3, <2>2, Push DEF HeatMore, Call
  <2>4. Place' = "heatMore"
    BY <2>3 DEF Place, Top, Nested, MainLabels
  <2> QED BY <2>1, <2>3, <2>4 DEF Heating
<1>4. ASSUME HeatAborted \/ ResumeAborted
      PROVE  Heating /\ Place' = "main" /\ pc' # "exec"
  <2>1. pc \in {"heatMore", "heatReached", "heated"} /\ Done
    BY <1>4 DEF HeatAborted, ResumeAborted
  <2>2. Heating
    BY <2>1, PlaceIs DEF Heating
  <2>3. LineStack(stack)
    BY <2>1 DEF Frames, LineLabels
  <2> QED BY <2>1, <2>2, <2>3, DonePlace
<1>5. ASSUME ResumeBefore
      PROVE  Heating /\ Place' = "restore"
  <2>1. Heating
    BY <1>5, PlaceIs DEF Heating, ResumeBefore
  <2>2. CASE Goto("restore")
    BY <2>1, <2>2, GotoPlace
  <2>3. CASE Line(BeforeResume, "restore")
    <3>1. stack \in Seq(Labels) /\ "restore" \in Labels
      BY DEF Frames, Labels
    <3>2. pc' = "exec" /\ Head(stack') = "restore"
      BY <2>3, <3>1, Push DEF Line, Call
    <3>3. Place' = "restore"
      BY <3>2 DEF Place, Nested
    <3> QED BY <2>1, <3>3
  <2> QED BY <1>5, <2>1, <2>2, <2>3 DEF ResumeBefore
<1> QED BY <1>1, <1>2, <1>3, <1>4, <1>5

\* resume_command, from there.
LEMMA RestorePlace ==
  ASSUME Frames
  PROVE  /\ Restore => Place = "restore" /\ Place' = "moveBack" /\ pc' # "exec"
         /\ MoveBack => Place = "moveBack" /\ Place' = "restoreWait" /\ pc' # "exec"
         /\ RestoreMode => Place = "restoreWait" /\ Place' = "resumeEnd" /\ pc' # "exec"
         /\ ResumeEnd => Place = "resumeEnd" /\ Place' = "main" /\ pc' # "exec"
<1>1. ASSUME Restore
      PROVE  Place = "restore" /\ Place' = "moveBack" /\ pc' # "exec"
  BY <1>1, PlaceIs, GotoPlace DEF Restore
<1>2. ASSUME MoveBack
      PROVE  Place = "moveBack" /\ Place' = "restoreWait" /\ pc' # "exec"
  BY <1>2, PlaceIs, GotoPlace DEF MoveBack
<1>3. ASSUME RestoreMode
      PROVE  Place = "restoreWait" /\ Place' = "resumeEnd" /\ pc' # "exec"
  BY <1>3, PlaceIs, GotoPlace DEF RestoreMode
<1>4. ASSUME ResumeEnd
      PROVE  Place = "resumeEnd" /\ Place' = "main" /\ pc' # "exec"
  <2>1. pc = "resumeEnd" /\ Done
    BY <1>4 DEF ResumeEnd
  <2>2. LineStack(stack)
    BY <2>1 DEF Frames, LineLabels
  <2> QED BY <2>1, <2>2, PlaceIs, DonePlace
<1> QED BY <1>1, <1>2, <1>3, <1>4

-----------------------------------------------------------------------------
(* Types.                                                                   *)

\* pop_state.
LEMMA PoppedIs ==
  ASSUME robot \in RobotType
  PROVE  /\ Popped(robot) \in RobotType /\ Popped(robot).position = robot.position
         /\ robot.states # <<>> => /\ Popped(robot).states = Tail(robot.states)
                                   /\ Popped(robot).mode = Head(robot.states).mode
         /\ robot.states = <<>> => Popped(robot) = robot
         /\ AllHost(robot.states) => AllHost(Popped(robot).states)
<1>1. CASE robot.states = <<>>
  BY <1>1 DEF Popped
<1>2. CASE robot.states # <<>>
  <2>1. /\ robot.states \in Seq(State) /\ Head(robot.states) \in State
        /\ Tail(robot.states) \in Seq(State)
    BY <1>2, HeadTailProperties DEF RobotType
  <2>2. Popped(robot) = [robot EXCEPT !.mode = Head(robot.states).mode,
                                      !.states = Tail(robot.states)]
    BY <1>2 DEF Popped, RobotType
  <2>3. Popped(robot) \in RobotType
    BY <2>1, <2>2 DEF RobotType, State
  <2>4. ASSUME AllHost(robot.states)
        PROVE  AllHost(Tail(robot.states))
    BY <1>2, <2>1, <2>4, HeadTailProperties DEF AllHost
  <2> QED BY <1>2, <2>1, <2>2, <2>3, <2>4 DEF RobotType
<1> QED BY <1>1, <1>2

\* push_state.
LEMMA PushedIs ==
  ASSUME robot \in RobotType, NEW w \in {"host", "player"}
  PROVE  /\ Pushed(robot, w) \in RobotType
         /\ Pushed(robot, w).position = robot.position /\ Pushed(robot, w).mode = robot.mode
         /\ Pushed(robot, w).states # <<>>
         /\ Head(Pushed(robot, w).states) = [mode |-> robot.mode, by |-> w]
         /\ Tail(Pushed(robot, w).states) = robot.states
         /\ w = "host" /\ AllHost(robot.states) => AllHost(Pushed(robot, w).states)
<1> DEFINE e == [mode |-> robot.mode, by |-> w]
           s == <<e>> \o robot.states
<1>1. e \in State /\ robot.states \in Seq(State)
  BY DEF RobotType, State
<1>2. s \in Seq(State) /\ s # <<>> /\ Head(s) = e /\ Tail(s) = robot.states
  BY <1>1, Push
<1>3. Pushed(robot, w) = [robot EXCEPT !.states = s]
  BY DEF Pushed, RobotType
<1>4. ASSUME w = "host", AllHost(robot.states)
      PROVE  AllHost(s)
  BY <1>1, <1>4 DEF AllHost
<1> HIDE DEF s
<1> QED BY <1>2, <1>3, <1>4 DEF RobotType

\* The clean up after a suspend.
LEMMA CleanUpIs ==
  ASSUME player.suspended \in BOOLEAN, NEW p \in PlayerType
  PROVE  /\ CleanUp(p) \in PlayerType
         /\ CleanUp(p).playing_file = p.playing_file /\ CleanUp(p).abort_flag = p.abort_flag
         /\ player.suspended => /\ CleanUp(p).suspended = FALSE
                                /\ CleanUp(p).was_playing_file = FALSE
                                /\ CleanUp(p).suspend_loops = 0
         /\ ~player.suspended => CleanUp(p) = p
<1>1. SuspendLoops \in Nat
  BY PlayerAssumption
<1>2. CASE player.suspended
  <2>1. CleanUp(p) = [p EXCEPT !.suspended = FALSE, !.was_playing_file = FALSE,
                        !.suspend_loops = 0]
    BY <1>2 DEF CleanUp, Cleaned
  <2>2. 0 \in 0 .. SuspendLoops
    BY <1>1
  <2>3. CleanUp(p) \in PlayerType
    BY <2>1, <2>2 DEF PlayerType
  <2>4. /\ CleanUp(p).playing_file = p.playing_file /\ CleanUp(p).abort_flag = p.abort_flag
        /\ CleanUp(p).suspended = FALSE /\ CleanUp(p).was_playing_file = FALSE
        /\ CleanUp(p).suspend_loops = 0
    BY <2>1 DEF PlayerType
  <2> QED BY <1>2, <2>3, <2>4
<1>3. CASE ~player.suspended
  BY <1>3 DEF CleanUp
<1> QED BY <1>2, <1>3

\* What the clean up leaves of the robot's states and of the temperature.
LEMMA CleanedTypes ==
  ASSUME TypeInv
  PROVE  /\ CleanUp(player) \in PlayerType /\ RobotCleaned \in RobotType
         /\ SavedCleaned \in [position : Position, temperature : {0, 1}]
<1>1. RobotCleaned \in RobotType
  BY PoppedIs DEF RobotCleaned, TypeInv
<1>2. SavedCleaned \in [position : Position, temperature : {0, 1}]
  BY DEF SavedCleaned, TypeInv
<1>3. CleanUp(player) \in PlayerType
  BY CleanUpIs DEF TypeInv, PlayerType
<1> QED BY <1>1, <1>2, <1>3

\* The steps of the thread that change no data.
LEMMA QuietTypes ==
  ASSUME TypeInv, arg' \in Lines \cup {"none"}, abs_mode' = abs_mode,
         UNCHANGED <<player, file, saved, robot, target, haltVars, at>>
  PROVE  TypeInv'
BY DEF TypeInv, haltVars

\* The steps that go on or end without changing data.
LEMMA QuietSteps ==
  ASSUME TypeInv,
         \/ IdleEnd \/ IdleHalt \/ WaitMore \/ Console \/ NoSuspendLoop \/ FeedNothing
         \/ ExecIgnored \/ ExecHalt \/ MoveEnd \/ ResetNothing \/ Part2Idle \/ ResumeNothing
         \/ HeatMore \/ HeatAgain \/ HeatReached \/ HeatDone
  PROVE  /\ arg' \in Lines \cup {"none"} /\ abs_mode' = abs_mode
         /\ UNCHANGED <<player, file, saved, robot, target, haltVars, at>>
<1>1. CASE Console
  <2>1. CASE Locals
    BY <1>1, <2>1 DEF Console, Locals, TypeInv
  <2>2. CASE \E l \in Commands \ {"kill"} : Line(l, "player")
    BY <1>1, <2>2, PlayerAssumption DEF Console, Line
  <2> QED BY <1>1, <2>1, <2>2 DEF Console
<1>2. CASE IdleEnd \/ IdleHalt \/ WaitMore \/ NoSuspendLoop \/ FeedNothing \/ ExecHalt
           \/ Part2Idle \/ HeatMore \/ HeatAgain \/ HeatReached \/ HeatDone
  BY <1>2 DEF IdleEnd, IdleHalt, WaitMore, NoSuspendLoop, FeedNothing, ExecHalt, Part2Idle,
     HeatMore, HeatAgain, HeatReached, HeatDone, Locals, TypeInv
<1>3. CASE ExecIgnored \/ MoveEnd \/ ResetNothing \/ ResumeNothing
  BY <1>3 DEF ExecIgnored, MoveEnd, ResetNothing, ResumeNothing, Done
<1> QED BY <1>1, <1>2, <1>3

\* A line that is fed is one of the file, and the next one follows it or is its end.
LEMMA FeedTypes ==
  ASSUME TypeInv, FeedLine
  PROVE  FileLines[file.line] \in Lines /\ file.line + 1 \in 1 .. Len(FileLines) + 1
<1>1. /\ FileLines \in Seq(Lines) /\ file.line \in 1 .. Len(FileLines) + 1
      /\ file.line <= Len(FileLines)
  BY PlayerAssumption DEF TypeInv, FeedLine
<1> QED BY <1>1

\* Every step keeps the types.
LEMMA TypeStep ==
  ASSUME PlainScripts, TypeInv, Frames, Next
  PROVE  TypeInv'
<1>1. /\ SuspendLoops \in Nat \ {0} /\ FileLines \in Seq(Lines)
      /\ 1 \in 1 .. Len(FileLines) + 1 /\ 0 \in 0 .. SuspendLoops
      /\ SuspendLoops \in 0 .. SuspendLoops
  BY PlayerAssumption
<1>2. /\ CleanUp(player) \in PlayerType /\ RobotCleaned \in RobotType
      /\ SavedCleaned \in [position : Position, temperature : {0, 1}]
      /\ Popped(robot) \in RobotType /\ Pushed(robot, "host") \in RobotType
      /\ Pushed(robot, "player") \in RobotType
  BY CleanedTypes, PoppedIs, PushedIs DEF TypeInv
<1>3. Opened \in [open : BOOLEAN, line : 1 .. Len(FileLines) + 1]
      /\ Closed \in [open : BOOLEAN, line : 1 .. Len(FileLines) + 1]
  BY <1>1 DEF Opened, Closed
<1>4. "none" \in Lines \cup {"none"} /\ "G90" \in Mode
  BY DEF Mode
<1>5. Here \in [position : Position, mode : Mode, target : {0, 1}]
  BY DEF Here, TypeInv, RobotType
<1> USE <1>1, <1>2, <1>3, <1>4 DEF TypeInv, haltVars, Locals, Done
<1>6. CASE \/ IdleEnd \/ IdleHalt \/ WaitMore \/ Console \/ NoSuspendLoop \/ FeedNothing
           \/ ExecIgnored \/ ExecHalt \/ MoveEnd \/ ResetNothing \/ Part2Idle \/ ResumeNothing
           \/ HeatMore \/ HeatAgain \/ HeatReached \/ HeatDone
  BY <1>6, QuietSteps
<1>7. CASE LimitHit
  BY <1>7 DEF LimitHit, threadVars
<1>8. CASE OnHalt
  <2> DEFINE p == [player EXCEPT !.abort_flag = (@ \/ player.playing_file)]
  <2>1. p \in PlayerType
    <3>1. player.abort_flag \/ player.playing_file \in BOOLEAN
      BY DEF PlayerType
    <3> QED BY <3>1 DEF PlayerType
  <2>2. player' = CleanUp(p) /\ player.suspended \in BOOLEAN
    BY <1>8 DEF OnHalt, PlayerType
  <2> HIDE DEF p
  <2>3. player' \in PlayerType
    BY <2>1, <2>2, CleanUpIs
  <2>4. robot' \in RobotType
    BY <1>8 DEF OnHalt, RobotType
  <2> QED BY <1>8, <2>3, <2>4 DEF OnHalt
<1>9. CASE PlayerAbort
  <2>1. player' \in PlayerType
    BY <1>9 DEF PlayerAbort, PlayerType
  <2> QED BY <1>9, <2>1 DEF PlayerAbort
<1>10. CASE SuspendLoop
  <2>1. player.suspend_loops - 1 \in 0 .. SuspendLoops
    BY <1>10 DEF SuspendLoop, Suspending, PlayerType
  <2>2. player' \in PlayerType
    BY <1>10, <2>1 DEF SuspendLoop, PlayerType
  <2> QED BY <1>10, <2>2 DEF SuspendLoop
<1>11. CASE FeedLine
  <2>1. file' \in [open : BOOLEAN, line : 1 .. Len(FileLines) + 1]
    BY <1>11, FeedTypes DEF FeedLine
  <2>2. arg' \in Lines \cup {"none"}
    BY <1>11, FeedTypes DEF FeedLine
  <2> QED BY <1>11, <2>1, <2>2 DEF FeedLine
<1>12. CASE FeedEnd
  BY <1>12 DEF FeedEnd, PlayerType
<1>13. CASE ExecUnhalt \/ ExecMove
  <2>1. robot' \in RobotType
    <3>1. 1 - robot.position \in Position
      BY DEF RobotType, Position
    <3> QED BY <1>13, <3>1 DEF ExecUnhalt, ExecMove, RobotType
  <2> QED BY <1>13, <2>1 DEF ExecUnhalt, ExecMove
<1>14. CASE ExecState
  <2>1. robot' \in RobotType
    BY <1>14 DEF ExecState, RobotType, Mode
  <2> QED BY <1>14, <2>1 DEF ExecState
<1>15. CASE ExecHome
  <2>1. robot' \in RobotType
    BY <1>15 DEF ExecHome, RobotType
  <2> QED BY <1>15, <2>1 DEF ExecHome
<1>16. CASE ExecPlay
  <2>1. CASE player.playing_file \/ player.suspended
    BY <1>16, <2>1 DEF ExecPlay, Files
  <2>2. CASE ~(player.playing_file \/ player.suspended)
    <3>1. file' \in Fopen /\ player' = [player EXCEPT !.playing_file = file'.open]
      BY <1>16, <2>2 DEF ExecPlay
    <3>2. file' \in [open : BOOLEAN, line : 1 .. Len(FileLines) + 1] /\ file'.open \in BOOLEAN
      BY <3>1 DEF Fopen
    <3>3. player' \in PlayerType
      BY <3>1, <3>2 DEF PlayerType
    <3> QED BY <1>16, <3>2, <3>3 DEF ExecPlay, Files
  <2> QED BY <2>1, <2>2
<1>17. CASE ExecSelect \/ ExecStart \/ ExecPause
  <2>1. file' \in [open : BOOLEAN, line : 1 .. Len(FileLines) + 1]
    BY <1>17 DEF ExecSelect, ExecStart, ExecPause, Fopen
  <2>2. \E b \in BOOLEAN : player' = [player EXCEPT !.playing_file = b]
    BY <1>17, <2>1 DEF ExecSelect, ExecStart, ExecPause
  <2>3. player' \in PlayerType
    BY <2>2 DEF PlayerType
  <2> QED BY <1>17, <2>1, <2>3 DEF ExecSelect, ExecStart, ExecPause, Files
<1>18. CASE AbortNothing
  BY <1>18 DEF AbortNothing
<1>19. CASE Abort
  <2>1. player' \in PlayerType
    BY <1>19 DEF Abort, PlayerType
  <2> QED BY <1>19, <2>1 DEF Abort
<1>20. CASE AbortEnd
  <2>1. robot' \in RobotType
    BY <1>20 DEF AbortEnd, RobotType
  <2>2. file' \in [open : BOOLEAN, line : 1 .. Len(FileLines) + 1]
    BY <1>20 DEF AbortEnd, Fopen
  <2> QED BY <1>20, <2>1, <2>2 DEF AbortEnd
<1>21. CASE Suspend
  <2>1. player' \in PlayerType
    BY <1>21 DEF Suspend, PlayerType
  <2>2. at' = at \/ at' = Here
    BY <1>21 DEF Suspend
  <2> QED BY <1>5, <1>21, <2>1, <2>2 DEF Suspend
<1>22. CASE Part2Aborted \/ HeatAborted \/ ResumeEnd
  <2>1. player' \in PlayerType
    <3>1. player.playing_file \/ player.was_playing_file \in BOOLEAN
      BY DEF PlayerType
    <3>2. CASE player' = [player EXCEPT !.suspended = FALSE]
      BY <3>2 DEF PlayerType
    <3>3. CASE player' = [player EXCEPT !.suspended = FALSE, !.was_playing_file = FALSE,
                                        !.playing_file = @ \/ player.was_playing_file]
      BY <3>1, <3>3 DEF PlayerType
    <3> QED BY <1>22, <3>2, <3>3 DEF Part2Aborted, HeatAborted, ResumeEnd
  <2> QED BY <1>22, <2>1 DEF Part2Aborted, HeatAborted, ResumeEnd
<1>23. CASE Part2Save
  <2>1. saved' \in [position : Position, temperature : {0, 1}]
    BY <1>23 DEF Part2Save, RobotType
  <2>2. arg' \in Lines \cup {"none"}
    BY <1>23, PlayerAssumption DEF Part2Save
  <2> QED BY <1>5, <1>23, <2>1, <2>2 DEF Part2Save
<1>24. CASE Resume
  BY <1>24 DEF Resume
<1>25. CASE ResumeAborted \/ ResumeBefore
  <2>1. saved' \in [position : Position, temperature : {0, 1}]
    BY <1>25 DEF ResumeAborted, ResumeBefore
  <2>2. player' \in PlayerType
    BY <1>25 DEF ResumeAborted, ResumeBefore, PlayerType
  <2>3. arg' \in Lines \cup {"none"}
    BY <1>25, PlayerAssumption DEF ResumeAborted, ResumeBefore, Line
  <2> QED BY <1>25, <2>1, <2>2, <2>3 DEF ResumeAborted, ResumeBefore, Line
<1>26. CASE Restore \/ MoveBack \/ RestoreMode
  <2>1. robot' \in RobotType
    <3>1. CASE Restore
      BY <3>1 DEF Restore, RobotType
    <3>2. CASE MoveBack
      <4>1. (IF halted THEN robot.position ELSE saved.position) \in Position
        BY DEF RobotType
      <4> QED BY <3>2, <4>1 DEF MoveBack, RobotType
    <3>3. CASE RestoreMode
      BY <3>3 DEF RestoreMode, RobotType
    <3> QED BY <1>26, <3>1, <3>2, <3>3
  <2>2. abs_mode' \in Mode
    BY <1>26 DEF Restore, MoveBack, RestoreMode, RobotType
  <2> QED BY <1>26, <2>1, <2>2 DEF Restore, MoveBack, RestoreMode
<1> QED BY <1>6, <1>7, <1>8, <1>9, <1>10, <1>11, <1>12, <1>13, <1>14, <1>15, <1>16, <1>17,
        <1>18, <1>19, <1>20, <1>21, <1>22, <1>23, <1>24, <1>25, <1>26
        DEF Next, Thread, Halting, MainLoop, LineReceived, SuspendResume

-----------------------------------------------------------------------------
(* The suspend and what it has to restore.                                  *)

DataInv == FileInv /\ SuspendInv /\ StatesInv /\ RestoreInv

\* A step that changes no data and stays where it is, in the heating of a resume
\* or in suspend_part2.
LEMMA QuietStep ==
  ASSUME DataInv, UNCHANGED <<player, file, saved, robot, target, at>>, abs_mode' = abs_mode,
         halted => halted', pc' = "exec" => pc = "exec" /\ arg' = arg,
         Place' = Place \/ (Heating /\ Heating') \/ (InPart2 /\ InPart2')
  PROVE  DataInv'
<1>1. /\ InPart2' <=> InPart2
      /\ Heating' <=> Heating
      /\ Restoring' <=> Restoring
      /\ \A l \in {"abortWait", "restore", "moveBack", "restoreWait", "resumeEnd"} :
           Place' = l <=> Place = l
  BY DEF InPart2, Heating, Restoring
<1>2. (Resuming' <=> Resuming) /\ (Marked' <=> Marked)
  BY <1>1 DEF Resuming, Marked
<1>3. FileInv'
  BY <1>1 DEF DataInv, FileInv
<1>4. SuspendInv'
  BY <1>1, <1>2 DEF DataInv, SuspendInv
<1>5. StatesInv'
  BY <1>1, <1>2 DEF DataInv, StatesInv, AllHost
<1>6. RestoreInv'
  BY <1>1, <1>2 DEF DataInv, RestoreInv
<1> QED BY <1>3, <1>4, <1>5, <1>6 DEF DataInv

\* A step after which nothing is suspended, and whose thread is not in the middle
\* of a suspend or a resume that goes on.
LEMMA NotSuspended ==
  ASSUME ~player'.suspended, player'.suspend_loops = 0, AllHost(robot'.states), pc' # "exec",
         player'.playing_file => file'.open, Place' = "abortWait" => ~player'.playing_file,
         InPart2' \/ Resuming' => halted'
  PROVE  DataInv'
<1>1. ~Marked'
  BY DEF Marked
<1>2. FileInv'
  BY DEF FileInv
<1>3. SuspendInv'
  BY DEF SuspendInv
<1>4. StatesInv'
  BY <1>1 DEF StatesInv
<1>5. RestoreInv'
  BY <1>1 DEF RestoreInv
<1> QED BY <1>2, <1>3, <1>4, <1>5 DEF DataInv

\* A step that leaves the suspend alone, outside of a suspend or in the line
\* before a resume.
LEMMA SuspendStays ==
  ASSUME TypeInv, DataInv, FileInv', Place' = Place, Place \in {"main", "restore"},
         player'.suspended = player.suspended, player'.suspend_loops = player.suspend_loops,
         UNCHANGED <<saved, target, at>>, robot'.states = robot.states,
         Place = "main" \/ (halted => halted'),
         pc' = "exec" => /\ arg' = "resume" => player.suspend_loops = 0
                         /\ player.suspended => arg' \notin {"M120", "M23", "M24", "M32"}
                         /\ arg' = "M121" => ~Marked
  PROVE  DataInv'
<1>1. ~InPart2 /\ ~InPart2' /\ ~Restoring /\ ~Restoring'
      /\ (Resuming <=> Place = "restore") /\ (Resuming' <=> Place = "restore")
  BY DEF InPart2, Restoring, Resuming, Heating
<1>2. Marked' <=> Marked
  BY <1>1 DEF Marked
<1>3. SuspendInv'
  BY <1>1 DEF DataInv, SuspendInv
<1>4. StatesInv'
  BY <1>2 DEF DataInv, StatesInv, AllHost
<1>5. RestoreInv'
  BY <1>1, <1>2 DEF DataInv, RestoreInv
<1> QED BY <1>3, <1>4, <1>5 DEF DataInv

\* The clean up leaves the states of the host.
LEMMA CleanedStates ==
  ASSUME TypeInv, DataInv
  PROVE  AllHost(RobotCleaned.states)
<1>1. CASE ~player.suspended
  BY <1>1 DEF RobotCleaned, DataInv, StatesInv, Marked
<1>2. CASE player.suspended /\ Marked
  BY <1>2, PoppedIs DEF RobotCleaned, DataInv, StatesInv, TypeInv
<1>3. CASE player.suspended /\ ~Marked
  BY <1>3, PoppedIs DEF RobotCleaned, DataInv, StatesInv, TypeInv
<1> QED BY <1>1, <1>2, <1>3

\* Nothing is suspended after the clean up.
LEMMA CleanedPlayer ==
  ASSUME TypeInv, DataInv, NEW p \in PlayerType, p.suspended = player.suspended,
         p.suspend_loops = player.suspend_loops
  PROVE  ~CleanUp(p).suspended /\ CleanUp(p).suspend_loops = 0
<1>1. player.suspended \in BOOLEAN /\ player.suspend_loops \in Nat
  BY PlayerAssumption DEF TypeInv, PlayerType
<1>2. CASE player.suspended
  BY <1>1, <1>2, CleanUpIs
<1>3. CASE ~player.suspended
  <2>1. CleanUp(p) = p
    BY <1>3 DEF CleanUp
  <2>2. ~(player.suspend_loops > 0)
    BY <1>3 DEF DataInv, SuspendInv
  <2>3. player.suspend_loops = 0
    BY <1>1, <2>2
  <2> QED BY <1>3, <2>1, <2>3
<1> QED BY <1>2, <1>3

\* The states after a resume that pops them.
LEMMA PoppedStates ==
  ASSUME TypeInv, DataInv
  PROVE  AllHost(Popped(robot).states)
<1>1. CASE Marked
  BY <1>1, PoppedIs DEF DataInv, StatesInv, TypeInv
<1>2. CASE ~Marked
  BY <1>2, PoppedIs DEF DataInv, StatesInv, TypeInv
<1> QED BY <1>1, <1>2

\* ON_IDLE, halts and the steps that only wait.
LEMMA HaltingStep ==
  ASSUME TypeInv, Frames, DataInv, Halting \/ LimitHit
  PROVE  DataInv'
<1>1. Place' = Place /\ (pc' = "exec" => pc = "exec" /\ arg' = arg)
  BY SamePlace
<1>2. CASE IdleEnd \/ IdleHalt \/ WaitMore \/ LimitHit
  <2>1. /\ UNCHANGED <<player, file, saved, robot, target, at>> /\ abs_mode' = abs_mode
        /\ halted => halted'
    BY <1>2 DEF IdleEnd, IdleHalt, WaitMore, LimitHit, Locals, haltVars, threadVars
  <2> QED BY <1>1, <2>1, QuietStep
<1>3. CASE OnHalt
  <2> DEFINE p == [player EXCEPT !.abort_flag = (@ \/ player.playing_file)]
  <2>1. /\ p \in PlayerType /\ p.suspended = player.suspended
        /\ p.suspend_loops = player.suspend_loops /\ p.playing_file = player.playing_file
    <3>1. player.abort_flag \/ player.playing_file \in BOOLEAN
      BY DEF TypeInv, PlayerType
    <3> QED BY <3>1 DEF TypeInv, PlayerType
  <2>2. player' = CleanUp(p) /\ file' = file /\ halted'
    BY <1>3 DEF OnHalt
  <2> HIDE DEF p
  <2>3. /\ ~player'.suspended /\ player'.suspend_loops = 0
        /\ player'.playing_file = player.playing_file
    <3>1. player.suspended \in BOOLEAN
      BY DEF TypeInv, PlayerType
    <3> QED BY <2>1, <2>2, <3>1, CleanedPlayer, CleanUpIs
  <2>4. robot'.states = RobotCleaned.states
    BY <1>3, CleanedTypes DEF OnHalt, RobotType
  <2>5. AllHost(robot'.states)
    BY <2>4, CleanedStates
  <2>6. /\ player.playing_file => file.open
        /\ Place = "abortWait" => ~player.playing_file
    BY DEF DataInv, FileInv
  <2>7. pc' # "exec"
    BY <1>1, <1>3 DEF OnHalt
  <2> QED BY <1>1, <2>2, <2>3, <2>5, <2>6, <2>7, NotSuspended
<1> QED BY <1>2, <1>3 DEF Halting

\* The main loop.
LEMMA MainLoopStep ==
  ASSUME ~Careless, TypeInv, Frames, DataInv, MainLoop
  PROVE  DataInv'
<1>1. CASE NoSuspendLoop \/ FeedNothing
  <2>1. /\ UNCHANGED <<player, file, saved, robot, target, at>> /\ abs_mode' = abs_mode
        /\ halted' = halted
    BY <1>1 DEF NoSuspendLoop, FeedNothing, Locals, haltVars
  <2> QED BY <1>1, <2>1, MainPlace, QuietStep
<1>2. CASE Console
  <2>1. /\ UNCHANGED <<player, file, saved, robot, target, halted, at>> /\ pc = "console"
    BY <1>2 DEF Console, haltVars
  <2>2. Place = "main" /\ Place' = "main"
    BY <1>2, CallLinePlace
  <2>3. FileInv'
    BY <2>1, <2>2 DEF DataInv, FileInv
  <2>4. /\ player'.suspended = player.suspended
        /\ player'.suspend_loops = player.suspend_loops /\ robot'.states = robot.states
    BY <2>1
  <2>5. pc' = "exec" => /\ arg' = "resume" => player.suspend_loops = 0
                        /\ player.suspended => arg' \notin {"M120", "M23", "M24", "M32"}
                        /\ arg' = "M121" => ~Marked
    <3>1. CASE Goto("player")
      BY <3>1 DEF Goto
    <3>2. CASE \E l \in Commands \ {"kill"} : Sensible(l) /\ Line(l, "player")
      <4>1. PICK l \in Commands \ {"kill"} : Sensible(l) /\ arg' = l
        BY <3>2 DEF Line
      <4>2. l = "M121" => ~Marked
        <5>1. l = "M121" => Head(robot.states).by = "host"
          BY <4>1 DEF Sensible
        <5>2. Marked => Head(robot.states).by = "player"
          BY DEF DataInv, StatesInv
        <5> QED BY <5>1, <5>2
      <4> QED BY <4>1, <4>2 DEF Sensible
    <3> QED BY <1>2, <3>1, <3>2 DEF Console
  <2> QED BY <2>1, <2>2, <2>3, <2>4, <2>5, SuspendStays
<1>3. CASE PlayerAbort
  <2>1. /\ ~CleanUp(player).suspended /\ CleanUp(player).suspend_loops = 0
        /\ CleanUp(player) \in PlayerType
    BY CleanedPlayer, CleanedTypes DEF TypeInv
  <2>2. ~player'.suspended /\ player'.suspend_loops = 0 /\ ~player'.playing_file
    BY <1>3, <2>1 DEF PlayerAbort, PlayerType
  <2>3. AllHost(robot'.states)
    BY <1>3, CleanedStates DEF PlayerAbort
  <2>4. Place' = "main" /\ pc' # "exec"
    BY <1>3, MainPlace
  <2> QED BY <2>2, <2>3, <2>4, NotSuspended DEF InPart2, Resuming, Heating, Restoring
<1>4. CASE SuspendLoop
  <2>1. /\ player.suspended /\ player.suspend_loops \in Nat \ {0}
        /\ player' = [player EXCEPT !.suspend_loops = @ - 1]
        /\ UNCHANGED <<file, saved, robot, target, at>> /\ halted' = halted
    BY <1>4, PlayerAssumption DEF SuspendLoop, Suspending, TypeInv, PlayerType, haltVars
  <2>2. /\ player'.suspended /\ player'.suspend_loops = player.suspend_loops - 1
        /\ player'.playing_file = player.playing_file
        /\ player'.was_playing_file = player.was_playing_file
    BY <2>1 DEF TypeInv, PlayerType
  <2>3. /\ Place = "main" /\ pc' # "exec"
        /\ Place' = IF player.suspend_loops = 1 THEN "part2Wait" ELSE "main"
    BY <1>4, SuspendLoopPlace
  <2>4. ~Marked /\ ~Marked' /\ ~Resuming'
        /\ (InPart2' => player'.suspend_loops = 0) /\ ~Restoring'
    BY <2>1, <2>2, <2>3 DEF Marked, InPart2, Resuming, Heating, Restoring
  <2>5. FileInv'
    BY <2>1, <2>2, <2>3 DEF DataInv, FileInv
  <2>6. SuspendInv'
    BY <2>2, <2>3, <2>4 DEF SuspendInv
  <2>7. StatesInv'
    BY <2>1, <2>3, <2>4 DEF DataInv, StatesInv, AllHost
  <2>8. RestoreInv'
    BY <2>3, <2>4 DEF RestoreInv
  <2> QED BY <2>5, <2>6, <2>7, <2>8 DEF DataInv
<1>5. CASE FeedLine
  <2>1. /\ player.playing_file /\ UNCHANGED <<player, saved, robot, target, halted, at>>
        /\ file' = [file EXCEPT !.line = @ + 1]
    BY <1>5 DEF FeedLine, haltVars
  <2>2. Place = "main" /\ Place' = "main"
    BY <1>5, CallLinePlace
  <2>3. file'.open = file.open
    BY <2>1 DEF TypeInv
  <2>4. FileInv'
    BY <2>1, <2>2, <2>3 DEF DataInv, FileInv
  <2>5. /\ player'.suspended = player.suspended
        /\ player'.suspend_loops = player.suspend_loops /\ robot'.states = robot.states
    BY <2>1
  <2>6. ~player.suspended /\ ~Marked /\ player.suspend_loops = 0
    <3>1. ~player.suspended
      BY <2>1 DEF DataInv, FileInv
    <3>2. player.suspend_loops \in Nat
      BY PlayerAssumption DEF TypeInv, PlayerType
    <3> QED BY <3>1, <3>2 DEF DataInv, SuspendInv, Marked
  <2> QED BY <2>1, <2>2, <2>4, <2>5, <2>6, SuspendStays
<1>6. CASE FeedEnd
  <2>1. /\ player' = [player EXCEPT !.playing_file = FALSE] /\ player.playing_file
        /\ UNCHANGED <<saved, robot, target, halted, at>>
    BY <1>6 DEF FeedEnd, haltVars
  <2>2. /\ player'.suspended = player.suspended
        /\ player'.suspend_loops = player.suspend_loops /\ robot'.states = robot.states
        /\ ~player'.playing_file
    BY <2>1 DEF TypeInv, PlayerType
  <2>3. Place = "main" /\ Place' = "main" /\ pc' # "exec"
    BY <1>6, MainPlace
  <2>4. FileInv'
    BY <2>1, <2>2, <2>3 DEF DataInv, FileInv
  <2> QED BY <2>1, <2>2, <2>3, <2>4, SuspendStays
<1> QED BY <1>1, <1>2, <1>3, <1>4, <1>5, <1>6 DEF MainLoop

\* The lines that leave the suspend alone.
LEMMA PlainLineStep ==
  ASSUME TypeInv, Frames, DataInv,
         \/ ExecIgnored \/ ExecUnhalt \/ ExecHalt \/ ExecMove \/ MoveEnd \/ ExecPlay
         \/ ExecSelect \/ ExecStart \/ ExecPause \/ ResetNothing \/ ResumeNothing
         \/ (ExecState /\ arg = "mode")
  PROVE  DataInv'
<1>1. CASE \/ ExecIgnored \/ ExecHalt \/ MoveEnd \/ ResetNothing \/ ResumeNothing
  <2>1. /\ UNCHANGED <<player, file, saved, robot, target, at>> /\ abs_mode' = abs_mode
        /\ halted' = halted
    BY <1>1 DEF ExecIgnored, ExecHalt, MoveEnd, ResetNothing, ResumeNothing, Done, Locals,
       haltVars
  <2>2. Place' = Place /\ (pc' = "exec" => pc = "exec" /\ arg' = arg)
    <3>1. CASE ExecIgnored \/ MoveEnd
      BY <3>1, SamePlace DEF LinesPlainly
    <3>2. CASE ExecHalt \/ ResetNothing \/ ResumeNothing
      BY <3>2, LinePlace DEF LinesAtOnce
    <3> QED BY <1>1, <3>1, <3>2
  <2> QED BY <2>1, <2>2, QuietStep
<1>2. CASE ExecUnhalt \/ ExecMove \/ (ExecState /\ arg = "mode")
  <2>1. UNCHANGED <<player, file, saved, target, at>> /\ robot'.states = robot.states
    <3>1. CASE ExecUnhalt \/ ExecMove
      BY <3>1 DEF ExecUnhalt, ExecMove, TypeInv, RobotType
    <3>2. CASE ExecState /\ arg = "mode"
      BY <3>2 DEF ExecState, Exec, TypeInv, RobotType
    <3> QED BY <1>2, <3>1, <3>2
  <2>2. Place' = Place /\ Place \in {"main", "restore"} /\ pc' # "exec"
    <3>1. CASE ExecUnhalt
      BY <3>1, LinePlace DEF LinesAtOnce
    <3>2. CASE ExecMove
      <4>1. pc = "exec" /\ pc' = "moveWait" /\ Place' = Place
        BY <3>2, SamePlace DEF LinesPlainly, ExecMove, Exec, Goto
      <4> QED BY <4>1, PlaceIs
    <3>3. CASE ExecState /\ arg = "mode"
      <4>1. pc = "exec" /\ pc' # "exec" /\ Place' = Place
        <5>1. pc = "exec" /\ pc' = Head(stack)
          BY <3>3 DEF ExecState, Exec, Done, Return
        <5>2. Head(stack) # "exec"
          BY <5>1, Bottom DEF Frames, LineLabels, LineStack, RestoreStack
        <5> QED BY <3>3, <5>1, <5>2, SamePlace DEF LinesPlainly
      <4> QED BY <4>1, PlaceIs
    <3> QED BY <1>2, <3>1, <3>2, <3>3
  <2>3. Place = "main" \/ (halted => halted')
    <3>1. CASE ExecUnhalt
      BY <3>1, LinePlace DEF LinesAtOnce
    <3>2. CASE ExecMove \/ ExecState
      BY <3>2 DEF ExecMove, ExecState, haltVars
    <3> QED BY <1>2, <3>1, <3>2
  <2>4. FileInv'
    BY <2>1, <2>2 DEF DataInv, FileInv
  <2>5. player'.suspended = player.suspended /\ player'.suspend_loops = player.suspend_loops
    BY <2>1
  <2> QED BY <2>1, <2>2, <2>3, <2>4, <2>5, SuspendStays
<1>3. CASE ExecPlay \/ ExecSelect \/ ExecStart \/ ExecPause
  <2>1. Place = "main" /\ Place' = "main" /\ pc' # "exec"
    BY <1>3, LinePlace DEF LinesAtOnce
  <2>2. UNCHANGED <<saved, robot, target, halted, at>> /\ pc = "exec"
    BY <1>3 DEF ExecPlay, ExecSelect, ExecStart, ExecPause, Files, Exec, haltVars
  <2>3. /\ player.playing_file \in BOOLEAN /\ player.suspended \in BOOLEAN
        /\ player.was_playing_file \in BOOLEAN
    BY DEF TypeInv, PlayerType
  <2>4. \A f \in Fopen : f.open \in BOOLEAN
    <3>1. Opened.open \in BOOLEAN /\ Closed.open \in BOOLEAN
      BY DEF Opened, Closed
    <3> QED BY <3>1 DEF Fopen
  <2>5. player' = player \/ \E b \in BOOLEAN : player' = [player EXCEPT !.playing_file = b]
    <3>1. CASE ExecPlay
      BY <3>1, <2>4 DEF ExecPlay
    <3>2. CASE ExecSelect \/ ExecStart \/ ExecPause
      BY <3>2 DEF ExecSelect, ExecStart, ExecPause
    <3> QED BY <1>3, <3>1, <3>2
  <2>6. /\ player'.suspended = player.suspended
        /\ player'.suspend_loops = player.suspend_loops
        /\ player'.was_playing_file = player.was_playing_file
    BY <2>5 DEF TypeInv, PlayerType
  <2>7. FileInv'
    <3>1. CASE ExecPlay /\ (player.playing_file \/ player.suspended)
      <4>1. UNCHANGED <<player, file>>
        BY <3>1 DEF ExecPlay
      <4> QED BY <2>1, <4>1 DEF DataInv, FileInv
    <3>2. CASE ExecPlay /\ ~(player.playing_file \/ player.suspended)
      <4>1. player' = [player EXCEPT !.playing_file = file'.open]
        BY <3>2 DEF ExecPlay
      <4>2. player'.playing_file = file'.open
        BY <4>1 DEF TypeInv, PlayerType
      <4> QED BY <2>1, <2>6, <3>2, <4>2 DEF FileInv
    <3>3. CASE ExecSelect
      <4>1. ~player.suspended
        BY <2>2, <3>3 DEF DataInv, SuspendInv, ExecSelect, Files, Exec
      <4>2. player' = [player EXCEPT !.playing_file = \/ @ /\ ~file.open
                                                      \/ arg = "M32" /\ file'.open]
        BY <3>3 DEF ExecSelect
      <4>3. player'.playing_file => (player.playing_file /\ ~file.open) \/ file'.open
        BY <4>2 DEF TypeInv, PlayerType
      <4>4. player.playing_file => file.open
        BY DEF DataInv, FileInv
      <4> QED BY <2>1, <2>6, <4>1, <4>3, <4>4 DEF FileInv
    <3>4. CASE ExecStart
      <4>1. ~player.suspended
        BY <2>2, <3>4 DEF DataInv, SuspendInv, ExecStart, Files, Exec
      <4>2. player' = [player EXCEPT !.playing_file = @ \/ file.open] /\ file' = file
        BY <3>4 DEF ExecStart
      <4>3. player'.playing_file => player.playing_file \/ file.open
        BY <4>2 DEF TypeInv, PlayerType
      <4>4. player.playing_file => file.open
        BY DEF DataInv, FileInv
      <4> QED BY <2>1, <2>6, <4>1, <4>2, <4>3, <4>4 DEF FileInv
    <3>5. CASE ExecPause
      <4>1. player' = [player EXCEPT !.playing_file = FALSE] /\ file' = file
        BY <3>5 DEF ExecPause
      <4>2. ~player'.playing_file
        BY <4>1 DEF TypeInv, PlayerType
      <4> QED BY <2>1, <2>6, <4>1, <4>2 DEF DataInv, FileInv
    <3> QED BY <1>3, <3>1, <3>2, <3>3, <3>4, <3>5
  <2> QED BY <2>1, <2>2, <2>6, <2>7, SuspendStays
<1> QED BY <1>1, <1>2, <1>3

\* The lines that end a suspend, and those of M120 and M121.
LEMMA CleaningLineStep ==
  ASSUME TypeInv, Frames, DataInv,
         ExecHome \/ AbortNothing \/ Abort \/ AbortEnd \/ (ExecState /\ arg # "mode")
  PROVE  DataInv'
<1>1. /\ ~CleanUp(player).suspended /\ CleanUp(player).suspend_loops = 0
      /\ CleanUp(player) \in PlayerType
      /\ CleanUp(player).playing_file = player.playing_file
  <2>1. player.suspended \in BOOLEAN /\ player \in PlayerType
    BY DEF TypeInv, PlayerType
  <2> QED BY <2>1, CleanedPlayer, CleanUpIs
<1>2. player.playing_file => file.open
  BY DEF DataInv, FileInv
<1>3. CASE ExecHome \/ AbortNothing
  <2>1. player' = CleanUp(player) /\ file' = file
    BY <1>3 DEF ExecHome, AbortNothing
  <2>2. robot'.states = RobotCleaned.states
    BY <1>3, CleanedTypes DEF ExecHome, AbortNothing, RobotType
  <2>3. AllHost(robot'.states)
    BY <2>2, CleanedStates
  <2>4. Place' = "main" /\ pc' # "exec"
    BY <1>3, LinePlace DEF LinesAtOnce
  <2> QED BY <1>1, <1>2, <2>1, <2>3, <2>4, NotSuspended
          DEF InPart2, Resuming, Heating, Restoring
<1>4. CASE Abort
  <2>1. player' = [CleanUp(player) EXCEPT !.playing_file = FALSE] /\ robot' = RobotCleaned
    BY <1>4 DEF Abort
  <2>2. ~player'.suspended /\ player'.suspend_loops = 0 /\ ~player'.playing_file
    BY <1>1, <2>1 DEF PlayerType
  <2>3. AllHost(robot'.states)
    BY <2>1, CleanedStates
  <2>4. Place' = "abortWait" /\ pc' # "exec"
    BY <1>4, AbortPlace
  <2> QED BY <2>2, <2>3, <2>4, NotSuspended DEF InPart2, Resuming, Heating, Restoring
<1>5. CASE AbortEnd
  <2>1. Place = "abortWait" /\ Place' = "main" /\ pc' # "exec"
    BY <1>5, AbortPlace
  <2>2. ~player.playing_file /\ ~player.suspended
    BY <2>1 DEF DataInv, FileInv
  <2>3. player.suspend_loops = 0
    <3>1. player.suspend_loops \in Nat
      BY PlayerAssumption DEF TypeInv, PlayerType
    <3> QED BY <2>2, <3>1 DEF DataInv, SuspendInv
  <2>4. AllHost(robot.states)
    BY <2>2 DEF DataInv, StatesInv, Marked
  <2>5. player' = player /\ robot'.states = robot.states
    BY <1>5 DEF AbortEnd, TypeInv, RobotType
  <2>6. AllHost(robot'.states)
    BY <2>4, <2>5
  <2> QED BY <2>1, <2>2, <2>3, <2>5, <2>6, NotSuspended
          DEF InPart2, Resuming, Heating, Restoring
<1>6. CASE ExecState /\ arg # "mode"
  <2>1. /\ UNCHANGED <<player, file, saved, target, halted, at>>
        /\ pc = "exec" /\ arg \in {"M120", "M121"}
        /\ robot' = Pushed(robot, "host") \/ robot' = Popped(robot)
    BY <1>6 DEF ExecState, Exec, haltVars
  <2>2. Place = "main" /\ Place' = "main" /\ pc' # "exec"
    BY <1>6, LinePlace DEF LinesAtOnce
  <2>3. ~InPart2 /\ ~Restoring /\ ~Resuming /\ ~InPart2' /\ ~Restoring' /\ ~Resuming'
    BY <2>2 DEF InPart2, Resuming, Heating, Restoring
  <2>4. ~Marked /\ ~Marked'
    BY <2>1, <2>3 DEF DataInv, SuspendInv, StatesInv, Marked
  <2>5. AllHost(robot.states)
    BY <2>4 DEF DataInv, StatesInv
  <2>6. AllHost(robot'.states)
    BY <2>1, <2>5, PoppedIs, PushedIs DEF TypeInv
  <2>7. FileInv'
    BY <2>1, <2>2 DEF DataInv, FileInv
  <2>8. SuspendInv'
    BY <2>1, <2>2, <2>3 DEF DataInv, SuspendInv
  <2>9. StatesInv'
    BY <2>2, <2>4, <2>6 DEF StatesInv
  <2>10. RestoreInv'
    BY <2>2, <2>3, <2>4 DEF RestoreInv
  <2> QED BY <2>7, <2>8, <2>9, <2>10 DEF DataInv
<1> QED BY <1>3, <1>4, <1>5, <1>6

\* suspend_command and suspend_part2.
LEMMA SuspendStep ==
  ASSUME PlainScripts, TypeInv, Frames, DataInv,
         Suspend \/ Part2Idle \/ Part2Aborted \/ Part2Save
  PROVE  DataInv'
<1>1. player.suspend_loops \in Nat /\ SuspendLoops \in Nat \ {0}
  BY PlayerAssumption DEF TypeInv, PlayerType
<1>2. CASE Part2Idle
  <2>1. /\ UNCHANGED <<player, file, saved, robot, target, at>> /\ abs_mode' = abs_mode
        /\ halted' = halted
    BY <1>2 DEF Part2Idle, Locals, haltVars
  <2>2. InPart2 /\ InPart2' /\ pc' # "exec"
    BY <1>2, Part2Place DEF InPart2
  <2> QED BY <2>1, <2>2, QuietStep
<1>3. CASE Part2Aborted
  <2>1. Place = "part2" /\ Place' = "main" /\ pc' # "exec"
    BY <1>3, Part2Place
  <2>2. player' = [player EXCEPT !.suspended = FALSE] /\ UNCHANGED <<file, robot>>
    BY <1>3 DEF Part2Aborted
  <2>3. player.suspend_loops = 0 /\ ~Marked
    BY <2>1 DEF InPart2, DataInv, SuspendInv, Marked
  <2>4. AllHost(robot'.states)
    BY <2>2, <2>3 DEF DataInv, StatesInv
  <2>5. /\ ~player'.suspended /\ player'.suspend_loops = 0
        /\ player'.playing_file = player.playing_file
    BY <2>2, <2>3 DEF TypeInv, PlayerType
  <2>6. player'.playing_file => file'.open
    BY <2>2, <2>5 DEF DataInv, FileInv
  <2> QED BY <2>1, <2>4, <2>5, <2>6, NotSuspended DEF InPart2, Resuming, Heating, Restoring
<1>4. CASE Part2Save
  <2>1. Place = "part2" /\ Place' = "main"
    BY <1>4, Part2Place
  <2>2. /\ UNCHANGED <<player, file, halted>> /\ ~halted
        /\ saved' = [position |-> robot.position, temperature |-> target]
        /\ robot' = Pushed(robot, "player") /\ target' = 0 /\ at' = Here
        /\ pc' = "exec" => arg' \in {"move", "mode"}
    <3>1. CASE AfterSuspend = "none"
      BY <1>4, <3>1 DEF Part2Save, haltVars, Call
    <3>2. CASE AfterSuspend # "none"
      BY <1>4, <3>2 DEF Part2Save, haltVars, PlainScripts
    <3> QED BY <3>1, <3>2
  <2>3. player.suspended /\ player.suspend_loops = 0 /\ ~Marked
    BY <2>1, <2>2 DEF DataInv, SuspendInv, InPart2, Marked
  <2>4. ~InPart2' /\ ~Restoring' /\ ~Resuming' /\ Marked'
    BY <2>1, <2>2, <2>3 DEF InPart2, Resuming, Heating, Restoring, Marked
  <2>5. /\ robot'.states # <<>> /\ Tail(robot'.states) = robot.states
        /\ Head(robot'.states) = [mode |-> robot.mode, by |-> "player"]
    BY <2>2, PushedIs DEF TypeInv
  <2>6. AllHost(robot.states)
    BY <2>3 DEF DataInv, StatesInv
  <2>7. /\ at'.mode = robot.mode /\ at'.position = robot.position /\ at'.target = target
        /\ saved'.position = robot.position /\ saved'.temperature = target
    BY <2>2 DEF Here
  <2>8. FileInv'
    BY <2>1, <2>2 DEF DataInv, FileInv
  <2>9. SuspendInv'
    BY <2>2, <2>3, <2>4 DEF SuspendInv
  <2>10. StatesInv'
    <3>1. Head(robot'.states).by = "player" /\ Head(robot'.states).mode = robot.mode
      BY <2>5
    <3>2. AllHost(Tail(robot'.states))
      BY <2>5, <2>6
    <3> QED BY <2>2, <2>4, <2>5, <2>7, <3>1, <3>2 DEF StatesInv
  <2>11. RestoreInv'
    BY <2>1, <2>2, <2>4, <2>7 DEF RestoreInv
  <2> QED BY <2>8, <2>9, <2>10, <2>11 DEF DataInv
<1>5. CASE Suspend
  <2>1. /\ Place = "main" /\ Place' = "main" /\ pc' # "exec"
        /\ UNCHANGED <<file, saved, robot, target, halted>>
    BY <1>5, LinePlace DEF LinesAtOnce, Suspend, haltVars
  <2>2. CASE player.suspended
    <3>1. UNCHANGED <<player, at>>
      BY <1>5, <2>2 DEF Suspend
    <3>2. abs_mode' = abs_mode /\ (halted => halted')
      BY <1>5, <2>1 DEF Suspend, Done
    <3> QED BY <2>1, <3>1, <3>2, QuietStep
  <2>3. CASE ~player.suspended
    <3>1. player' = [player EXCEPT !.suspended = TRUE, !.suspend_loops = SuspendLoops,
                       !.was_playing_file = player.playing_file, !.playing_file = FALSE]
      BY <1>5, <2>3 DEF Suspend
    <3>2. /\ player'.suspended /\ player'.suspend_loops = SuspendLoops
          /\ player'.was_playing_file = player.playing_file /\ ~player'.playing_file
      BY <3>1 DEF TypeInv, PlayerType
    <3>3. ~Marked /\ ~Marked' /\ ~InPart2' /\ ~Restoring' /\ ~Resuming'
      BY <1>1, <2>1, <2>3, <3>2 DEF InPart2, Resuming, Heating, Restoring, Marked
    <3>4. AllHost(robot'.states)
      BY <2>1, <3>3 DEF DataInv, StatesInv
    <3>5. FileInv'
      BY <2>1, <3>2 DEF DataInv, FileInv
    <3>6. SuspendInv'
      BY <2>1, <3>2, <3>3 DEF SuspendInv
    <3>7. StatesInv'
      BY <2>1, <3>3, <3>4 DEF StatesInv
    <3>8. RestoreInv'
      BY <2>1, <3>3 DEF RestoreInv
    <3> QED BY <3>5, <3>6, <3>7, <3>8 DEF DataInv
  <2> QED BY <2>2, <2>3
<1> QED BY <1>2, <1>3, <1>4, <1>5

\* resume_command.
LEMMA ResumeStep ==
  ASSUME PlainScripts, TypeInv, Frames, DataInv,
         \/ Resume \/ HeatMore \/ HeatAgain \/ HeatReached \/ HeatDone \/ HeatAborted
         \/ ResumeAborted \/ ResumeBefore \/ Restore \/ MoveBack \/ RestoreMode \/ ResumeEnd
  PROVE  DataInv'
<1>1. CASE HeatMore \/ HeatAgain \/ HeatReached \/ HeatDone
  <2>1. /\ UNCHANGED <<player, file, saved, robot, target, at>> /\ abs_mode' = abs_mode
        /\ halted' = halted
    BY <1>1 DEF HeatMore, HeatAgain, HeatReached, HeatDone, Locals, haltVars
  <2> QED BY <1>1, <2>1, HeatPlace, QuietStep
<1>2. CASE Resume
  <2>1. Place = "main" /\ Place' \in {"heat", "heated"} /\ pc' # "exec"
    BY <1>2, HeatPlace
  <2>2. /\ UNCHANGED <<player, file, saved, robot, halted, at>> /\ player.suspended
        /\ pc = "exec" /\ arg = "resume"
        /\ target' = IF saved.temperature = 0 THEN target ELSE saved.temperature
    BY <1>2 DEF Resume, Exec, haltVars
  <2>3. player.suspend_loops = 0
    BY <2>2 DEF DataInv, SuspendInv
  <2>4. Marked /\ Marked' /\ ~Resuming /\ ~Restoring' /\ Resuming'
    BY <2>1, <2>2, <2>3 DEF Marked, InPart2, Resuming, Heating, Restoring
  <2>5. target' = at'.target
    BY <2>2, <2>4 DEF DataInv, RestoreInv
  <2>6. FileInv'
    BY <2>1, <2>2 DEF DataInv, FileInv
  <2>7. SuspendInv'
    BY <2>1, <2>2, <2>3 DEF SuspendInv
  <2>8. StatesInv'
    BY <2>1, <2>2, <2>4 DEF DataInv, StatesInv, AllHost
  <2>9. RestoreInv'
    BY <2>1, <2>4, <2>5 DEF RestoreInv
  <2> QED BY <2>6, <2>7, <2>8, <2>9 DEF DataInv
<1>3. CASE HeatAborted \/ ResumeAborted
  <2>1. Heating /\ Place' = "main" /\ pc' # "exec"
    BY <1>3, HeatPlace
  <2>2. player' = [player EXCEPT !.suspended = FALSE] /\ file' = file
    BY <1>3 DEF HeatAborted, ResumeAborted
  <2>3. player.suspend_loops = 0
    BY <2>1 DEF DataInv, SuspendInv, Resuming
  <2>4. AllHost(robot'.states)
    <3>1. CASE HeatAborted
      BY <3>1, CleanedStates DEF HeatAborted
    <3>2. CASE ResumeAborted
      BY <3>2, PoppedStates DEF ResumeAborted
    <3> QED BY <1>3, <3>1, <3>2
  <2>5. /\ ~player'.suspended /\ player'.suspend_loops = 0
        /\ player'.playing_file = player.playing_file
    BY <2>2, <2>3 DEF TypeInv, PlayerType
  <2>6. player'.playing_file => file'.open
    BY <2>2, <2>5 DEF DataInv, FileInv
  <2> QED BY <2>1, <2>4, <2>5, <2>6, NotSuspended DEF InPart2, Resuming, Heating, Restoring
<1>4. CASE ResumeBefore
  <2>1. Heating /\ Place' = "restore"
    BY <1>4, HeatPlace
  <2>2. /\ UNCHANGED <<player, file, robot, target, halted, at>>
        /\ saved' = [saved EXCEPT !.temperature = 0]
        /\ pc' = "exec" => arg' \in {"move", "mode"}
    <3>1. CASE BeforeResume = "none"
      BY <1>4, <3>1 DEF ResumeBefore, haltVars, Goto
    <3>2. CASE BeforeResume # "none"
      BY <1>4, <3>2 DEF ResumeBefore, haltVars, PlainScripts, Line
    <3> QED BY <3>1, <3>2
  <2>3. saved'.position = saved.position
    BY <2>2 DEF TypeInv
  <2>4. /\ Resuming /\ Resuming' /\ ~Restoring /\ ~Restoring' /\ ~InPart2 /\ ~InPart2'
        /\ Marked' <=> Marked
    BY <2>1, <2>2 DEF InPart2, Resuming, Heating, Restoring, Marked
  <2>5. FileInv'
    BY <2>1, <2>2 DEF DataInv, FileInv
  <2>6. SuspendInv'
    BY <2>2, <2>4 DEF DataInv, SuspendInv
  <2>7. StatesInv'
    BY <2>2, <2>3, <2>4 DEF DataInv, StatesInv, AllHost
  <2>8. RestoreInv'
    BY <2>1, <2>2, <2>4 DEF DataInv, RestoreInv
  <2> QED BY <2>5, <2>6, <2>7, <2>8 DEF DataInv
<1>5. CASE Restore
  <2>1. Place = "restore" /\ Place' = "moveBack" /\ pc' # "exec"
    BY <1>5, RestorePlace
  <2>2. /\ UNCHANGED <<player, file, saved, target, halted, at>>
        /\ robot' = [Popped(robot) EXCEPT !.mode = "G90"] /\ abs_mode' = Popped(robot).mode
    BY <1>5 DEF Restore, haltVars
  <2>3. /\ Resuming /\ Resuming' /\ ~InPart2 /\ ~Restoring /\ ~InPart2' /\ Restoring'
        /\ ~Marked'
    BY <2>1 DEF InPart2, Resuming, Heating, Restoring, Marked
  <2>4. robot'.states = Popped(robot).states
    BY <2>2, PoppedIs DEF TypeInv, RobotType
  <2>5. AllHost(robot'.states)
    BY <2>4, PoppedStates
  <2>6. player.suspended => Marked
    BY <2>3 DEF DataInv, SuspendInv, Marked
  <2>7. player.suspended => abs_mode' = at.mode /\ saved.position = at.position
                            /\ target = at.target
    <3>1. ASSUME player.suspended
          PROVE  robot.states # <<>> /\ Head(robot.states).mode = at.mode
                 /\ saved.position = at.position
      BY <2>6, <3>1 DEF DataInv, StatesInv
    <3>2. player.suspended => target = at.target
      BY <2>3 DEF DataInv, RestoreInv
    <3> QED BY <2>2, <3>1, <3>2, PoppedIs DEF TypeInv
  <2>8. FileInv'
    BY <2>1, <2>2 DEF DataInv, FileInv
  <2>9. SuspendInv'
    BY <2>1, <2>2, <2>3 DEF DataInv, SuspendInv
  <2>10. StatesInv'
    BY <2>1, <2>3, <2>5 DEF StatesInv
  <2>11. RestoreInv'
    BY <2>1, <2>2, <2>3, <2>7 DEF RestoreInv
  <2> QED BY <2>8, <2>9, <2>10, <2>11 DEF DataInv
<1>6. CASE MoveBack \/ RestoreMode
  <2>1. /\ Place \in {"moveBack", "restoreWait"} /\ pc' # "exec"
        /\ MoveBack => Place' = "restoreWait"
        /\ RestoreMode => Place = "restoreWait" /\ Place' = "resumeEnd"
        /\ Place' \in {"restoreWait", "resumeEnd"}
    BY <1>6, RestorePlace
  <2>2. /\ UNCHANGED <<player, file, saved, target, halted, at>>
        /\ MoveBack => /\ robot' = [robot EXCEPT !.position = IF halted THEN @ ELSE saved.position]
                       /\ abs_mode' = abs_mode
        /\ RestoreMode => robot' = [robot EXCEPT !.mode = abs_mode]
    <3>1. CASE MoveBack
      <4>1. ~RestoreMode
        BY <3>1 DEF MoveBack, RestoreMode
      <4> QED BY <3>1, <4>1 DEF MoveBack, Locals, haltVars
    <3>2. CASE RestoreMode
      <4>1. ~MoveBack
        BY <3>2 DEF MoveBack, RestoreMode
      <4> QED BY <3>2, <4>1 DEF RestoreMode, haltVars
    <3> QED BY <1>6, <3>1, <3>2
  <2>3. /\ Resuming /\ Resuming' /\ ~InPart2 /\ Restoring /\ ~InPart2' /\ Restoring'
        /\ ~Marked /\ ~Marked'
    BY <2>1 DEF InPart2, Resuming, Heating, Restoring, Marked
  <2>4. /\ robot'.states = robot.states
        /\ MoveBack /\ ~halted => robot'.position = saved.position
        /\ RestoreMode => robot'.mode = abs_mode /\ robot'.position = robot.position
    BY <1>6, <2>2 DEF TypeInv, RobotType
  <2>5. AllHost(robot'.states)
    BY <2>3, <2>4 DEF DataInv, StatesInv
  <2>6. FileInv'
    BY <2>1, <2>2 DEF DataInv, FileInv
  <2>7. SuspendInv'
    BY <2>1, <2>2, <2>3 DEF DataInv, SuspendInv
  <2>8. StatesInv'
    BY <2>1, <2>3, <2>5 DEF StatesInv
  <2>9. RestoreInv'
    <3>1. /\ player.suspended => target = at.target /\ saved.position = at.position
                                 /\ abs_mode = at.mode
          /\ Place = "restoreWait" /\ player.suspended /\ ~halted => robot.position = at.position
      BY <2>1, <2>3 DEF DataInv, RestoreInv
    <3>2. CASE MoveBack
      BY <2>1, <2>2, <2>3, <2>4, <3>1, <3>2 DEF RestoreInv
    <3>3. CASE RestoreMode
      BY <2>1, <2>2, <2>3, <2>4, <3>1, <3>3 DEF RestoreInv
    <3> QED BY <1>6, <3>2, <3>3
  <2> QED BY <2>6, <2>7, <2>8, <2>9 DEF DataInv
<1>7. CASE ResumeEnd
  <2>1. Place = "resumeEnd" /\ Place' = "main" /\ pc' # "exec"
    BY <1>7, RestorePlace
  <2>2. Resuming /\ ~Marked
    BY <2>1 DEF Resuming, Restoring, Marked
  <2>3. /\ player.suspend_loops = 0
        /\ player.suspended \/ halted
        /\ player.playing_file => file.open
        /\ player.suspended /\ player.was_playing_file => file.open
        /\ AllHost(robot.states)
    BY <2>2 DEF DataInv, FileInv, SuspendInv, StatesInv
  <2>4. UNCHANGED <<file, robot>>
    BY <1>7 DEF ResumeEnd
  <2>5. CASE halted
    <3>1. player' = [player EXCEPT !.suspended = FALSE]
      BY <1>7, <2>5 DEF ResumeEnd
    <3>2. /\ ~player'.suspended /\ player'.suspend_loops = player.suspend_loops
          /\ player'.playing_file = player.playing_file
      BY <3>1 DEF TypeInv, PlayerType
    <3> QED BY <2>1, <2>3, <2>4, <3>2, NotSuspended DEF InPart2, Resuming, Heating, Restoring
  <2>6. CASE ~halted
    <3>1. player' = [player EXCEPT !.suspended = FALSE, !.was_playing_file = FALSE,
                       !.playing_file = @ \/ player.was_playing_file]
      BY <1>7, <2>6 DEF ResumeEnd
    <3>2. ~player'.suspended /\ player'.suspend_loops = player.suspend_loops
      BY <3>1 DEF TypeInv, PlayerType
    <3>3. player'.playing_file => player.playing_file \/ player.was_playing_file
      BY <3>1 DEF TypeInv, PlayerType
    <3>4. player'.playing_file => file'.open
      BY <2>3, <2>4, <2>6, <3>3
    <3> QED BY <2>1, <2>3, <2>4, <3>2, <3>4, NotSuspended
            DEF InPart2, Resuming, Heating, Restoring
  <2> QED BY <2>5, <2>6
<1> QED BY <1>1, <1>2, <1>3, <1>4, <1>5, <1>6, <1>7

\* Every step keeps what there is to restore.
LEMMA DataStep ==
  ASSUME ~Careless, PlainScripts, TypeInv, Frames, DataInv, Next
  PROVE  DataInv'
<1>1. CASE Halting \/ LimitHit
  BY <1>1, HaltingStep
<1>2. CASE MainLoop
  BY <1>2, MainLoopStep
<1>3. CASE LineReceived
  <2>1. ExecState => arg = "mode" \/ arg # "mode"
    OBVIOUS
  <2> QED BY <1>3, <2>1, PlainLineStep, CleaningLineStep DEF LineReceived
<1>4. CASE SuspendResume
  BY <1>4, PlainLineStep, SuspendStep, ResumeStep DEF SuspendResume
<1> QED BY <1>1, <1>2, <1>3, <1>4 DEF Next, Thread

-----------------------------------------------------------------------------
(* The theorems.                                                            *)

\* What the thread does, and what a suspend has left to restore, in every
\* reachable state.
THEOREM PlayerInvariant ==
  ASSUME ~Careless, PlainScripts
  PROVE  Spec => []PlayerInv
<1>1. Init => PlayerInv
  <2> SUFFICES ASSUME Init PROVE PlayerInv
    OBVIOUS
  <2>1. pc = "console" /\ stack = <<>> /\ arg = "none" /\ robot.states = <<>>
    BY DEF Init
  <2>2. Place = "main"
    BY <2>1 DEF Place, Top, Nested, MainLabels
  <2>3. TypeInv
    <3>1. 1 \in 1 .. Len(FileLines) + 1 /\ 0 \in 0 .. SuspendLoops
      BY PlayerAssumption
    <3>2. robot \in RobotType
      BY DEF Init, RobotType, Position, Mode
    <3> QED BY <3>1, <3>2 DEF Init, TypeInv, PlayerType, Position, Mode, Here
  <2>4. Frames
    BY <2>1 DEF Frames, Labels, BaseLabels, LineLabels
  <2>5. ~player.playing_file /\ ~player.suspended /\ player.suspend_loops = 0
    BY DEF Init
  <2>6. FileInv /\ SuspendInv
    BY <2>1, <2>2, <2>5 DEF FileInv, SuspendInv, InPart2, Resuming, Heating, Restoring
  <2>7. AllHost(robot.states)
    BY <2>1 DEF AllHost
  <2>8. StatesInv /\ RestoreInv
    BY <2>1, <2>2, <2>5, <2>7 DEF StatesInv, RestoreInv, Marked
  <2> QED BY <2>3, <2>4, <2>6, <2>8 DEF PlayerInv
<1>2. PlayerInv /\ [Next]_vars => PlayerInv'
  <2> SUFFICES ASSUME PlayerInv, [Next]_vars PROVE PlayerInv'
    OBVIOUS
  <2>1. TypeInv /\ Frames /\ DataInv
    BY DEF PlayerInv, DataInv
  <2>2. CASE Next
    BY <2>1, <2>2, TypeStep, FramesStep, DataStep DEF PlayerInv, DataInv
  <2>3. CASE UNCHANGED vars
    <3>1. /\ UNCHANGED <<player, file, saved, robot, target, at>> /\ halted' = halted
          /\ UNCHANGED <<limit, pc, stack, arg, abs_mode>>
      BY <2>3 DEF vars, haltVars, threadVars
    <3>2. TypeInv' /\ Frames'
      BY <2>1, <3>1 DEF TypeInv, Frames
    <3>3. Place' = Place
      BY <3>1 DEF Place, Top, Nested
    <3>4. DataInv'
      BY <2>1, <3>1, <3>3, QuietStep
    <3> QED BY <3>2, <3>4 DEF PlayerInv, DataInv
  <2> QED BY <2>2, <2>3
<1> QED BY <1>1, <1>2, PTL DEF Spec

\* Every variable keeps its type, and on_main_loop reads from a file that is open.
THEOREM PlayerTypes ==
  ASSUME ~Careless, PlainScripts
  PROVE  Spec => []TypeOK
<1>1. PlayerInv => TypeOK
  BY DEF PlayerInv, TypeInv, Frames, FileInv, TypeOK, PlayerType, RobotType
<1> QED BY <1>1, PlayerInvariant, PTL

\* The state that suspend_part2 pushes is popped by a resume, and by everything
\* that ends the suspend without one.
THEOREM SuspendPopsState ==
  ASSUME ~Careless, PlainScripts
  PROVE  Spec => []SuspendIsPopped
<1>1. PlayerInv => SuspendIsPopped
  BY DEF PlayerInv, StatesInv, SuspendIsPopped, AllHost, Marked
<1> QED BY <1>1, PlayerInvariant, PTL

\* A resume that nothing has halted ends with the position, the mode and the
\* temperature of the suspend.
THEOREM ResumeRestoresAll ==
  ASSUME ~Careless, PlainScripts
  PROVE  Spec => []ResumeRestores
<1>1. PlayerInv => ResumeRestores
  <2> SUFFICES ASSUME PlayerInv, pc = "resumeEnd", player.suspended, ~halted
               PROVE  Here = at
    BY DEF ResumeRestores
  <2>1. Place = "resumeEnd"
    BY PlaceIs DEF PlayerInv
  <2>2. robot.position = at.position /\ robot.mode = at.mode /\ target = at.target
    BY <2>1 DEF PlayerInv, RestoreInv, Resuming, Restoring
  <2> QED BY <2>2 DEF PlayerInv, TypeInv, Here
<1> QED BY <1>1, PlayerInvariant, PTL
=============================================================================
