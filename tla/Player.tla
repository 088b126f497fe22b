------------------------------- MODULE Player -------------------------------
(***************************************************************************)
(* Printing a file from the SD card (Player.cpp): play, pause, abort,      *)
(* suspend and resume, while halts come from commands, from ON_IDLE inside *)
(* any wait and from limit switches.  All of it runs in the thread, which  *)
(* can be interfered with only where it calls ON_IDLE, and by a limit      *)
(* switch that sets halted.  pc and stack are as in MotionQueue.           *)
(*                                                                         *)
(* A line is one of a few commands.  A move puts the head to one of two    *)
(* positions; mode stands for all that M120 saves.                         *)
(***************************************************************************)
EXTENDS Integers, Sequences

CONSTANTS
  FileLines,       \* the lines of the file
  AfterSuspend,    \* after_suspend_gcode, a line or "none"
  BeforeResume,    \* before_resume_gcode
  SuspendLoops,    \* main loops until a suspend is finished, 10 in the code
  MaxStates,       \* bound: states the host pushes with M120
  Commands,        \* what the host sends, and "kill" for the button
  LimitSwitches,   \* are hard limits enabled?
  Careless         \* may the host resume before the suspend is finished, or push
                   \* a state, select a file or start it while suspended?

Lines == {"move", "mode", "M120", "M121", "G28", "play", "abort", "suspend", "resume",
          "M23", "M24", "M25", "M26", "M32", "halt", "M999"}

ASSUME PlayerAssumption ==
  /\ FileLines \in Seq(Lines) /\ Commands \subseteq Lines \cup {"kill"}
  /\ AfterSuspend \in Lines \cup {"none"} /\ BeforeResume \in Lines \cup {"none"}
  /\ SuspendLoops \in Nat \ {0} /\ MaxStates \in Nat
  /\ LimitSwitches \in BOOLEAN /\ Careless \in BOOLEAN

VARIABLES
  player,          \* the flags of Player
  file,            \* is current_file_handler open, and the next line
  saved,           \* saved_position; the saved temperature, 0 for none
  robot,           \* position, mode and state_stack
  target,          \* target temperature of the heater
  halted, limit,   \* Kernel::halted; a limit halt that is not reported yet
  pc, stack, arg,  \* the thread, and the line it executes
  abs_mode,        \* local variable of resume_command
  at               \* what resume has to restore (not code)

threadVars == <<pc, stack, arg, abs_mode>>
haltVars == <<halted, limit>>
vars == <<player, file, saved, robot, target, haltVars, threadVars, at>>

-----------------------------------------------------------------------------
Position == {0, 1}
Mode == {"G90", "G91"}
State == [mode : Mode, by : {"host", "player"}]

Here == [position |-> robot.position, mode |-> robot.mode, target |-> target]

Init ==
  /\ player = [playing_file |-> FALSE, was_playing_file |-> FALSE, suspended |-> FALSE,
               suspend_loops |-> 0, abort_flag |-> FALSE]
  /\ file = [open |-> FALSE, line |-> 1]
  /\ saved = [position |-> 0, temperature |-> 0]
  /\ robot = [position |-> 0, mode |-> "G90", states |-> <<>>]
  /\ target = 1
  /\ halted = FALSE /\ limit = FALSE
  /\ pc = "console" /\ stack = <<>> /\ arg = "none" /\ abs_mode = "G90"
  /\ at = Here

Goto(l)      == pc' = l /\ stack' = stack
Call(l, ret) == pc' = l /\ stack' = <<ret>> \o stack
Return       == pc' = Head(stack) /\ stack' = Tail(stack)
Locals == UNCHANGED <<arg, abs_mode>>
\* The line is done.
Done == Return /\ arg' = "none" /\ abs_mode' = abs_mode
\* Execute a line and go on at ret.
Line(l, ret) == Call("exec", ret) /\ arg' = l /\ abs_mode' = abs_mode

\* Robot::push_state, pop_state
Pushed(r, who) == [r EXCEPT !.states = <<[mode |-> r.mode, by |-> who]>> \o @]
Popped(r) == IF r.states = <<>> THEN r
             ELSE [r EXCEPT !.mode = Head(r.states).mode, !.states = Tail(@)]

\* The clean up after a suspend, the same in on_halt, G28 and abort_command.
Cleaned(p) == [p EXCEPT !.suspended = FALSE, !.was_playing_file = FALSE, !.suspend_loops = 0]
CleanUp(p) == IF player.suspended THEN Cleaned(p) ELSE p
RobotCleaned == IF player.suspended THEN Popped(robot) ELSE robot
SavedCleaned == IF player.suspended THEN [saved EXCEPT !.temperature = 0] ELSE saved

-----------------------------------------------------------------------------
(* Halts *)

\* Endstops::check_limits and Kernel::immediate_halt, at any time.
LimitHit ==
  /\ LimitSwitches /\ ~halted /\ ~limit
  /\ halted' = TRUE /\ limit' = TRUE
  /\ UNCHANGED <<player, file, saved, robot, target, threadVars, at>>

\* ON_HALT: Player::on_halt; heaters go off, and the position becomes that of
\* the motors, wherever they have stopped.
OnHalt ==
  /\ pc = "halt"
  /\ halted' = TRUE /\ limit' = FALSE /\ target' = 0
  /\ player' = CleanUp([player EXCEPT !.abort_flag = (@ \/ player.playing_file)])
  /\ saved' = SavedCleaned
  /\ \E x \in Position : robot' = [RobotCleaned EXCEPT !.position = x]
  /\ Return /\ Locals /\ UNCHANGED <<file, at>>

\* ON_IDLE
IdleEnd ==
  /\ pc = "idle" /\ ~limit
  /\ Return /\ Locals /\ UNCHANGED <<player, file, saved, robot, target, haltVars, at>>

IdleHalt ==
  /\ pc = "idle" /\ (limit \/ ("kill" \in Commands /\ ~halted))
  /\ Goto("halt") /\ Locals /\ UNCHANGED <<player, file, saved, robot, target, haltVars, at>>

\* A wait for the queue to have room or to be empty calls ON_IDLE; it ends when
\* MotionQueue says so, or at once after a halt.
Waits == {"moveWait", "abortWait", "part2Wait", "restoreWait"}
WaitMore ==
  /\ pc \in Waits
  /\ Call("idle", pc) /\ Locals
  /\ UNCHANGED <<player, file, saved, robot, target, haltVars, at>>

-----------------------------------------------------------------------------
(* The main loop: one line of the host, Player::on_main_loop, ON_IDLE.     *)

\* The host pops only states it has pushed, and waits for the end of a suspend.
Sensible(l) ==
  /\ l = "M120" => Len(robot.states) < MaxStates /\ (Careless \/ ~player.suspended)
  /\ l = "M121" => robot.states # <<>> /\ Head(robot.states).by = "host"
  /\ l = "resume" => Careless \/ player.suspend_loops = 0
  /\ l \in {"M23", "M24", "M32"} => Careless \/ ~player.suspended

Console ==
  /\ pc = "console"
  /\ \/ Goto("player") /\ Locals
     \/ \E l \in Commands \ {"kill"} : Sensible(l) /\ Line(l, "player")
  /\ UNCHANGED <<player, file, saved, robot, target, haltVars, at>>

Closed == [open |-> FALSE, line |-> 1]
Opened == [open |-> TRUE, line |-> 1]

\* Mutant: the flag is cleared and the print goes on.
PlayerAbortForgets ==
  /\ pc = "player" /\ player.abort_flag
  /\ player' = [player EXCEPT !.abort_flag = FALSE]
  /\ Call("idle", "console") /\ Locals
  /\ UNCHANGED <<file, saved, robot, target, haltVars, at>>

\* abort_command("1"): the queue has been flushed by the halt.
PlayerAbort ==
  /\ pc = "player" /\ player.abort_flag
  /\ player' = [CleanUp(player) EXCEPT !.abort_flag = FALSE,
                  !.playing_file = FALSE]
  /\ robot' = RobotCleaned /\ saved' = SavedCleaned /\ file' = Closed
  /\ Call("idle", "console") /\ Locals
  /\ UNCHANGED <<target, haltVars, at>>

Suspending == player.suspended /\ player.suspend_loops > 0

\* Mutant: starts again.
SuspendLoopAgain ==
  /\ pc = "player" /\ ~player.abort_flag /\ Suspending
  /\ player' = [player EXCEPT !.suspend_loops = IF @ = 1 THEN SuspendLoops ELSE @ - 1]
  /\ Goto("feed") /\ Locals
  /\ UNCHANGED <<file, saved, robot, target, haltVars, at>>

SuspendLoop ==
  /\ pc = "player" /\ ~player.abort_flag /\ Suspending
  /\ player' = [player EXCEPT !.suspend_loops = @ - 1]
  /\ Goto(IF player.suspend_loops = 1 THEN "part2Wait" ELSE "feed") /\ Locals
  /\ UNCHANGED <<file, saved, robot, target, haltVars, at>>

NoSuspendLoop ==
  /\ pc = "player" /\ ~player.abort_flag /\ ~Suspending
  /\ Goto("feed") /\ Locals
  /\ UNCHANGED <<player, file, saved, robot, target, haltVars, at>>

FeedNothing ==
  /\ pc = "feed" /\ (~player.playing_file \/ halted)
  /\ Call("idle", "console") /\ Locals
  /\ UNCHANGED <<player, file, saved, robot, target, haltVars, at>>

\* One line for each main loop.
FeedLine ==
  /\ pc = "feed" /\ player.playing_file /\ ~halted
  /\ file.open /\ file.line <= Len(FileLines)
  /\ file' = [file EXCEPT !.line = @ + 1]
  /\ pc' = "exec" /\ stack' = <<"idle", "console">>
  /\ arg' = FileLines[file.line] /\ abs_mode' = abs_mode
  /\ UNCHANGED <<player, saved, robot, target, haltVars, at>>

FeedEnd ==
  /\ pc = "feed" /\ player.playing_file /\ ~halted
  /\ file.open /\ file.line > Len(FileLines)
  /\ player' = [player EXCEPT !.playing_file = FALSE] /\ file' = Closed
  /\ Call("idle", "console") /\ Locals
  /\ UNCHANGED <<saved, robot, target, haltVars, at>>

-----------------------------------------------------------------------------
(* ON_CONSOLE_LINE_RECEIVED.  Everything but M999 is ignored when halted.  *)

Exec(l) == pc = "exec" /\ arg = l /\ ~halted

ExecIgnored ==
  /\ pc = "exec" /\ (halted <=> arg # "M999")
  /\ Done /\ UNCHANGED <<player, file, saved, robot, target, haltVars, at>>

ExecUnhalt ==
  /\ pc = "exec" /\ arg = "M999" /\ halted
  /\ halted' = FALSE /\ \E x \in Position : robot' = [robot EXCEPT !.position = x]
  /\ Done /\ UNCHANGED <<player, file, saved, target, limit, at>>

ExecHalt ==
  /\ Exec("halt") /\ Goto("halt") /\ Locals
  /\ UNCHANGED <<player, file, saved, robot, target, haltVars, at>>

ExecMove ==
  /\ Exec("move")
  /\ robot' = [robot EXCEPT !.position = 1 - @]
  /\ Goto("moveWait") /\ Locals
  /\ UNCHANGED <<player, file, saved, target, haltVars, at>>

MoveEnd ==
  /\ pc = "moveWait"
  /\ Done /\ UNCHANGED <<player, file, saved, robot, target, haltVars, at>>

\* A command that changes the state M120 saves, M120 and M121.
ExecState ==
  /\ \/ Exec("mode") /\ robot' = [robot EXCEPT !.mode = IF @ = "G90" THEN "G91" ELSE "G90"]
     \/ Exec("M120") /\ robot' = Pushed(robot, "host")
     \/ Exec("M121") /\ robot' = Popped(robot)
  /\ Done /\ UNCHANGED <<player, file, saved, target, haltVars, at>>

\* G28 cancels a suspend.
ExecHome ==
  /\ Exec("G28")
  /\ player' = CleanUp(player) /\ saved' = SavedCleaned
  /\ \E x \in Position : robot' = [RobotCleaned EXCEPT !.position = x]
  /\ Goto("moveWait") /\ Locals /\ UNCHANGED <<file, target, haltVars, at>>

\* fopen, which fails when there is no such file.
Fopen == {Opened, Closed}
Files(l) ==
  /\ Exec(l) /\ Done
  /\ UNCHANGED <<saved, robot, target, haltVars, at>>

ExecPlay ==
  /\ Files("play")
  /\ IF player.playing_file \/ player.suspended THEN UNCHANGED <<player, file>>
     ELSE /\ file' \in Fopen
          /\ player' = [player EXCEPT !.playing_file = file'.open]

\* M23 selects a file, M32 plays it too.
ExecSelect ==
  /\ Files("M23") \/ Files("M32")
  /\ file' \in Fopen
  /\ player' = [player EXCEPT !.playing_file = \/ @ /\ ~file.open
                                               \/ arg = "M32" /\ file'.open]

ExecStart ==
  /\ Files("M24") /\ file' = file
  /\ player' = [player EXCEPT !.playing_file = @ \/ file.open]

ExecPause ==
  /\ Files("M25") /\ file' = file
  /\ player' = [player EXCEPT !.playing_file = FALSE]

\* abort_command, from "abort" and from M26, which opens the file again.
Active == player.playing_file \/ file.open
AbortNothing ==
  /\ Exec("abort") /\ ~Active
  /\ player' = CleanUp(player) /\ robot' = RobotCleaned /\ saved' = SavedCleaned
  /\ Done /\ UNCHANGED <<file, target, haltVars, at>>

ResetNothing ==
  /\ Exec("M26") /\ ~file.open
  /\ Done /\ UNCHANGED <<player, file, saved, robot, target, haltVars, at>>

\* Mutant: playing_file is left set.
AbortKeepsPlaying ==
  /\ Exec("abort") \/ (Exec("M26") /\ file.open)
  /\ Active
  /\ player' = CleanUp(player)
  /\ robot' = RobotCleaned /\ saved' = SavedCleaned /\ file' = Closed
  /\ Goto("abortWait") /\ Locals
  /\ UNCHANGED <<target, haltVars, at>>

Abort ==
  /\ Exec("abort") \/ (Exec("M26") /\ file.open)
  /\ Active
  /\ player' = [CleanUp(player) EXCEPT !.playing_file = FALSE]
  /\ robot' = RobotCleaned /\ saved' = SavedCleaned /\ file' = Closed
  /\ Goto("abortWait") /\ Locals
  /\ UNCHANGED <<target, haltVars, at>>

\* The queue has been flushed and the position is that of the motors.
AbortEnd ==
  /\ pc = "abortWait"
  /\ \E x \in Position : robot' = [robot EXCEPT !.position = x]
  /\ IF arg = "M26" THEN file' \in Fopen ELSE file' = file
  /\ Done /\ UNCHANGED <<player, saved, target, haltVars, at>>

-----------------------------------------------------------------------------
(* suspend_command and suspend_part2 (M600)                                *)

Suspend ==
  /\ Exec("suspend")
  /\ IF player.suspended THEN UNCHANGED <<player, at>>
     ELSE /\ player' = [player EXCEPT !.suspended = TRUE, !.suspend_loops = SuspendLoops,
                          !.was_playing_file = player.playing_file, !.playing_file = FALSE]
          /\ at' = Here
  /\ Done /\ UNCHANGED <<file, saved, robot, target, haltVars>>

Part2Idle ==
  /\ pc = "part2Wait"
  /\ Goto("part2") /\ Locals
  /\ UNCHANGED <<player, file, saved, robot, target, haltVars, at>>

Part2Aborted ==
  /\ pc = "part2" /\ halted
  /\ player' = [player EXCEPT !.suspended = FALSE]
  /\ Call("idle", "console") /\ Locals
  /\ UNCHANGED <<file, saved, robot, target, haltVars, at>>

\* Mutant: the state is not pushed.
Part2SaveNoPush ==
  /\ pc = "part2" /\ ~halted
  /\ saved' = [position |-> robot.position, temperature |-> target]
  /\ robot' = robot /\ target' = 0 /\ at' = Here
  /\ IF AfterSuspend = "none" THEN Call("idle", "console") /\ arg' = arg
     ELSE pc' = "exec" /\ stack' = <<"idle", "console">> /\ arg' = AfterSuspend
  /\ UNCHANGED <<player, file, haltVars, abs_mode>>

Part2Save ==
  /\ pc = "part2" /\ ~halted
  /\ saved' = [position |-> robot.position, temperature |-> target]
  /\ robot' = Pushed(robot, "player") /\ target' = 0 /\ at' = Here
  /\ IF AfterSuspend = "none" THEN Call("idle", "console") /\ arg' = arg
     ELSE pc' = "exec" /\ stack' = <<"idle", "console">> /\ arg' = AfterSuspend
  /\ UNCHANGED <<player, file, haltVars, abs_mode>>

(* resume_command (M601)                                                   *)

ResumeNothing ==
  /\ Exec("resume") /\ ~player.suspended
  /\ Done /\ UNCHANGED <<player, file, saved, robot, target, haltVars, at>>

Resume ==
  /\ Exec("resume") /\ player.suspended
  /\ IF saved.temperature = 0 THEN Goto("heated") /\ target' = target
     ELSE Goto("heat") /\ target' = saved.temperature
  /\ Locals /\ UNCHANGED <<player, file, saved, robot, haltVars, at>>

\* The wait for the heaters tests for a halt after each round.
HeatMore ==
  /\ pc = "heat"
  /\ Call("idle", "heatMore") /\ Locals
  /\ UNCHANGED <<player, file, saved, robot, target, haltVars, at>>
HeatAgain ==
  /\ pc = "heatMore" /\ ~halted
  /\ Goto("heat") /\ Locals /\ UNCHANGED <<player, file, saved, robot, target, haltVars, at>>
HeatReached ==
  /\ pc = "heat"
  /\ Goto("heatReached") /\ Locals
  /\ UNCHANGED <<player, file, saved, robot, target, haltVars, at>>
HeatDone ==
  /\ pc = "heatReached" /\ ~halted
  /\ Goto("heated") /\ Locals
  /\ UNCHANGED <<player, file, saved, robot, target, haltVars, at>>

\* Mutant: the state stays on the stack.
HeatAbortedKeeps ==
  /\ pc \in {"heatMore", "heatReached"} /\ halted
  /\ player' = [player EXCEPT !.suspended = FALSE]
  /\ saved' = SavedCleaned
  /\ Done /\ UNCHANGED <<file, robot, target, haltVars, at>>

HeatAborted ==
  /\ pc \in {"heatMore", "heatReached"} /\ halted
  /\ player' = [player EXCEPT !.suspended = FALSE]
  /\ robot' = RobotCleaned /\ saved' = SavedCleaned
  /\ Done /\ UNCHANGED <<file, target, haltVars, at>>

ResumeAborted ==
  /\ pc = "heated" /\ halted
  /\ saved' = [saved EXCEPT !.temperature = 0]
  /\ robot' = Popped(robot) /\ player' = [player EXCEPT !.suspended = FALSE]
  /\ Done /\ UNCHANGED <<file, target, haltVars, at>>

ResumeBefore ==
  /\ pc = "heated" /\ ~halted
  /\ saved' = [saved EXCEPT !.temperature = 0]
  /\ IF BeforeResume = "none" THEN Goto("restore") /\ Locals
     ELSE Line(BeforeResume, "restore")
  /\ UNCHANGED <<player, file, robot, target, haltVars, at>>

\* pop_state; the move back is made in absolute mode.
Restore ==
  /\ pc = "restore"
  /\ robot' = [Popped(robot) EXCEPT !.mode = "G90"]
  /\ abs_mode' = Popped(robot).mode /\ arg' = arg
  /\ Goto("moveBack") /\ UNCHANGED <<player, file, saved, target, haltVars, at>>

MoveBack ==
  /\ pc = "moveBack"
  /\ robot' = [robot EXCEPT !.position = IF halted THEN @ ELSE saved.position]
  /\ Goto("restoreWait") /\ Locals /\ UNCHANGED <<player, file, saved, target, haltVars, at>>

RestoreMode ==
  /\ pc = "restoreWait"
  /\ robot' = [robot EXCEPT !.mode = abs_mode]
  /\ Goto("resumeEnd") /\ abs_mode' = "G90" /\ arg' = arg
  /\ UNCHANGED <<player, file, saved, target, haltVars, at>>

ResumeEnd ==
  /\ pc = "resumeEnd"
  /\ player' = IF halted THEN [player EXCEPT !.suspended = FALSE]
               ELSE [player EXCEPT !.suspended = FALSE, !.was_playing_file = FALSE,
                                   !.playing_file = @ \/ player.was_playing_file]
  /\ Done /\ UNCHANGED <<file, saved, robot, target, haltVars, at>>

-----------------------------------------------------------------------------
Halting == OnHalt \/ IdleEnd \/ IdleHalt \/ WaitMore
MainLoop == \/ Console \/ PlayerAbort \/ SuspendLoop \/ NoSuspendLoop
            \/ FeedNothing \/ FeedLine \/ FeedEnd
LineReceived == \/ ExecIgnored \/ ExecUnhalt \/ ExecHalt \/ ExecMove \/ MoveEnd \/ ExecState
                \/ ExecHome \/ ExecPlay \/ ExecSelect \/ ExecStart \/ ExecPause
                \/ AbortNothing \/ ResetNothing \/ Abort \/ AbortEnd
SuspendResume == \/ Suspend \/ Part2Idle \/ Part2Aborted \/ Part2Save
                 \/ ResumeNothing \/ Resume \/ HeatMore \/ HeatAgain \/ HeatReached
                 \/ HeatDone \/ HeatAborted \/ ResumeAborted \/ ResumeBefore
                 \/ Restore \/ MoveBack \/ RestoreMode \/ ResumeEnd

Thread == Halting \/ MainLoop \/ LineReceived \/ SuspendResume
Next == Thread \/ LimitHit

Spec == Init /\ [][Next]_vars

\* Waits for the queue end (MotionQueue), and so does heating.
WaitOver == MoveEnd \/ AbortEnd \/ Part2Idle \/ RestoreMode \/ HeatReached
FairSpec == Spec /\ WF_vars(Thread) /\ SF_vars(WaitOver)

-----------------------------------------------------------------------------
(* Properties *)

Labels == Waits \cup {"console", "player", "feed", "idle", "halt", "exec", "part2", "heat",
                      "heatMore", "heatReached", "heated", "restore", "moveBack", "resumeEnd"}

\* Every variable has its type; and while a file is played there is one: on_main_loop
\* reads from current_file_handler without looking at it.
TypeOK ==
  /\ player \in [playing_file : BOOLEAN, was_playing_file : BOOLEAN, suspended : BOOLEAN,
                 suspend_loops : 0 .. SuspendLoops, abort_flag : BOOLEAN]
  /\ file \in [open : BOOLEAN, line : 1 .. Len(FileLines) + 1]
  /\ saved \in [position : Position, temperature : {0, 1}]
  /\ robot.position \in Position /\ robot.mode \in Mode /\ robot.states \in Seq(State)
  /\ target \in {0, 1} /\ halted \in BOOLEAN /\ limit \in BOOLEAN
  /\ pc \in Labels /\ stack \in Seq(Labels) /\ arg \in Lines \cup {"none"}
  /\ abs_mode \in Mode /\ at \in [position : Position, mode : Mode, target : {0, 1}]
  /\ player.playing_file => file.open

\* "restore the position it was at and E and any other saved state": when a
\* resume is done and nothing has halted it, the position, the mode and the
\* temperature are those of the suspend.
ResumeRestores == pc = "resumeEnd" /\ player.suspended /\ ~halted => Here = at

\* Every way out of a suspend, finished or given up, pops the state that
\* suspend_part2 has pushed; it would be restored by a later M121.
SuspendIsPopped ==
  pc = "console" /\ ~player.suspended => \A i \in DOMAIN robot.states : robot.states[i].by = "host"

\* "signal the on_main_loop() to abort next time it is called": a halt in the
\* middle of a print, or of a line of it, ends the print.
HaltEndsPrint == pc = "halt" /\ player.playing_file ~> ~file.open

\* A suspend that has been asked for is carried out or given up.
SuspendEnds == Suspending ~> ~Suspending
=============================================================================
