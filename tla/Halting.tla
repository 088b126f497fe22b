------------------------------ MODULE Halting -------------------------------
(***************************************************************************)
(* The kill button, the endstops and the rest of the machine together: who *)
(* halts it, who clears the halt, and what that does to a homing cycle.    *)
(***************************************************************************)
EXTENDS KillButton, Endstops

CONSTANTS
  Start,                \* where the carriage may be at reset
  Length,               \* where its rails end
  Jogs,                 \* moves that the user may command
  Hasty                 \* may a command or a halt come within a poll of what the button did?

ASSUME HaltingAssumption ==
  Start \subseteq Int /\ Length \in Int /\ Jogs \subseteq [Axes -> Int]

vars == <<kernelVars, threadVars, buttonVars, contactVars, endstopVars>>

Init ==
  /\ KernelInit /\ ButtonInit /\ EndstopsInit
  /\ at \in [Axes -> Start]

TypeOK ==
  /\ {halted, alarm, pressed, served, asked, due} \subseteq BOOLEAN
  /\ pc \in {"main", "idle", "limits", "haltEvent", "homeDone"} \cup Waits \cup Stores
  /\ back \in {"main"} \cup Waits
  /\ polled \in 0 .. Polls /\ held \in 0 .. TwoSeconds
  /\ state \in States /\ unkill_timer \in 0 .. 2 ^ TimerBits - 1
  /\ status \in Statuses /\ approach \in DOMAIN Approaches
  /\ \A m \in Axes : debounce[m] \in 0 .. debounce_ms
  /\ \A m \in Axes : at[m] <= Length

-----------------------------------------------------------------------------
\* The button is not about to clear a halt, nor has it just done so.
Settled ==
  Hasty \/ state \notin {"UNKILL_TIMING_BUTTON_DOWN", "UNKILL_FIRE"}

\* A jog; while a limit is triggered, away from it.
Jog ==
  /\ pc = "main" /\ ~halted /\ IsIdle /\ Settled
  /\ \E steps \in Jogs :
       /\ \A m \in Axes :
            /\ at[m] + steps[m] <= Length
            /\ steps[m] < 0 => at[m] > 0 /\ status # "LIMIT_TRIGGERED"
            /\ m \notin LimitAxes => at[m] + steps[m] >= 0 \/ steps[m] >= 0
       /\ move' = steps
  /\ pc' = "idle" /\ back' = "main"
  /\ UNCHANGED <<halted, lost, alarm, endstopVars, buttonVars, contactVars>>

\* M999
Unhalt ==
  /\ pc = "main" /\ halted /\ (Hasty \/ ~In("KILL_BUTTON_DOWN"))
  /\ ClearHalt
  /\ pc' = "idle" /\ back' = "main"
  /\ UNCHANGED <<endstopVars, buttonVars, contactVars>>

NoCommand ==
  /\ pc = "main" /\ pc' = "idle" /\ back' = "main"
  /\ UNCHANGED <<kernelVars, endstopVars, buttonVars, contactVars>>

\* ^X, a heater fault, a sensor: the other handlers of ON_IDLE
OtherHalt ==
  /\ pc = "idle" /\ ~halted /\ Settled
  /\ OnHalt /\ Answered
  /\ UNCHANGED <<threadVars, endstopVars, buttonVars, pressed, polled, held>>

\* G28, while no axis is much further behind its switch than a search leaves it.
Below == debounce_ms + 1

StartHome ==
  /\ HomeCommand /\ Settled
  /\ \A m \in Axes : at[m] >= -Below
  /\ UNCHANGED <<buttonVars, contactVars>>

Thread ==
  \/ NoCommand
  \/ ButtonOnIdle /\ UNCHANGED endstopVars
  \/ (LimitsOnIdle \/ Homing) /\ pc # "main" /\ Answered /\ UNCHANGED <<buttonVars, pressed, polled, held>>

User == Jog \/ Unhalt \/ StartHome

Contact ==
  /\ \/ PressButton /\ (Hasty \/ state \notin {"UNKILL_FIRE", "UNKILLED_BUTTON_DOWN"})
     \/ ReleaseButton
  /\ UNCHANGED <<kernelVars, threadVars, buttonVars, endstopVars>>
Tick == ButtonTick /\ UNCHANGED <<kernelVars, threadVars, endstopVars>>
Move == Motion /\ UNCHANGED <<threadVars, buttonVars, contactVars>>
Read == ReadEndstops /\ Answered /\ UNCHANGED <<threadVars, buttonVars, pressed, polled, held>>

Next ==
  \/ Thread \/ User \/ OtherHalt
  \/ Contact \/ Tick \/ Move \/ Read

Spec == Init /\ [][Next]_vars

\* The main loop runs, the interrupts come, and a machine that moves gets there.
FairSpec == Spec /\ WF_vars(Thread) /\ WF_vars(Tick) /\ WF_vars(Move) /\ WF_vars(Read)

-----------------------------------------------------------------------------
(* Properties *)

\* An axis counts as homed only if its position is known: 0 is where the switch
\* closed, to within a contact that bounces and the steps made while it is
\* debounced.  Kills, failures and limits in the middle of a cycle included.
\* And every variable has its type.
HomedIsTrue ==
  /\ TypeOK
  /\ haxis = {} =>
       \A m \in Axes : homed[m] => zero[m] # Nowhere /\ zero[m] \in -debounce_ms .. Bounce

\* When a command may move the machine, the robot takes the carriage to be where
\* the actuators have taken it, whatever stopped the moves before.
PositionKept == pc = "main" /\ ~halted => lost = Zero

\* "we cannot call on_halt here but must defer it to on_idle": the heaters and
\* motors are switched off after a limit was hit.
LimitIsTold == alarm ~> ~alarm
=============================================================================
