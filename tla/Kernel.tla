------------------------------- MODULE Kernel -------------------------------
(***************************************************************************)
(* Kernel::halted, the events that set and clear it, and what they do to   *)
(* the motion: the queue is flushed, the motors stop, and the position is  *)
(* read back from the actuators.  One block moves at a time here; the      *)
(* queue and its interrupt are the business of MotionQueue.                *)
(***************************************************************************)
EXTENDS Integers

CONSTANT Motors         \* number of them

ASSUME KernelAssumption == Motors \in Nat \ {0}

VARIABLES
  halted,
  move,       \* steps of the block that runs, still to be made
  lost,       \* machine_position less the steps made and those of move
  alarm,      \* a halt of which the modules have not been told
  pc, back    \* what main() does, and where ON_IDLE returns to

kernelVars == <<halted, move, lost, alarm>>
threadVars == <<pc, back>>

-----------------------------------------------------------------------------
Axes == 1 .. Motors
Zero == [m \in Axes |-> 0]

KernelInit ==
  /\ halted = FALSE /\ move = Zero /\ lost = Zero /\ alarm = FALSE
  /\ pc = "main" /\ back = "main"

\* StepperMotor::is_moving, Conveyor::is_idle
Moving(m) == move[m] # 0
IsIdle == move = Zero

\* StepperMotor::stop_moving
StopMoving(motors) ==
  /\ move' = [m \in Axes |-> IF m \in motors THEN 0 ELSE move[m]]
  /\ lost' = [m \in Axes |-> IF m \in motors THEN lost[m] + move[m] ELSE lost[m]]

\* call_event(ON_HALT, nullptr)
OnHalt ==
  /\ halted' = TRUE /\ alarm' = FALSE
  /\ IF IsIdle THEN UNCHANGED <<move, lost>> ELSE move' = Zero /\ lost' = Zero

\* Mutant: the positions are not corrected.
ClearHaltOnly ==
  /\ halted' = FALSE
  /\ UNCHANGED <<move, lost, alarm>>

\* call_event(ON_HALT, 1)
ClearHalt ==
  /\ halted' = FALSE /\ lost' = Zero
  /\ UNCHANGED <<move, alarm>>

\* immediate_halt: the modules are told later.
ImmediateHalt ==
  /\ halted' = TRUE /\ alarm' = TRUE
  /\ StopMoving(Axes)

Goto(l) == pc' = l /\ UNCHANGED back
=============================================================================
