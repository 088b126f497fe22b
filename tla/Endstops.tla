------------------------------ MODULE Endstops ------------------------------
(***************************************************************************)
(* Homing (G28) and hard limits.  Every axis has a switch at the end where *)
(* at = 0; just above, its contact bounces.  read_endstops runs in the slow*)
(* ticker's interrupt once a millisecond; the commands and on_idle in the  *)
(* thread.  Positions are whole steps; a motor makes FastSteps or one in a *)
(* millisecond.                                                            *)
(***************************************************************************)
EXTENDS Kernel, Sequences, SequencesExt

CONSTANTS
  LimitAxes,        \* axes whose switch is a hard limit
  Approaches,       \* the axes that home() moves together: X and Y, or Z, or A ..., in its order
  max_travel, retract, debounce_ms,
  Bounce,           \* so many steps above 0 a switch may be closed or open
  Nowhere,          \* a place that is not known, or that nobody relies on
  FastSteps,        \* steps in a millisecond at fast_rate; one at any other
  TickDuringStore   \* may the interrupt come between a load and its store?

ASSUME EndstopsAssumption ==
  /\ LimitAxes \subseteq Axes /\ TickDuringStore \in BOOLEAN
  /\ {max_travel, retract, FastSteps} \subseteq Nat \ {0}
  /\ {debounce_ms, Bounce} \subseteq Nat /\ Nowhere \notin Int
  /\ Approaches \in Seq(SUBSET Axes) /\ Approaches # <<>>
  /\ \A i, j \in DOMAIN Approaches : Approaches[i] \cap Approaches[j] # {} => i = j

VARIABLES
  at,           \* where the carriage is
  due,          \* a millisecond has passed: the interrupt is due
  zero,         \* where the position that the actuator counts is 0
  status,
  flags,        \* the byte of trigger_halt and limits_activated
  reg,          \* that byte as the thread loaded it
  debounce, triggered,
  haxis,        \* the axes that G28 homes
  todo,         \* what is left of them: each is the axis_to_home of a home()
  approach,     \* the fast approach that home() is at; the last, when it is past them
  homed

switchVars == <<status, flags, debounce, triggered>>
homeVars == <<haxis, todo, approach, homed>>
endstopVars == <<at, due, zero, switchVars, reg, homeVars>>

-----------------------------------------------------------------------------
Statuses == {"NOT_HOMING", "MOVING_TO_ENDSTOP_FAST", "MOVING_BACK",
             "MOVING_TO_ENDSTOP_SLOW", "BACK_OFF_HOME", "LIMIT_TRIGGERED"}
Seeking == {"MOVING_TO_ENDSTOP_FAST", "MOVING_TO_ENDSTOP_SLOW"}

Waits == {"homeStart", "homeFast", "homeBack", "homeSlow", "homeOff"}
Stores == {"haltStore", "onStore"}

NoFlags == [halt |-> FALSE, on |-> FALSE]

EndstopsInit ==
  /\ due = FALSE /\ zero = [m \in Axes |-> Nowhere]
  /\ status = "NOT_HOMING" /\ flags = NoFlags /\ reg = NoFlags
  /\ debounce = Zero /\ triggered = [m \in Axes |-> FALSE]
  /\ haxis = {} /\ todo = <<>> /\ approach = Len(Approaches)
  /\ homed = [m \in Axes |-> FALSE]

\* What the pins may read.
Readings(p) == {pin \in [Axes -> BOOLEAN] :
                  \A m \in Axes : (p[m] <= 0 => pin[m]) /\ (p[m] > Bounce => ~pin[m])}

Longer(d) == IF d < debounce_ms THEN d + 1 ELSE d

-----------------------------------------------------------------------------
(* read_endstops *)

Step(m) ==
  LET steps == IF status = "MOVING_TO_ENDSTOP_FAST" THEN FastSteps ELSE 1
  IN  IF move[m] > 0 THEN IF move[m] < steps THEN move[m] ELSE steps
      ELSE IF -move[m] < steps THEN move[m] ELSE -steps

\* A millisecond of motion.
Motion ==
  /\ ~IsIdle /\ ~due
  /\ at' = [m \in Axes |-> at[m] + Step(m)]
  /\ move' = [m \in Axes |-> move[m] - Step(m)]
  /\ due' = TRUE
  /\ UNCHANGED <<halted, lost, alarm, zero, switchVars, reg, homeVars>>

\* check_limits, while a limit is triggered
FirstOf(axes) == CHOOSE m \in axes : \A n \in axes : m <= n

StillTriggered(pin) ==
  LET on == {m \in LimitAxes : pin[m]} IN
  /\ status = "LIMIT_TRIGGERED" /\ on # {}
  /\ debounce' = [m \in Axes |-> IF m \notin LimitAxes \/ m > FirstOf(on) THEN debounce[m]
                                 ELSE IF m = FirstOf(on) THEN 0 ELSE Longer(debounce[m])]
  /\ UNCHANGED <<kernelVars, status, flags, triggered>>

AllOff(pin) ==
  /\ status = "LIMIT_TRIGGERED" /\ \A m \in LimitAxes : ~pin[m]
  /\ debounce' = [m \in Axes |-> IF m \in LimitAxes THEN Longer(debounce[m]) ELSE debounce[m]]
  /\ IF \A m \in LimitAxes : debounce[m] >= debounce_ms
     THEN status' = "NOT_HOMING" /\ flags' = [flags EXCEPT !.on = TRUE]
     ELSE UNCHANGED <<status, flags>>
  /\ UNCHANGED <<kernelVars, triggered>>

\* check_limits, while none is
Hit(pin) == {m \in LimitAxes : Moving(m) /\ pin[m]}

LimitHit(pin) ==
  /\ status = "NOT_HOMING" /\ Hit(pin) # {}
  /\ status' = "LIMIT_TRIGGERED" /\ flags' = [flags EXCEPT !.halt = TRUE]
  /\ debounce' = [debounce EXCEPT ![FirstOf(Hit(pin))] = 0]
  /\ ImmediateHalt
  /\ UNCHANGED triggered

\* The homing switches, each debounced while its motor moves.
Stopped(pin) == {m \in Axes : Moving(m) /\ pin[m] /\ debounce[m] >= debounce_ms}

Seek(pin) ==
  /\ status \in Seeking
  /\ debounce' = [m \in Axes |-> IF ~Moving(m) THEN debounce[m]
                                 ELSE IF pin[m] THEN Longer(debounce[m]) ELSE 0]
  /\ triggered' = [m \in Axes |-> triggered[m] \/ m \in Stopped(pin)]
  /\ StopMoving(Stopped(pin))
  /\ UNCHANGED <<halted, alarm, status, flags>>

NothingToRead(pin) ==
  /\ status \in {"MOVING_BACK", "BACK_OFF_HOME"} \/ (status = "NOT_HOMING" /\ Hit(pin) = {})
  /\ UNCHANGED <<kernelVars, switchVars>>

\* While nothing moves it has something to do only if a limit is triggered.
ReadEndstops ==
  /\ TickDuringStore \/ pc \notin Stores
  /\ due \/ status = "LIMIT_TRIGGERED"
  /\ \E pin \in Readings(at) :
       StillTriggered(pin) \/ AllOff(pin) \/ LimitHit(pin) \/ Seek(pin) \/ NothingToRead(pin)
  /\ due' = FALSE
  /\ UNCHANGED <<at, zero, reg, homeVars>>

-----------------------------------------------------------------------------
(* on_idle *)

IdleKeeps == UNCHANGED <<at, due, zero, status, debounce, triggered, homeVars>>
Return == pc' = back /\ UNCHANGED back

LimitsNothing ==
  /\ pc = "limits" /\ flags = NoFlags
  /\ Return
  /\ UNCHANGED <<kernelVars, flags, reg>> /\ IdleKeeps

\* trigger_halt= false, then the event
HaltLoad ==
  /\ pc = "limits" /\ flags.halt
  /\ reg' = flags /\ Goto("haltStore")
  /\ UNCHANGED <<kernelVars, flags>> /\ IdleKeeps

HaltStore ==
  /\ pc = "haltStore"
  /\ flags' = [reg EXCEPT !.halt = FALSE] /\ reg' = NoFlags /\ Goto("haltEvent")
  /\ UNCHANGED kernelVars /\ IdleKeeps

\* Mutant: the event is left out for a machine that is halted.
HaltEventOnce ==
  /\ pc = "haltEvent"
  /\ IF halted THEN UNCHANGED kernelVars ELSE OnHalt
  /\ Return
  /\ UNCHANGED <<flags, reg>> /\ IdleKeeps

HaltEvent ==
  /\ pc = "haltEvent"
  /\ OnHalt /\ Return
  /\ UNCHANGED <<flags, reg>> /\ IdleKeeps

\* limits_activated= false
OnLoad ==
  /\ pc = "limits" /\ ~flags.halt /\ flags.on
  /\ reg' = flags /\ Goto("onStore")
  /\ UNCHANGED <<kernelVars, flags>> /\ IdleKeeps

OnStore ==
  /\ pc = "onStore"
  /\ flags' = [reg EXCEPT !.on = FALSE] /\ reg' = NoFlags /\ Return
  /\ UNCHANGED kernelVars /\ IdleKeeps

LimitsOnIdle ==
  LimitsNothing \/ HaltLoad \/ HaltStore \/ HaltEvent \/ OnLoad \/ OnStore

-----------------------------------------------------------------------------
(* process_home_command and home *)

\* wait_for_idle: ON_IDLE again and again.
Waiting ==
  /\ pc \in Waits /\ ~IsIdle
  /\ pc' = "idle" /\ back' = pc
  /\ UNCHANGED <<kernelVars, endstopVars>>

Waited(l) == pc = l /\ IsIdle

\* Robot::delta_move, which does nothing while halted
DeltaMove(axes, steps) ==
  move' = [m \in Axes |-> IF m \in axes /\ ~halted THEN steps ELSE 0]

\* What main() does after a command.
CommandEnds == pc' = "idle" /\ back' = "main"

\* The home()s of a G28: one for all axes, or one for each in whatever homing_order.
InOrder(axes) == {[i \in DOMAIN f |-> {f[i]}] : f \in Bijection(1 .. Cardinality(axes), axes)}
Orders(axes) == {<<axes>>} \cup InOrder(axes)

HomeCommand ==
  /\ pc = "main" /\ ~halted
  /\ \E axes \in (SUBSET Axes) \ {{}} :
       haxis' = axes /\ todo' \in Orders(axes)
  /\ Goto("homeStart")
  /\ UNCHANGED <<kernelVars, at, due, zero, switchVars, reg, approach, homed>>

\* A fast approach, and the wait for it; home() waits for X and Y even if it homes neither.
Approach(axes, n) ==
  /\ approach' = n
  /\ DeltaMove(axes \cap Approaches[n], -max_travel)

\* home(), up to the first wait
BeginHome(axes) ==
  /\ debounce' = Zero /\ triggered' = [m \in Axes |-> FALSE]
  /\ status' = "MOVING_TO_ENDSTOP_FAST"
  /\ Approach(axes, 1)
  /\ Goto("homeFast")

HomeKeeps == UNCHANGED <<halted, alarm, at, due, flags, reg, haxis>>

\* reset_axis_position(0, axis) for each axis of a set, which are at a given place:
\* the actuators of the others are set to where the robot takes them to be.
ResetAxes(axes, place) ==
  /\ zero' = [m \in Axes |-> IF m \in axes THEN place[m]
                             ELSE IF zero[m] = Nowhere THEN Nowhere ELSE zero[m] - lost[m]]
  /\ lost' = Zero

HomeStart ==
  /\ Waited("homeStart")
  /\ ResetAxes(haxis, [m \in Axes |-> Nowhere])
  /\ BeginHome(Head(todo))
  /\ UNCHANGED <<todo, homed>> /\ HomeKeeps

\* The next approach; it does not move if the last one was halted.
HomeApproach ==
  /\ Waited("homeFast") /\ approach < Len(Approaches)
  /\ Approach(Head(todo), approach + 1)
  /\ UNCHANGED <<threadVars, lost, zero, status, debounce, triggered, todo, homed>> /\ HomeKeeps

Approached == Waited("homeFast") /\ approach = Len(Approaches)

\* The switches of all the axes, whichever approach they were in.
Found == \A m \in Head(todo) : triggered[m]

\* An axis stopped short: the machine is halted.
HomeFails ==
  /\ Approached /\ ~Found
  /\ status' = "NOT_HOMING" /\ OnHalt
  /\ Goto("homeDone")
  /\ UNCHANGED <<at, due, zero, flags, reg, debounce, triggered, homeVars>>

HomeBack ==
  /\ Approached /\ Found
  /\ lost' = Zero
  /\ status' = "MOVING_BACK" /\ DeltaMove(Head(todo), retract) /\ Goto("homeBack")
  /\ UNCHANGED <<zero, debounce, triggered, todo, approach, homed>> /\ HomeKeeps

HomeSlow ==
  /\ Waited("homeBack")
  /\ status' = "MOVING_TO_ENDSTOP_SLOW" /\ DeltaMove(Head(todo), -2 * retract) /\ Goto("homeSlow")
  /\ UNCHANGED <<lost, zero, debounce, triggered, todo, approach, homed>> /\ HomeKeeps

\* The end of a home(); the next one begins, unless the machine has been halted.
HomeNext ==
  /\ Waited("homeSlow") /\ ~halted /\ Len(todo) > 1
  /\ lost' = Zero /\ todo' = Tail(todo)
  /\ BeginHome(Head(todo'))
  /\ UNCHANGED <<zero, homed>> /\ HomeKeeps

HomeEnds ==
  /\ Waited("homeSlow") /\ (halted \/ Len(todo) = 1)
  /\ lost' = Zero /\ status' = "NOT_HOMING"
  /\ Goto("homeDone")
  /\ UNCHANGED <<move, zero, debounce, triggered, todo, approach, homed>> /\ HomeKeeps

\* Mutant: the flags of an earlier G28 stay set.
HomeHaltedStillHomed ==
  /\ pc = "homeDone" /\ halted
  /\ haxis' = {} /\ todo' = <<>> /\ CommandEnds
  /\ UNCHANGED <<kernelVars, at, due, zero, switchVars, reg, approach, homed>>

HomeHalted ==
  /\ pc = "homeDone" /\ halted
  /\ homed' = [m \in Axes |-> FALSE] /\ zero' = [m \in Axes |-> Nowhere]
  /\ haxis' = {} /\ todo' = <<>> /\ CommandEnds
  /\ UNCHANGED <<kernelVars, at, due, switchVars, reg, approach>>

\* back_off_home: the axes whose switch is a limit, and is closed.
BackOff(pin) ==
  /\ status' = "BACK_OFF_HOME"
  /\ DeltaMove({m \in haxis \cap LimitAxes : pin[m]}, retract)
  /\ Goto("homeOff")

Homed ==
  /\ pc = "homeDone" /\ ~halted
  /\ homed' = [m \in Axes |-> homed[m] \/ m \in haxis]
  /\ ResetAxes(haxis, at)
  /\ \E pin \in Readings(at) : BackOff(pin)
  /\ UNCHANGED <<debounce, triggered, todo, approach>> /\ HomeKeeps

HomeOff ==
  /\ Waited("homeOff")
  /\ status' = "NOT_HOMING" /\ haxis' = {} /\ todo' = <<>> /\ CommandEnds
  /\ UNCHANGED <<kernelVars, at, due, zero, flags, reg, debounce, triggered, approach, homed>>

Homing ==
  \/ Waiting \/ HomeCommand \/ HomeStart \/ HomeApproach \/ HomeFails \/ HomeBack
  \/ HomeSlow \/ HomeNext \/ HomeEnds \/ HomeHalted \/ Homed \/ HomeOff
=============================================================================
