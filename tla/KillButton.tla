----------------------------- MODULE KillButton -----------------------------
(***************************************************************************)
(* The kill button: button_tick, which the slow ticker calls poll_frequency*)
(* times a second, and on_idle, which halts the machine or clears the halt.*)
(***************************************************************************)
EXTENDS Kernel

CONSTANTS
  kill_button_enable,
  unkill_enable,
  toggle_enable,    \* the button locks: an emergency stop
  TwoSeconds,       \* poll_frequency*2
  TimerBits,        \* width of unkill_timer
  Polls,            \* the contact keeps a position for so many ticks
  SlowThread        \* may a pass of the thread take longer than a poll?

ASSUME ButtonAssumption ==
  /\ {kill_button_enable, unkill_enable, toggle_enable, SlowThread} \subseteq BOOLEAN
  /\ {TwoSeconds, TimerBits, Polls} \subseteq Nat

\* What unkill_timer is counted modulo, for provers that do no powers.
ASSUME TimerAssumption == 2 ^ TimerBits \in Nat \ {0}

VARIABLES
  state, unkill_timer,
  pressed,    \* the contact
  polled,     \* ticks that have seen the contact as it is
  served,     \* on_idle has run since the last tick
  held,       \* ticks for which it has been closed while the machine was halted
  asked       \* it was pressed to halt the machine, and has not been released

buttonVars == <<state, unkill_timer, served>>
contactVars == <<pressed, polled, held, asked>>

-----------------------------------------------------------------------------
States ==
  {"IDLE", "KILL_BUTTON_DOWN", "KILLED_BUTTON_DOWN", "KILLED_BUTTON_UP",
   "UNKILL_BUTTON_DOWN", "UNKILL_TIMING_BUTTON_DOWN", "UNKILL_FIRE",
   "UNKILLED_BUTTON_DOWN"}

ButtonInit ==
  /\ state = "IDLE" /\ unkill_timer = 0 /\ served = TRUE
  /\ pressed = FALSE /\ polled = Polls /\ held = 0 /\ asked = FALSE

PressButton ==
  /\ kill_button_enable /\ ~pressed /\ polled = Polls
  /\ pressed' = TRUE /\ polled' = 0 /\ asked' = ~halted
  /\ UNCHANGED held

ReleaseButton ==
  /\ pressed /\ polled = Polls
  /\ pressed' = FALSE /\ polled' = 0 /\ asked' = FALSE
  /\ UNCHANGED held

\* Whatever halts the machine answers the button.
Answered == asked' = (asked /\ ~halted')

-----------------------------------------------------------------------------
(* button_tick *)

In(s) == state = s
To(s) == state' = s
TimerKept == UNCHANGED unkill_timer

Idle ==
  /\ In("IDLE") /\ TimerKept
  /\ IF pressed THEN To("KILL_BUTTON_DOWN")
     ELSE IF unkill_enable /\ ~toggle_enable /\ halted THEN To("KILLED_BUTTON_UP")
     ELSE UNCHANGED state

KillButtonDown ==
  /\ In("KILL_BUTTON_DOWN") /\ TimerKept
  /\ To(IF halted THEN "KILLED_BUTTON_DOWN" ELSE state)

KilledButtonDown ==
  /\ In("KILLED_BUTTON_DOWN") /\ TimerKept
  /\ IF ~pressed THEN To("KILLED_BUTTON_UP")
     ELSE IF toggle_enable /\ ~halted THEN To("KILL_BUTTON_DOWN")
     ELSE UNCHANGED state

\* With unkill enabled, the second test overrides the first.
KilledButtonUp ==
  /\ In("KILLED_BUTTON_UP") /\ TimerKept
  /\ IF unkill_enable /\ toggle_enable THEN To("UNKILL_FIRE")
     ELSE IF unkill_enable /\ pressed THEN To("UNKILL_BUTTON_DOWN")
     ELSE To(IF halted THEN state ELSE "IDLE")

UnkillButtonDown ==
  /\ In("UNKILL_BUTTON_DOWN")
  /\ unkill_timer' = 0 /\ To("UNKILL_TIMING_BUTTON_DOWN")

\* Mutant: the timer runs on when the button is released.
UnkillTimingOn ==
  /\ In("UNKILL_TIMING_BUTTON_DOWN")
  /\ unkill_timer' = (unkill_timer + 1) % 2 ^ TimerBits
  /\ To(IF ~halted THEN "IDLE" ELSE IF unkill_timer' > TwoSeconds THEN "UNKILL_FIRE" ELSE state)

\* Mutant: a halt that M999 has cleared is not noticed.
UnkillTimingUnhalted ==
  /\ In("UNKILL_TIMING_BUTTON_DOWN")
  /\ LET timer == (unkill_timer + 1) % 2 ^ TimerBits IN
       /\ unkill_timer' = IF timer > TwoSeconds \/ pressed THEN timer ELSE 0
       /\ To(IF timer > TwoSeconds THEN "UNKILL_FIRE" ELSE state)

UnkillTiming ==
  /\ In("UNKILL_TIMING_BUTTON_DOWN")
  /\ LET timer == (unkill_timer + 1) % 2 ^ TimerBits IN
       /\ unkill_timer' = IF timer > TwoSeconds \/ pressed THEN timer ELSE 0
       /\ To(IF ~halted THEN "IDLE" ELSE IF timer > TwoSeconds THEN "UNKILL_FIRE" ELSE state)

UnkillFire ==
  /\ In("UNKILL_FIRE") /\ TimerKept
  /\ To(IF halted THEN state ELSE "UNKILLED_BUTTON_DOWN")

UnkilledButtonDown ==
  /\ In("UNKILLED_BUTTON_DOWN") /\ TimerKept
  /\ To(IF pressed THEN state ELSE "IDLE")

ButtonTick ==
  /\ kill_button_enable /\ (served \/ SlowThread)
  /\ \/ Idle \/ KillButtonDown \/ KilledButtonDown \/ KilledButtonUp
     \/ UnkillButtonDown \/ UnkillTiming \/ UnkillFire \/ UnkilledButtonDown
  /\ polled' = IF polled < Polls THEN polled + 1 ELSE polled
  /\ served' = FALSE
  /\ held' = CASE state' = "UNKILL_FIRE" -> held
               [] state' # "UNKILL_FIRE" /\ pressed /\ halted -> IF held < TwoSeconds THEN held + 1 ELSE held
               [] OTHER -> 0
  /\ UNCHANGED <<pressed, asked>>

-----------------------------------------------------------------------------
(* on_idle *)

ButtonHalts == In("KILL_BUTTON_DOWN") /\ ~halted /\ OnHalt

ButtonClears == In("UNKILL_FIRE") /\ halted /\ ClearHalt

ButtonOnIdle ==
  /\ pc = "idle" /\ Goto("limits")
  /\ \/ ButtonHalts /\ UNCHANGED held
     \/ ButtonClears /\ held' = 0
     \/ /\ ~(In("KILL_BUTTON_DOWN") /\ ~halted) /\ ~(In("UNKILL_FIRE") /\ halted)
        /\ UNCHANGED <<kernelVars, held>>
  /\ Answered /\ served' = TRUE
  /\ UNCHANGED <<state, unkill_timer, pressed, polled>>

-----------------------------------------------------------------------------
(* Properties *)

\* "look for a 2 second press on the kill button to unkill": whatever halted the
\* machine, the button clears the halt only after it was held so long since.
UnkillNeedsHold ==
  [][ButtonOnIdle /\ halted /\ ~halted' => held = TwoSeconds]_<<kernelVars, threadVars, buttonVars, contactVars>>

\* A press of the button that lasts halts the machine, whatever state the
\* button's machine was left in by halts and unkills before.
PressHalts == asked ~> ~asked
=============================================================================
