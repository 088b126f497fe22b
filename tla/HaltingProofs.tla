--------------------------- MODULE HaltingProofs ----------------------------
(***************************************************************************)
(* The position that the robot keeps, for every number of axes, every set  *)
(* of limit switches and jogs, and every timing of the button, the limits  *)
(* and the motion: whatever stops a move, nothing is lost in the end.  The *)
(* button, which clears a halt only when it is held for long enough.  And  *)
(* homing: what is known of an axis that counts as homed.                  *)
(***************************************************************************)
EXTENDS Halting, FiniteSetTheorems, TLAPS

\* What main() is doing: during ON_IDLE, the wait that has called it.
InIdle == {"idle", "limits", "haltEvent"} \cup Stores
Where == IF pc \in InIdle THEN back ELSE pc

ControlType ==
  /\ pc \in {"main", "homeDone"} \cup Waits \cup InIdle
  /\ back \in {"main"} \cup Waits

\* A motor is stopped by its switch only in one of the two approaches, and what
\* that loses is taken back at its end; any other stop halts the machine.
PositionInv ==
  /\ ControlType
  /\ status \in Seeking => Where \in {"homeFast", "homeSlow"}
  /\ lost # Zero => halted \/ Where \in {"homeFast", "homeSlow"}

\* The steps of the button and of the limits' handler of ON_IDLE.
LEMMA IdleKeepsPosition ==
  ASSUME PositionInv, LimitsOnIdle \/ ButtonOnIdle, UNCHANGED status
  PROVE  PositionInv'
<1>1. ControlType' /\ Where' = Where
  BY DEF PositionInv, ControlType, Where, InIdle, Waits, Stores, LimitsOnIdle,
     LimitsNothing, HaltLoad, HaltStore, HaltEvent, OnLoad, OnStore, ButtonOnIdle, Goto, Return
<1>2. lost' = Zero \/ (lost' = lost /\ halted' = halted) \/ halted'
  BY DEF LimitsOnIdle, LimitsNothing, HaltLoad, HaltStore, HaltEvent, OnLoad, OnStore, ButtonOnIdle,
     ButtonHalts, ButtonClears, ClearHalt, OnHalt, kernelVars
<1> QED BY <1>1, <1>2 DEF PositionInv

\* The steps of G28: each wait ends in a step that takes the position from the actuators.
LEMMA HomingKeepsPosition ==
  ASSUME PositionInv, Homing
  PROVE  PositionInv'
<1> USE DEF PositionInv, ControlType, Where, InIdle, Waits, Stores, Seeking, Waited, Goto
<1>1. CASE Waiting
  BY <1>1 DEF Waiting, kernelVars, endstopVars, switchVars
<1>2. CASE HomeCommand
  BY <1>2 DEF HomeCommand, kernelVars, switchVars
<1>3. CASE HomeStart
  BY <1>3 DEF HomeStart, ResetAxes, BeginHome
<1>12. CASE HomeApproach
  BY <1>12 DEF HomeApproach, HomeKeeps, threadVars
<1>4. CASE HomeFails
  BY <1>4 DEF HomeFails, Approached, OnHalt
<1>5. CASE HomeBack
  BY <1>5 DEF HomeBack, Approached
<1>6. CASE HomeSlow
  BY <1>6 DEF HomeSlow
<1>7. CASE HomeNext
  BY <1>7 DEF HomeNext, BeginHome
<1>8. CASE HomeEnds
  BY <1>8 DEF HomeEnds
<1>9. CASE HomeHalted
  BY <1>9 DEF HomeHalted, CommandEnds, kernelVars, switchVars
<1>10. CASE Homed
  BY <1>10 DEF Homed, ResetAxes, BackOff
<1>11. CASE HomeOff
  BY <1>11 DEF HomeOff, CommandEnds, kernelVars
<1> QED BY <1>1, <1>2, <1>3, <1>4, <1>5, <1>6, <1>7, <1>8, <1>9, <1>10, <1>11, <1>12 DEF Homing

\* The interrupt of read_endstops: a limit halts the machine as it stops the motors.
LEMMA ReadKeepsPosition ==
  ASSUME PositionInv, Read
  PROVE  PositionInv'
<1>1. UNCHANGED <<pc, back>>
  BY DEF Read, threadVars
<1>2. PICK pin \in Readings(at) :
        StillTriggered(pin) \/ AllOff(pin) \/ LimitHit(pin) \/ Seek(pin) \/ NothingToRead(pin)
  BY DEF Read, ReadEndstops
<1> USE <1>1 DEF PositionInv, ControlType, Where
<1>3. CASE StillTriggered(pin)
  BY <1>3 DEF StillTriggered, kernelVars
<1>4. CASE AllOff(pin)
  BY <1>4 DEF AllOff, kernelVars, Seeking
<1>5. CASE LimitHit(pin)
  BY <1>5 DEF LimitHit, ImmediateHalt, Seeking
<1>6. CASE Seek(pin)
  BY <1>6 DEF Seek, Seeking
<1>7. CASE NothingToRead(pin)
  BY <1>7 DEF NothingToRead, kernelVars, switchVars
<1> QED BY <1>2, <1>3, <1>4, <1>5, <1>6, <1>7

LEMMA PositionInit ==
  ASSUME Init
  PROVE  PositionInv
BY DEF Init, KernelInit, EndstopsInit, PositionInv, ControlType, Where, InIdle, Stores,
   Waits, Seeking

LEMMA PositionStep ==
  ASSUME PositionInv, [Next]_vars
  PROVE  PositionInv'
<1>1. CASE Thread
  <2>1. CASE NoCommand
    BY <2>1 DEF NoCommand, PositionInv, ControlType, Where, InIdle, Stores, Waits,
       kernelVars, endstopVars, switchVars
  <2>2. CASE ButtonOnIdle /\ UNCHANGED endstopVars
    BY <2>2, IdleKeepsPosition DEF endstopVars, switchVars
  <2>3. CASE LimitsOnIdle
    BY <2>3, IdleKeepsPosition DEF LimitsOnIdle, LimitsNothing, HaltLoad, HaltStore, HaltEvent,
       OnLoad, OnStore, IdleKeeps
  <2>4. CASE Homing
    BY <2>4, HomingKeepsPosition
  <2> QED BY <1>1, <2>1, <2>2, <2>3, <2>4 DEF Thread
<1>2. CASE User
  <2>1. CASE Jog
    BY <2>1 DEF Jog, PositionInv, ControlType, Where, InIdle, Stores, Waits,
       endstopVars, switchVars
  <2>2. CASE Unhalt
    BY <2>2 DEF Unhalt, ClearHalt, PositionInv, ControlType, Where, InIdle, Stores, Waits,
       endstopVars, switchVars
  <2>3. CASE StartHome
    <3>1. HomeCommand
      BY <2>3 DEF StartHome
    <3>2. Homing
      BY <3>1 DEF Homing
    <3> QED BY <3>2, HomingKeepsPosition
  <2> QED BY <1>2, <2>1, <2>2, <2>3 DEF User
<1>3. CASE OtherHalt
  BY <1>3 DEF OtherHalt, OnHalt, PositionInv, ControlType, Where, threadVars, endstopVars,
     switchVars
<1>4. CASE Contact \/ Tick
  BY <1>4 DEF Contact, Tick, PositionInv, ControlType, Where, threadVars, kernelVars,
     endstopVars, switchVars
<1>5. CASE Move
  BY <1>5 DEF Move, Motion, PositionInv, ControlType, Where, threadVars, switchVars
<1>6. CASE Read
  BY <1>6, ReadKeepsPosition
<1>7. CASE UNCHANGED vars
  BY <1>7 DEF vars, PositionInv, ControlType, Where, threadVars, kernelVars,
     endstopVars, switchVars
<1> QED BY <1>1, <1>2, <1>3, <1>4, <1>5, <1>6, <1>7 DEF Next

\* Between two commands of a machine that is not halted, the robot takes the
\* carriage to be where the actuators have taken it.
THEOREM PositionIsKept == Spec => []PositionKept
<1>1. Init => PositionInv
  BY PositionInit
<1>2. PositionInv /\ [Next]_vars => PositionInv'
  BY PositionStep
<1>3. PositionInv => PositionKept
  BY DEF PositionInv, PositionKept, Where, InIdle, Stores, Waits, Stores
<1> QED BY <1>1, <1>2, <1>3, PTL DEF Spec

-----------------------------------------------------------------------------
(* The two seconds of the button.                                            *)

\* What is needed of the types.
ButtonType ==
  /\ ControlType
  /\ unkill_timer \in Nat /\ held \in 0 .. TwoSeconds
  /\ halted \in BOOLEAN /\ flags \in [halt : BOOLEAN, on : BOOLEAN]
  /\ reg \in [halt : BOOLEAN, on : BOOLEAN]

\* The timer is behind the ticks that it counts.
HoldInv ==
  /\ In("UNKILL_TIMING_BUTTON_DOWN") => unkill_timer <= held
  /\ In("UNKILL_FIRE") /\ halted => held = TwoSeconds

\* The button has been timed for more than one tick, or is about to clear the halt.
Timing == In("UNKILL_TIMING_BUTTON_DOWN") /\ unkill_timer > 0
Fires == In("UNKILL_FIRE") /\ TwoSeconds > 0

\* By then the halt has been seen everywhere, so that nothing is left that halts
\* the machine anew once the button has cleared it: neither a cycle of homing that
\* fails, nor a limit of which the modules are still to be told.
CalmInv ==
  /\ halted => move = Zero
  /\ pc = "onStore" => ~reg.halt
  /\ (Timing \/ Fires) /\ ~halted => Where = "main" /\ move = Zero
  /\ Fires /\ ~halted => ~flags.halt /\ pc \notin {"haltStore", "haltEvent"}
  /\ (Timing \/ Fires) /\ pc = "idle" /\ back # "main" => Timing /\ ~served
  /\ (Timing \/ Fires) /\ flags.halt /\ pc \notin {"limits", "haltStore"} => Timing /\ ~served

ButtonInv == ButtonType /\ HoldInv /\ CalmInv

\* A tick of the button: the timer and the ticks it counts go on together.
LEMMA TickKeepsHold ==
  ASSUME ButtonInv, Tick, ~toggle_enable, ~SlowThread
  PROVE  ButtonInv'
<1>1. /\ UNCHANGED <<pc, back, halted, move, flags, reg>> /\ served /\ ~served'
  BY DEF Tick, ButtonTick, kernelVars, threadVars, endstopVars, switchVars
<1>2. /\ TwoSeconds \in Nat /\ unkill_timer \in Nat /\ held \in 0 .. TwoSeconds
      /\ 2 ^ TimerBits \in Nat \ {0} /\ halted \in BOOLEAN
  BY ButtonAssumption, TimerAssumption DEF ButtonInv, ButtonType
<1>3. ButtonType' /\ Where' = Where
  <2>1. unkill_timer' \in Nat
    <3>1. (unkill_timer + 1) % 2 ^ TimerBits \in Nat
      BY <1>2
    <3> QED BY <3>1, <1>2 DEF Tick, ButtonTick, Idle, KillButtonDown, KilledButtonDown, KilledButtonUp,
       UnkillButtonDown, UnkillTiming, UnkillFire, UnkilledButtonDown, TimerKept
  <2>2. held' \in 0 .. TwoSeconds
    BY <1>2 DEF Tick, ButtonTick
  <2> QED BY <1>1, <2>1, <2>2 DEF ButtonInv, ButtonType, ControlType, Where
<1>4. \/ state' \notin {"UNKILL_TIMING_BUTTON_DOWN", "UNKILL_FIRE"}
      \/ state' = "UNKILL_TIMING_BUTTON_DOWN" /\ unkill_timer' = 0
      \/ /\ state = "UNKILL_TIMING_BUTTON_DOWN" /\ state' = "UNKILL_TIMING_BUTTON_DOWN"
         /\ halted /\ (unkill_timer' = 0 \/ (pressed /\ unkill_timer' <= unkill_timer + 1))
         /\ unkill_timer' <= TwoSeconds
      \/ /\ state = "UNKILL_TIMING_BUTTON_DOWN" /\ state' = "UNKILL_FIRE"
         /\ halted /\ unkill_timer >= TwoSeconds
      \/ state = "UNKILL_FIRE" /\ state' = "UNKILL_FIRE" /\ halted
  <2>1. CASE UnkillTiming
    <3> DEFINE timer == (unkill_timer + 1) % 2 ^ TimerBits
    <3>1. timer \in Nat /\ timer <= unkill_timer + 1
      BY <1>2
    <3>2. /\ In("UNKILL_TIMING_BUTTON_DOWN")
          /\ unkill_timer' = IF timer > TwoSeconds \/ pressed THEN timer ELSE 0
          /\ state' = IF ~halted THEN "IDLE" ELSE IF timer > TwoSeconds THEN "UNKILL_FIRE" ELSE state
      BY <2>1 DEF UnkillTiming, To
    <3> HIDE DEF timer
    <3>3. timer > TwoSeconds => unkill_timer >= TwoSeconds
      BY <3>1, <1>2
    <3> QED BY <3>1, <3>2, <3>3, <1>2 DEF In
  <2>2. CASE ~UnkillTiming
    BY <2>2 DEF Tick, ButtonTick, Idle, KillButtonDown, KilledButtonDown, KilledButtonUp,
       UnkillButtonDown, UnkillFire, UnkilledButtonDown, In, To
  <2> QED BY <2>1, <2>2
<1>5. held' = CASE state' = "UNKILL_FIRE" -> held
                [] state' # "UNKILL_FIRE" /\ pressed /\ halted ->
                     IF held < TwoSeconds THEN held + 1 ELSE held
                [] OTHER -> 0
  BY DEF Tick, ButtonTick
<1>6. HoldInv'
  <2>1. CASE state' = "UNKILL_FIRE"
    <3>1. held' = held
      BY <2>1, <1>5
    <3> QED BY <2>1, <3>1, <1>1, <1>2, <1>4 DEF ButtonInv, HoldInv, In
  <2>2. CASE state' = "UNKILL_TIMING_BUTTON_DOWN" /\ unkill_timer' # 0
    <3>1. /\ state = "UNKILL_TIMING_BUTTON_DOWN" /\ halted /\ pressed
          /\ unkill_timer' <= unkill_timer + 1 /\ unkill_timer' <= TwoSeconds
      BY <2>2, <1>4
    <3>2. held' = IF held < TwoSeconds THEN held + 1 ELSE held
      BY <2>2, <3>1, <1>5
    <3>3. unkill_timer' <= held'
      BY <3>1, <3>2, <1>2, <1>3 DEF ButtonInv, HoldInv, In, ButtonType
    <3> QED BY <2>2, <3>3 DEF HoldInv, In
  <2>3. CASE state' # "UNKILL_FIRE" /\ ~(state' = "UNKILL_TIMING_BUTTON_DOWN" /\ unkill_timer' # 0)
    BY <2>3, <1>3 DEF HoldInv, In, ButtonType
  <2> QED BY <2>1, <2>2, <2>3
\* Whatever is timed for more than a tick is seen by on_idle between its ticks.
<1>7. CalmInv'
  <2>1. Timing' \/ Fires' => halted
    <3>1. Timing' => state' = "UNKILL_TIMING_BUTTON_DOWN" /\ unkill_timer' # 0
      BY DEF Timing, In
    <3> QED BY <3>1, <1>4 DEF Fires, In
  <2>2. Fires' => Timing \/ Fires
    BY <1>2, <1>4 DEF Timing, Fires, In
  <2>3. Timing' \/ Fires' => Timing' \/ Timing \/ Fires
    BY <2>2
  <2>4. Fires' => ~Timing'
    BY DEF Fires, Timing, In
  <2>5. Fires' /\ pc = "idle" => back = "main"
    BY <2>2, <1>1 DEF ButtonInv, CalmInv
  <2>6. Fires' /\ flags.halt => pc \in {"limits", "haltStore"}
    BY <2>2, <1>1 DEF ButtonInv, CalmInv
  <2> QED BY <2>1, <2>5, <2>6, <1>1 DEF ButtonInv, CalmInv
<1> QED BY <1>3, <1>6, <1>7 DEF ButtonInv

\* ON_IDLE: once the button fires, the first handler clears the halt and the second
\* has nothing left to do.
LEMMA ButtonIdleKeepsHold ==
  ASSUME ButtonInv, ButtonOnIdle, UNCHANGED endstopVars
  PROVE  ButtonInv'
<1>1. /\ pc = "idle" /\ pc' = "limits" /\ back' = back /\ state' = state
      /\ unkill_timer' = unkill_timer /\ served' /\ flags' = flags /\ reg' = reg
  BY DEF ButtonOnIdle, Goto, endstopVars, switchVars
<1>2. \/ state = "KILL_BUTTON_DOWN" /\ halted' = TRUE /\ move' = Zero /\ held' = held
      \/ state = "UNKILL_FIRE" /\ halted /\ halted' = FALSE /\ held' = 0 /\ move' = move
      \/ UNCHANGED <<halted, move, held>>
  BY DEF ButtonOnIdle, ButtonHalts, ButtonClears, OnHalt, ClearHalt, IsIdle, kernelVars, In
<1>3. Where' = Where /\ ButtonType'
  <2>1. ControlType' /\ Where' = Where
    BY <1>1 DEF ButtonInv, ButtonType, ControlType, Where, InIdle
  <2>2. 0 \in 0 .. TwoSeconds
    BY ButtonAssumption
  <2> QED BY <1>1, <1>2, <2>1, <2>2 DEF ButtonInv, ButtonType
<1>4. HoldInv'
  BY <1>1, <1>2 DEF ButtonInv, HoldInv, In
<1>5. Timing' = Timing /\ Fires' = Fires
  BY <1>1 DEF Timing, Fires, In
<1>6. Fires => back = "main" /\ ~flags.halt
  BY <1>1 DEF ButtonInv, CalmInv, Fires, Timing, In
<1>7. CalmInv'
  <2>1. CASE state = "KILL_BUTTON_DOWN" /\ halted' = TRUE /\ move' = Zero
    BY <2>1, <1>1, <1>5 DEF CalmInv, Timing, Fires, In
  <2>2. CASE state = "UNKILL_FIRE" /\ halted /\ halted' = FALSE /\ move' = move
    <3>1. Where' = back /\ ~Timing /\ move = Zero
      BY <2>2, <1>1, <1>3 DEF Where, InIdle, Timing, In, ButtonInv, CalmInv
    <3> QED BY <2>2, <3>1, <1>1, <1>5, <1>6 DEF CalmInv
  <2>3. CASE UNCHANGED <<halted, move>>
    BY <2>3, <1>1, <1>3, <1>5 DEF ButtonInv, CalmInv
  <2> QED BY <1>2, <2>1, <2>2, <2>3
<1> QED BY <1>3, <1>4, <1>7 DEF ButtonInv

\* A step that leaves the button alone may halt the machine, but not while the
\* button is cleared for the halt to end.
LEMMA HoldKept ==
  ASSUME ButtonInv, UNCHANGED <<state, unkill_timer, served, held>>,
         halted' => halted \/ ~Fires
  PROVE  HoldInv' /\ Timing' = Timing /\ Fires' = Fires
<1>1. Timing' = Timing /\ Fires' = Fires
  BY DEF Timing, Fires, In
<1>2. HoldInv'
  <2>1. CASE TwoSeconds = 0
    <3>1. held' = TwoSeconds
      BY <2>1 DEF ButtonInv, ButtonType
    <3> QED BY <3>1 DEF ButtonInv, HoldInv, In
  <2>2. CASE TwoSeconds > 0
    <3>1. In("UNKILL_FIRE") /\ halted' => halted
      BY <2>2 DEF Fires
    <3> QED BY <3>1 DEF ButtonInv, HoldInv, In
  <2>3. TwoSeconds = 0 \/ TwoSeconds > 0
    BY ButtonAssumption
  <2> QED BY <2>1, <2>2, <2>3
<1> QED BY <1>1, <1>2

LEMMA LimitsKeepHold ==
  ASSUME ButtonInv, LimitsOnIdle, UNCHANGED <<state, unkill_timer, served, held>>
  PROVE  ButtonInv'
<1>1. /\ ControlType' /\ Where' = Where /\ pc \in {"limits", "haltStore", "haltEvent", "onStore"}
      /\ pc' \in {back, "haltStore", "haltEvent", "onStore"} /\ back' = back
  BY DEF ButtonInv, ButtonType, ControlType, Where, InIdle, Waits, Stores, LimitsOnIdle,
     LimitsNothing, HaltLoad, HaltStore, HaltEvent, OnLoad, OnStore, Goto, Return
<1>2. \/ pc = "haltEvent" /\ halted' = TRUE /\ move' = Zero /\ UNCHANGED <<flags, reg>> /\ pc' = back
      \/ /\ UNCHANGED <<halted, move>>
         /\ \/ pc = "limits" /\ ~flags.halt /\ UNCHANGED <<flags, reg>> /\ pc' = back
            \/ pc = "limits" /\ flags.halt /\ flags' = flags /\ reg' = flags /\ pc' = "haltStore"
            \/ pc = "haltStore" /\ flags' = [reg EXCEPT !.halt = FALSE] /\ reg' = NoFlags /\ pc' = "haltEvent"
            \/ pc = "limits" /\ ~flags.halt /\ flags' = flags /\ reg' = flags /\ pc' = "onStore"
            \/ pc = "onStore" /\ flags' = [reg EXCEPT !.on = FALSE] /\ reg' = NoFlags /\ pc' = back
  <2>1. CASE LimitsNothing
    BY <2>1 DEF LimitsNothing, NoFlags, Return, kernelVars
  <2>2. CASE HaltLoad \/ HaltStore
    BY <2>2 DEF HaltLoad, HaltStore, Goto, kernelVars
  <2>3. CASE HaltEvent
    BY <2>3 DEF HaltEvent, OnHalt, IsIdle, Return
  <2>4. CASE OnLoad \/ OnStore
    BY <2>4 DEF OnLoad, OnStore, Goto, Return, kernelVars
  <2> QED BY <2>1, <2>2, <2>3, <2>4 DEF LimitsOnIdle
<1>3. /\ flags' \in [halt : BOOLEAN, on : BOOLEAN] /\ reg' \in [halt : BOOLEAN, on : BOOLEAN]
      /\ flags'.halt => flags.halt /\ pc # "haltStore" /\ pc # "onStore"
      /\ pc' = "onStore" => ~reg'.halt
  <2>1. pc' = "onStore" => pc = "limits"
    BY <1>2 DEF ButtonInv, ButtonType, ControlType, Waits, Stores
  <2>2. pc = "onStore" => ~reg.halt
    BY DEF ButtonInv, CalmInv
  <2>3. /\ flags \in [halt : BOOLEAN, on : BOOLEAN] /\ reg \in [halt : BOOLEAN, on : BOOLEAN]
        /\ NoFlags \in [halt : BOOLEAN, on : BOOLEAN]
        /\ [reg EXCEPT !.halt = FALSE] \in [halt : BOOLEAN, on : BOOLEAN]
        /\ [reg EXCEPT !.on = FALSE] \in [halt : BOOLEAN, on : BOOLEAN]
    BY DEF ButtonInv, ButtonType, NoFlags
  <2>4. [reg EXCEPT !.halt = FALSE].halt = FALSE /\ [reg EXCEPT !.on = FALSE].halt = reg.halt
    BY <2>3
  <2>5. flags' \in {flags, [reg EXCEPT !.halt = FALSE], [reg EXCEPT !.on = FALSE]} /\ reg' \in {reg, flags, NoFlags}
    BY <1>2
  <2>6. flags'.halt => flags.halt /\ pc # "haltStore" /\ pc # "onStore"
    BY <1>2, <2>2, <2>4
  <2>7. pc' = "onStore" => ~reg'.halt
    <3>1. back # "onStore"
      BY DEF ButtonInv, ButtonType, ControlType, Waits
    <3>2. pc' = "onStore" => ~flags.halt /\ reg' = flags
      BY <1>2, <2>1, <3>1
    <3> QED BY <3>2
  <2> QED BY <2>3, <2>5, <2>6, <2>7
<1>4. halted' \in BOOLEAN /\ (halted' => move' = Zero) /\ (halted' => halted \/ pc = "haltEvent")
      /\ (halted => halted') /\ (~halted' => move' = move)
  <2>1. halted \in BOOLEAN /\ (halted => move = Zero)
    BY DEF ButtonInv, ButtonType, CalmInv
  <2>2. CASE pc = "haltEvent" /\ halted' = TRUE /\ move' = Zero
    BY <2>2
  <2>3. CASE halted' = halted /\ move' = move
    BY <2>1, <2>3, Zenon
  <2> QED BY <1>2, <2>2, <2>3
<1>5. pc = "haltEvent" => halted \/ ~Fires
  BY DEF ButtonInv, CalmInv
<1>6. HoldInv' /\ Timing' = Timing /\ Fires' = Fires
  BY <1>4, <1>5, HoldKept
<1>7. ButtonType'
  BY <1>1, <1>3, <1>4 DEF ButtonInv, ButtonType
<1>8. CalmInv'
  <2>1. pc' # "idle"
    BY <1>1 DEF ButtonInv, ButtonType, ControlType, Waits
  <2>2. (Timing \/ Fires) /\ ~halted' => Where' = "main" /\ move' = Zero
    BY <1>1, <1>4 DEF ButtonInv, CalmInv
  <2>3. Fires /\ ~halted' => ~flags'.halt /\ pc' \notin {"haltStore", "haltEvent"}
    <3>1. back \notin {"haltStore", "haltEvent"}
      BY DEF ButtonInv, ButtonType, ControlType, Waits
    <3>2. Fires /\ ~halted => ~flags.halt /\ pc # "haltStore"
      BY DEF ButtonInv, CalmInv
    <3> QED BY <1>2, <1>3, <1>4, <3>1, <3>2
  <2>4. (Timing \/ Fires) /\ flags'.halt /\ pc' \notin {"limits", "haltStore"} => Timing /\ ~served
    <3>1. flags'.halt /\ pc' # "haltStore" => pc = "haltEvent" /\ flags.halt
      BY <1>2, <1>3, <1>1
    <3> QED BY <3>1 DEF ButtonInv, CalmInv
  <2> QED BY <1>3, <1>4, <1>6, <2>1, <2>2, <2>3, <2>4 DEF CalmInv
<1> QED BY <1>6, <1>7, <1>8 DEF ButtonInv

\* G28.  A cycle is not under way when the button is timed for more than a tick,
\* unless the machine is halted, and then it ends without another wait.
LEMMA HomingKeepsHold ==
  ASSUME ButtonInv, Homing, pc = "main" => state \notin {"UNKILL_TIMING_BUTTON_DOWN", "UNKILL_FIRE"},
         UNCHANGED <<state, unkill_timer, served, held>>
  PROVE  ButtonInv'
<1>1. /\ flags' = flags /\ reg' = reg /\ pc \in {"main", "homeDone"} \cup Waits
      /\ \/ pc' \in {"homeDone"} \cup Waits /\ back' = back
         \/ pc' = "idle" /\ back' = "main"
         \/ pc' = "idle" /\ back' = pc /\ pc \in Waits /\ move # Zero
  BY DEF Homing, Waiting, HomeCommand, HomeStart, HomeApproach, HomeFails, HomeBack, HomeSlow, HomeNext, HomeEnds,
     HomeHalted, Homed, HomeOff, Waited, Approached, BeginHome, threadVars, BackOff, CommandEnds, HomeKeeps, Goto, IsIdle, Waits,
     endstopVars, switchVars
<1>2. /\ halted' = halted \/ (halted' = TRUE /\ move' = Zero)
      /\ halted' = halted => move' = move \/ ~halted \/ move' = Zero
  <2>1. CASE Waiting \/ HomeCommand \/ HomeHalted \/ HomeOff \/ HomeEnds
    BY <2>1 DEF Waiting, HomeCommand, HomeHalted, HomeOff, HomeEnds, kernelVars, HomeKeeps
  <2>2. CASE HomeFails
    BY <2>2 DEF HomeFails, OnHalt, IsIdle
  <2>3. CASE HomeStart \/ HomeApproach \/ HomeBack \/ HomeSlow \/ HomeNext \/ Homed
    <3>1. halted' = halted /\ \E axes, steps : DeltaMove(axes, steps)
      BY <2>3 DEF HomeStart, HomeApproach, HomeBack, HomeSlow, HomeNext, Homed, BeginHome, Approach, BackOff, HomeKeeps
    <3>2. halted => move' = Zero
      BY <3>1 DEF DeltaMove, Zero
    <3> QED BY <3>1, <3>2
  <2> QED BY <2>1, <2>2, <2>3 DEF Homing
<1>3. halted' \in BOOLEAN /\ (halted => halted') /\ (halted' => move' = Zero)
  <2>1. halted \in BOOLEAN /\ (halted => move = Zero)
    BY DEF ButtonInv, ButtonType, CalmInv
  <2>2. CASE halted' = TRUE /\ move' = Zero
    BY <2>2
  <2>3. CASE halted' = halted /\ (move' = move \/ ~halted \/ move' = Zero)
    BY <2>1, <2>3, Zenon
  <2> QED BY <1>2, <2>2, <2>3
<1>4. Timing \/ Fires => halted /\ pc # "main"
  <2>1. pc # "main" => Where = pc /\ Where # "main"
    BY <1>1 DEF Where, InIdle, Stores, Waits
  <2>2. (Timing \/ Fires) /\ ~halted => Where = "main"
    BY DEF ButtonInv, CalmInv
  <2>3. Timing \/ Fires => pc # "main"
    BY DEF Timing, Fires, In
  <2> QED BY <2>1, <2>2, <2>3
<1>5. HoldInv' /\ Timing' = Timing /\ Fires' = Fires
  BY <1>4, HoldKept
<1>6. ButtonType'
  BY <1>1, <1>3 DEF ButtonInv, ButtonType, ControlType, InIdle
<1>7. CalmInv'
  <2>1. Timing \/ Fires => ~(pc' = "idle" /\ back' # "main")
    <3>1. halted => move = Zero
      BY DEF ButtonInv, CalmInv
    <3>2. pc' = "idle" /\ back' # "main" => move # Zero
      BY <1>1 DEF Waits
    <3> QED BY <1>4, <3>1, <3>2
  <2>2. (Timing \/ Fires) /\ flags.halt => Timing /\ ~served
    BY <1>1 DEF ButtonInv, CalmInv, Waits
  <2>3. pc' # "onStore"
    BY <1>1 DEF Waits
  <2> QED BY <1>1, <1>3, <1>4, <1>5, <2>1, <2>2, <2>3 DEF CalmInv
<1> QED BY <1>5, <1>6, <1>7 DEF ButtonInv

\* The interrupt of read_endstops: a limit halts a machine that moves, and it does
\* not move when the button has been timed for so long.
LEMMA ReadKeepsHold ==
  ASSUME ButtonInv, Read
  PROVE  ButtonInv'
<1>1. UNCHANGED <<pc, back, state, unkill_timer, served, held, reg>>
  BY DEF Read, ReadEndstops, threadVars, buttonVars
<1>2. \/ /\ halted' = TRUE /\ move' = Zero /\ move # Zero
         /\ flags' = [flags EXCEPT !.halt = TRUE]
      \/ /\ halted' = halted /\ (move = Zero => move' = Zero)
         /\ flags' \in {flags, [flags EXCEPT !.on = TRUE]}
  <2> PICK pin \in Readings(at) :
        StillTriggered(pin) \/ AllOff(pin) \/ LimitHit(pin) \/ Seek(pin) \/ NothingToRead(pin)
    BY DEF Read, ReadEndstops
  <2>1. CASE StillTriggered(pin) \/ AllOff(pin) \/ NothingToRead(pin)
    BY <2>1 DEF StillTriggered, AllOff, NothingToRead, kernelVars, switchVars
  <2>2. CASE LimitHit(pin)
    <3>1. /\ halted' = TRUE /\ flags' = [flags EXCEPT !.halt = TRUE]
          /\ move' = [m \in Axes |-> IF m \in Axes THEN 0 ELSE move[m]]
      BY <2>2 DEF LimitHit, ImmediateHalt, StopMoving
    <3>2. PICK m \in LimitAxes : Moving(m)
      BY <2>2 DEF LimitHit, Hit
    <3>3. move # Zero
      BY <3>2, EndstopsAssumption DEF Moving, Zero
    <3> QED BY <3>1, <3>3 DEF Zero
  <2>3. CASE Seek(pin)
    <3>1. /\ halted' = halted /\ flags' = flags
          /\ move' = [m \in Axes |-> IF m \in Stopped(pin) THEN 0 ELSE move[m]]
      BY <2>3 DEF Seek, StopMoving
    <3> QED BY <3>1 DEF Zero
  <2> QED BY <2>1, <2>2, <2>3
<1>3. /\ flags' \in [halt : BOOLEAN, on : BOOLEAN]
      /\ halted' \in BOOLEAN /\ (halted => halted') /\ (halted' => move' = Zero)
      /\ (halted' = halted /\ flags'.halt = flags.halt) \/ (~halted /\ move # Zero)
  <2>1. /\ flags \in [halt : BOOLEAN, on : BOOLEAN] /\ halted \in BOOLEAN /\ (halted => move = Zero)
    BY DEF ButtonInv, ButtonType, CalmInv
  <2>2. CASE halted' = TRUE /\ move' = Zero /\ move # Zero /\ flags' = [flags EXCEPT !.halt = TRUE]
    BY <2>1, <2>2
  <2>3. CASE halted' = halted /\ (move = Zero => move' = Zero) /\ flags' \in {flags, [flags EXCEPT !.on = TRUE]}
    <3>1. flags' \in [halt : BOOLEAN, on : BOOLEAN] /\ flags'.halt = flags.halt
      BY <2>1, <2>3
    <3>2. halted' \in BOOLEAN /\ (halted => halted') /\ (halted' => move' = Zero)
      BY <2>1, <2>3, Zenon
    <3> QED BY <2>3, <3>1, <3>2
  <2> QED BY <1>2, <2>2, <2>3
<1>4. (halted' = halted /\ flags'.halt = flags.halt) \/ ~(Timing \/ Fires)
  BY <1>3 DEF ButtonInv, CalmInv
<1>5. halted' => halted \/ ~Fires
  BY <1>4
<1>6. HoldInv' /\ Timing' = Timing /\ Fires' = Fires
  BY <1>1, <1>5, HoldKept
<1>7. ButtonType' /\ Where' = Where
  BY <1>1, <1>3 DEF ButtonInv, ButtonType, ControlType, Where
<1>8. CalmInv'
  <2>1. CASE ~(Timing \/ Fires)
    BY <2>1, <1>1, <1>3, <1>6 DEF ButtonInv, CalmInv
  <2>2. CASE halted' = halted /\ flags'.halt = flags.halt
    <3>1. move = Zero => move' = Zero
      BY <1>2
    <3> QED BY <2>2, <3>1, <1>1, <1>3, <1>6, <1>7 DEF ButtonInv, CalmInv
  <2> QED BY <1>4, <2>1, <2>2
<1> QED BY <1>6, <1>7, <1>8 DEF ButtonInv

\* Moves are not commanded while the button is timed or about to clear the halt.
LEMMA UserKeepsHold ==
  ASSUME ButtonInv, Jog \/ Unhalt \/ OtherHalt \/ NoCommand \/ Move, ~Hasty
  PROVE  ButtonInv'
<1>1. CASE Jog
  <2>1. /\ ~(Timing \/ Fires) /\ ~halted /\ halted' = halted
        /\ pc' = "idle" /\ back' = "main"
        /\ UNCHANGED <<state, unkill_timer, served, held, flags, reg>>
    BY <1>1 DEF Jog, Settled, Timing, Fires, In, buttonVars, contactVars, endstopVars, switchVars
  <2>2. HoldInv' /\ Timing' = Timing /\ Fires' = Fires
    BY <2>1, HoldKept
  <2>3. ButtonType' /\ CalmInv'
    BY <2>1, <2>2 DEF ButtonInv, ButtonType, ControlType, InIdle, CalmInv
  <2> QED BY <2>2, <2>3 DEF ButtonInv
<1>2. CASE Unhalt
  <2>1. /\ pc = "main" /\ halted /\ halted' = FALSE /\ move' = move
        /\ pc' = "idle" /\ back' = "main"
        /\ UNCHANGED <<state, unkill_timer, served, held, flags, reg>>
    BY <1>2 DEF Unhalt, ClearHalt, buttonVars, contactVars, endstopVars, switchVars
  <2>2. HoldInv' /\ Timing' = Timing /\ Fires' = Fires
    BY <2>1, HoldKept
  <2>3. Where' = "main" /\ move' = Zero
    BY <2>1 DEF Where, InIdle, ButtonInv, CalmInv
  <2>4. ButtonType'
    BY <2>1 DEF ButtonInv, ButtonType, ControlType, InIdle
  <2>5. ~(Fires /\ Timing)
    BY DEF Fires, Timing, In
  <2>6. (Timing \/ Fires) /\ flags.halt => Timing /\ ~served
    BY <2>1 DEF ButtonInv, CalmInv
  <2>7. CalmInv'
    BY <2>1, <2>2, <2>3, <2>5, <2>6 DEF CalmInv
  <2> QED BY <2>2, <2>4, <2>7 DEF ButtonInv
<1>3. CASE OtherHalt
  <2>1. /\ ~(Timing \/ Fires) /\ halted' = TRUE /\ move' = Zero
        /\ UNCHANGED <<pc, back, state, unkill_timer, served, held, flags, reg>>
    BY <1>3 DEF OtherHalt, OnHalt, IsIdle, Settled, Timing, Fires, In, threadVars, buttonVars,
       endstopVars, switchVars
  <2>2. HoldInv' /\ Timing' = Timing /\ Fires' = Fires
    BY <2>1, HoldKept
  <2>3. ButtonType' /\ CalmInv'
    BY <2>1, <2>2 DEF ButtonInv, ButtonType, ControlType, InIdle, CalmInv
  <2> QED BY <2>2, <2>3 DEF ButtonInv
<1>4. CASE NoCommand
  <2>1. /\ pc = "main" /\ pc' = "idle" /\ back' = "main"
        /\ UNCHANGED <<halted, move, state, unkill_timer, served, held, flags, reg>>
    BY <1>4 DEF NoCommand, kernelVars, buttonVars, contactVars, endstopVars, switchVars
  <2>2. HoldInv' /\ Timing' = Timing /\ Fires' = Fires
    BY <2>1, HoldKept
  <2>3. Where' = "main" /\ ButtonType'
    BY <2>1 DEF Where, InIdle, ButtonInv, ButtonType, ControlType
  <2>4. CalmInv'
    BY <2>1, <2>2, <2>3 DEF ButtonInv, CalmInv
  <2> QED BY <2>2, <2>3, <2>4 DEF ButtonInv
<1>5. CASE Move
  <2>1. /\ move # Zero /\ halted' = halted
        /\ UNCHANGED <<pc, back, state, unkill_timer, served, held, flags, reg>>
    BY <1>5 DEF Move, Motion, IsIdle, threadVars, buttonVars, contactVars, switchVars
  <2>2. ~halted /\ ~(Timing \/ Fires)
    BY <2>1 DEF ButtonInv, CalmInv
  <2>3. HoldInv' /\ Timing' = Timing /\ Fires' = Fires
    BY <2>1, HoldKept
  <2>4. ButtonType' /\ CalmInv'
    BY <2>1, <2>2, <2>3 DEF ButtonInv, ButtonType, ControlType, InIdle, CalmInv
  <2> QED BY <2>3, <2>4 DEF ButtonInv
<1> QED BY <1>1, <1>2, <1>3, <1>4, <1>5

LEMMA HoldInit ==
  ASSUME Init
  PROVE  ButtonInv
<1>1. ControlType /\ pc = "main" /\ halted = FALSE
  BY DEF Init, KernelInit, ControlType
<1>2. state = "IDLE" /\ unkill_timer = 0 /\ held = 0 /\ 0 \in 0 .. TwoSeconds
  BY ButtonAssumption DEF Init, ButtonInit
<1>3. flags = NoFlags /\ reg = NoFlags
  BY DEF Init, EndstopsInit
<1> QED BY <1>1, <1>2, <1>3 DEF ButtonInv, ButtonType, HoldInv, CalmInv, Timing, Fires, In, NoFlags

LEMMA HoldStep ==
  ASSUME ~toggle_enable, ~SlowThread, ~Hasty, ButtonInv, [Next]_vars
  PROVE  ButtonInv'
<1>1. CASE Thread
  <2>1. CASE NoCommand
    BY <2>1, UserKeepsHold
  <2>2. CASE ButtonOnIdle /\ UNCHANGED endstopVars
    BY <2>2, ButtonIdleKeepsHold
  <2>3. CASE (LimitsOnIdle \/ Homing) /\ pc # "main" /\ UNCHANGED <<buttonVars, pressed, polled, held>>
    <3>1. UNCHANGED <<state, unkill_timer, served, held>>
      BY <2>3 DEF buttonVars
    <3> QED BY <2>3, <3>1, LimitsKeepHold, HomingKeepsHold
  <2> QED BY <1>1, <2>1, <2>2, <2>3 DEF Thread
<1>2. CASE User
  <2>1. CASE Jog \/ Unhalt
    BY <2>1, UserKeepsHold
  <2>2. CASE StartHome
    <3>1. /\ Homing /\ state \notin {"UNKILL_TIMING_BUTTON_DOWN", "UNKILL_FIRE"}
          /\ UNCHANGED <<state, unkill_timer, served, held>>
      BY <2>2 DEF StartHome, Settled, Homing, buttonVars, contactVars
    <3> QED BY <3>1, HomingKeepsHold
  <2> QED BY <1>2, <2>1, <2>2 DEF User
<1>3. CASE OtherHalt \/ Move
  BY <1>3, UserKeepsHold
<1>4. CASE Contact \/ UNCHANGED vars
  <2>1. UNCHANGED <<halted, move, pc, back, state, unkill_timer, served, held, flags, reg>>
    BY <1>4 DEF Contact, PressButton, ReleaseButton, vars, kernelVars, threadVars, buttonVars,
       contactVars, endstopVars, switchVars
  <2> QED BY <2>1 DEF ButtonInv, ButtonType, ControlType, HoldInv, CalmInv, Timing, Fires, In, Where
<1>5. CASE Tick
  BY <1>5, TickKeepsHold
<1>6. CASE Read
  BY <1>6, ReadKeepsHold
<1> QED BY <1>1, <1>2, <1>3, <1>4, <1>5, <1>6 DEF Next

\* The button clears a halt only after it has been held for two seconds: for every
\* poll_frequency, and whatever the interrupts interrupt.  It does not lock, on_idle
\* keeps up with its polls, and the user waits for it.
THEOREM ButtonIsHeld ==
  ASSUME ~toggle_enable, ~SlowThread, ~Hasty
  PROVE  Spec => UnkillNeedsHold
<1>1. Init => ButtonInv
  BY HoldInit
<1>2. ButtonInv /\ [Next]_vars => ButtonInv'
  BY HoldStep
<1>3. ButtonInv => (ButtonOnIdle /\ halted /\ ~halted' => held = TwoSeconds)
  <2> SUFFICES ASSUME ButtonInv, ButtonOnIdle, halted, ~halted' PROVE held = TwoSeconds
    OBVIOUS
  <2>1. ButtonClears
    BY DEF ButtonOnIdle, ButtonHalts, OnHalt, kernelVars
  <2> QED BY <2>1 DEF ButtonClears, ButtonInv, HoldInv
<1> QED BY <1>1, <1>2, <1>3, PTL DEF Spec, UnkillNeedsHold

-----------------------------------------------------------------------------
(* Where the axes are, in the course of a G28.                               *)

\* How far behind the switch the fast approach may end.
Reach == FastSteps * (debounce_ms + 1) + Below

\* The retract leads out of there, and the rails have room for it.
HomingFits ==
  /\ retract > Reach /\ Bounce + retract <= Length
  /\ \A s \in Start : s <= Length

MotorType ==
  /\ at \in [Axes -> Int] /\ move \in [Axes -> Int] /\ lost \in [Axes -> Int]
  /\ halted \in BOOLEAN /\ alarm \in BOOLEAN /\ due \in BOOLEAN
  /\ \A m \in Axes : at[m] <= Length /\ at[m] + move[m] <= Length

SwitchType ==
  /\ debounce \in [Axes -> 0 .. debounce_ms] /\ triggered \in [Axes -> BOOLEAN]
  /\ haxis \subseteq Axes /\ todo \in Seq(SUBSET Axes) /\ homed \in [Axes -> BOOLEAN]
  /\ zero \in [Axes -> Int \cup {Nowhere}] /\ approach \in 1 .. Len(Approaches)

\* The status follows the statement of home() that main() is at.
StatusAt ==
  /\ status \in Statuses
  /\ Where = "homeFast" <=> status = "MOVING_TO_ENDSTOP_FAST"
  /\ Where = "homeBack" <=> status = "MOVING_BACK"
  /\ Where = "homeSlow" <=> status = "MOVING_TO_ENDSTOP_SLOW"
  /\ Where = "homeOff" <=> status = "BACK_OFF_HOME"
  /\ Where = "homeDone" => status = "NOT_HOMING" /\ IsIdle

\* Where the flags of the axes wait to be set: from the command to its last step.
Homes == {"homeStart", "homeFast", "homeBack", "homeSlow", "homeDone"}

\* What is left of the axes: each is homed once.
TodoInv ==
  /\ Where = "main" => haxis = {}
  /\ Where \in Homes =>
       /\ haxis # {} /\ todo # <<>>
       /\ \A i \in 1 .. Len(todo) : todo[i] \subseteq haxis
       /\ \A i, j \in 1 .. Len(todo) : todo[i] \cap todo[j] # {} => i = j
  /\ Where = "homeStart" => \A m \in haxis : \E i \in 1 .. Len(todo) : m \in todo[i]

\* A jog does not get below the switch of an axis.
JogInv ==
  Where \in {"main", "homeStart"} =>
    \A m \in Axes : move[m] < 0 =>
      /\ status = "NOT_HOMING"
      /\ m \in LimitAxes => at[m] > 0 \/ (due /\ at[m] = 0)
      /\ m \notin LimitAxes => at[m] + move[m] >= 0

\* 0, to within what a debounced switch cannot tell.
AtSwitch(m) == at[m] \in -debounce_ms .. Bounce
Late(n) == IF due THEN n ELSE 0

\* An axis whose fast approach is still to come: it has not moved.
Awaited(m) == \E i \in approach + 1 .. Len(Approaches) : m \in Approaches[i]

InFast(m) ==
  /\ move[m] <= 0
  /\ Awaited(m) => move[m] = 0 /\ at[m] >= -Below /\ ~triggered[m]
  /\ triggered[m] => move[m] = 0 /\ at[m] \in -Reach .. Bounce
  /\ move[m] # 0 => at[m] >= -Below - FastSteps * debounce[m] - Late(FastSteps)
InBack(m) == move[m] >= 0 /\ at[m] + move[m] \in 1 .. Bounce + retract
InSlow(m) ==
  IF move[m] = 0 THEN AtSwitch(m)
  ELSE move[m] < 0 /\ at[m] + move[m] <= Bounce /\ at[m] >= 1 - debounce[m] - Late(1)

\* The axes of a home() that is under way, those still to be homed, and those that are.
AxesInv ==
  /\ Where = "homeStart" => \A m \in Axes : at[m] >= -Below
  /\ ~halted /\ Where \in {"homeFast", "homeBack", "homeSlow"} =>
       /\ \A m \in Axes \ todo[1] : move[m] = 0
       /\ \A m \in todo[1] : CASE Where = "homeFast" -> InFast(m)
                               [] Where = "homeBack" -> InBack(m)
                               [] Where = "homeSlow" -> InSlow(m)
       /\ \A i \in 2 .. Len(todo) : \A m \in todo[i] : at[m] >= -Below
       /\ \A m \in haxis : AtSwitch(m) \/ \E i \in 1 .. Len(todo) : m \in todo[i]
  /\ ~halted /\ Where = "homeDone" => \A m \in haxis : AtSwitch(m)

\* What is known of an axis that counts as homed, except while it is homed anew
\* or a halt is about to end a G28 and to clear all the flags.
KnownInv ==
  \A m \in Axes : homed[m] =>
    \/ zero[m] \in -debounce_ms .. Bounce
    \/ Where \in Homes /\ (halted \/ (Where # "homeStart" /\ m \in haxis))

\* The button's variables.
ContactType ==
  /\ {pressed, served, asked} \subseteq BOOLEAN
  /\ polled \in 0 .. Polls /\ state \in States /\ unkill_timer \in 0 .. 2 ^ TimerBits - 1

HomedInv ==
  /\ MotorType /\ SwitchType /\ StatusAt /\ TodoInv /\ JogInv /\ AxesInv /\ KnownInv

LEMMA HomingConstants ==
  /\ debounce_ms \in Nat /\ Bounce \in Nat /\ Nowhere \notin Int
  /\ retract \in Nat /\ retract > 0 /\ max_travel \in Nat /\ max_travel > 0
  /\ FastSteps \in Nat /\ FastSteps > 0 /\ FastSteps * (debounce_ms + 1) \in Nat /\ Below \in Nat /\ Reach \in Nat
  /\ LimitAxes \subseteq Axes /\ Length \in Int /\ Zero \in [Axes -> Int]
<1>1. FastSteps \in Nat /\ debounce_ms \in Nat
  BY EndstopsAssumption
<1>2. FastSteps * (debounce_ms + 1) \in Nat
  BY <1>1
<1>3. Zero \in [Axes -> Int]
  BY DEF Zero
<1> QED BY <1>1, <1>2, <1>3, EndstopsAssumption, HaltingAssumption DEF Reach, Below

LEMMA ApproachConstants ==
  /\ Len(Approaches) \in Nat /\ 1 \in 1 .. Len(Approaches) /\ Len(Approaches) \in 1 .. Len(Approaches)
  /\ DOMAIN Approaches = 1 .. Len(Approaches)
<1>1. Approaches \in Seq(SUBSET Axes) /\ Approaches # <<>>
  BY EndstopsAssumption
<1> QED BY <1>1

\* The axes of the first home(), and those of later ones, which are others.
LEMMA TodoFacts ==
  ASSUME SwitchType, TodoInv, Where \in Homes
  PROVE  /\ Len(todo) \in Nat /\ Len(todo) >= 1 /\ Head(todo) = todo[1] /\ Head(todo) \in SUBSET Axes
         /\ \A i \in 1 .. Len(todo) : todo[i] \in SUBSET Axes /\ todo[i] \subseteq haxis
         /\ \A i \in 1 .. Len(todo) : i # 1 => \A m \in todo[i] : m \notin todo[1]
         /\ haxis \subseteq Axes /\ haxis # {}
<1>1. todo # <<>> /\ todo \in Seq(SUBSET Axes) /\ haxis # {} /\ haxis \subseteq Axes
  BY DEF SwitchType, TodoInv
<1>2. Len(todo) \in Nat /\ Len(todo) >= 1 /\ Head(todo) = todo[1] /\ 1 \in 1 .. Len(todo)
  BY <1>1
<1>3. \A i \in 1 .. Len(todo) : todo[i] \in SUBSET Axes
  BY <1>1
<1> QED BY <1>1, <1>2, <1>3 DEF TodoInv

\* A step that leaves axes and homing alone, except that it may halt the machine.
LEMMA OthersKeepAxes ==
  ASSUME HomedInv, Where' = Where,
         UNCHANGED <<at, due, zero, status, debounce, triggered, homeVars>>,
         halted' \in BOOLEAN, alarm' \in BOOLEAN, lost' \in [Axes -> Int],
         move' = move \/ (move' = Zero /\ halted'),
         Where \in Homes /\ halted => halted'
  PROVE  HomedInv'
<1> USE DEF HomedInv, homeVars
<1>1. MotorType'
  BY HomingConstants DEF MotorType, Zero
<1>2. SwitchType' /\ TodoInv'
  BY DEF SwitchType, TodoInv
<1>3. StatusAt'
  BY DEF StatusAt, IsIdle
<1>4. JogInv'
  BY HomingConstants DEF JogInv, Zero
<1>5. AxesInv'
  <2>1. CASE halted'
    BY <2>1 DEF AxesInv
  <2>2. CASE ~halted'
    <3>1. move' = move
      BY <2>2
    <3>2. Where \in Homes => ~halted
      BY <2>2
    <3>3. /\ UNCHANGED <<at, due, debounce, triggered, todo, approach, haxis>>
      OBVIOUS
    <3>4. \A m \in Axes : /\ InFast(m)' <=> InFast(m)
                          /\ InBack(m)' <=> InBack(m)
                          /\ InSlow(m)' <=> InSlow(m)
                          /\ AtSwitch(m)' <=> AtSwitch(m)
      BY <3>1, <3>3 DEF InFast, Awaited, InBack, InSlow, AtSwitch, Late
    <3>5. Where \in {"homeFast", "homeBack", "homeSlow", "homeDone"} => haxis \subseteq Axes /\ todo[1] \subseteq Axes
      BY TodoFacts DEF Homes
    <3> HIDE DEF HomedInv
    <3>6. AxesInv
      BY DEF HomedInv
    <3> QED BY <2>2, <3>1, <3>2, <3>3, <3>4, <3>5, <3>6 DEF AxesInv, Homes
  <2> QED BY <2>1, <2>2
<1>6. KnownInv'
  BY DEF KnownInv
<1> QED BY <1>1, <1>2, <1>3, <1>4, <1>5, <1>6

\* A millisecond of motion.
LEMMA StepBounds ==
  ASSUME MotorType, NEW m \in Axes
  PROVE  /\ Step(m) \in Int
         /\ move[m] >= 0 => 0 <= Step(m) /\ Step(m) <= move[m]
         /\ move[m] <= 0 => move[m] <= Step(m) /\ Step(m) <= 0 /\ Step(m) >= -FastSteps
         /\ status # "MOVING_TO_ENDSTOP_FAST" => Step(m) >= -1
<1>1. move[m] \in Int
  BY DEF MotorType
<1> QED BY <1>1, HomingConstants DEF Step

LEMMA MotionKeepsAxes ==
  ASSUME HomedInv, Move
  PROVE  HomedInv'
<1> USE DEF HomedInv
<1>1. /\ ~due /\ due' /\ Where' = Where
      /\ UNCHANGED <<halted, lost, alarm, zero, status, debounce, triggered, haxis, todo, approach, homed>>
  BY DEF Move, Motion, Where, threadVars, switchVars, homeVars
<1>2. \A m \in Axes : Step(m) \in Int /\ at'[m] = at[m] + Step(m) /\ move'[m] = move[m] - Step(m)
  BY StepBounds DEF Move, Motion
<1>3. \A m \in Axes : at[m] \in Int /\ move[m] \in Int /\ at[m] <= Length /\ at[m] + move[m] <= Length
  BY DEF MotorType
<1>4. MotorType'
  <2>1. at' \in [Axes -> Int] /\ move' \in [Axes -> Int]
    BY <1>2, <1>3 DEF Move, Motion
  <2>2. \A m \in Axes : at'[m] <= Length /\ at'[m] + move'[m] <= Length
    BY <1>2, <1>3, StepBounds, HomingConstants
  <2> QED BY <1>1, <2>1, <2>2 DEF MotorType
<1>5. SwitchType' /\ TodoInv' /\ KnownInv'
  BY <1>1 DEF SwitchType, TodoInv, KnownInv
<1>6. StatusAt'
  BY <1>1 DEF StatusAt, Move, Motion
<1>7. JogInv'
  <2> SUFFICES ASSUME Where \in {"main", "homeStart"}, NEW m \in Axes, move'[m] < 0
               PROVE  /\ status = "NOT_HOMING"
                      /\ m \in LimitAxes => at'[m] > 0 \/ at'[m] = 0
                      /\ m \notin LimitAxes => at'[m] + move'[m] >= 0
    BY <1>1 DEF JogInv
  <2>1. move[m] < 0
    BY <1>2, <1>3, StepBounds
  <2>2. status = "NOT_HOMING" /\ Step(m) >= -1
    BY <2>1, StepBounds DEF JogInv
  <2>3. (m \in LimitAxes => at[m] > 0) /\ (m \notin LimitAxes => at[m] + move[m] >= 0)
    BY <2>1, <1>1 DEF JogInv
  <2> QED BY <2>2, <2>3, <1>2, <1>3
<1>8. AxesInv'
  <2>1. Where = "homeStart" => \A m \in Axes : at'[m] >= -Below
    <3> SUFFICES ASSUME Where = "homeStart", NEW m \in Axes PROVE at'[m] >= -Below
      OBVIOUS
    <3>1. at[m] >= -Below
      BY DEF AxesInv
    <3>2. CASE move[m] >= 0
      BY <3>1, <3>2, <1>2, <1>3, StepBounds, HomingConstants
    <3>3. CASE move[m] < 0
      <4>1. at[m] > 0 /\ Step(m) >= -1
        BY <3>3, <1>1, <1>3, StepBounds DEF JogInv
      <4> QED BY <4>1, <1>2, <1>3, HomingConstants
    <3> QED BY <3>2, <3>3, <1>3
  <2>2. \A m \in Axes : move[m] = 0 => move'[m] = 0 /\ at'[m] = at[m]
    BY <1>2, <1>3, StepBounds
  <2>3. ASSUME ~halted, Where \in {"homeFast", "homeBack", "homeSlow"}
        PROVE  /\ \A m \in Axes \ todo[1] : move'[m] = 0
               /\ \A i \in 2 .. Len(todo) : \A m \in todo[i] : at'[m] >= -Below
               /\ \A m \in haxis : AtSwitch(m)' \/ \E i \in 1 .. Len(todo) : m \in todo[i]
    <3>1. \A m \in Axes \ todo[1] : move'[m] = 0 /\ at'[m] = at[m]
      BY <2>2, <2>3 DEF AxesInv
    <3>2. haxis \subseteq Axes /\ \A i \in 1 .. Len(todo) : todo[i] \subseteq haxis
      BY <2>3 DEF SwitchType, TodoInv, Homes
    <3>3. \A i \in 2 .. Len(todo) : \A m \in todo[i] : m \notin todo[1]
      <4>1. \A i \in 2 .. Len(todo) : 1 \in 1 .. Len(todo) /\ i \in 1 .. Len(todo) /\ i # 1
        BY DEF SwitchType
      <4> QED BY <4>1, <2>3 DEF TodoInv, Homes
    <3>4. \A i \in 2 .. Len(todo) : \A m \in todo[i] : at'[m] >= -Below
      <4>1. \A i \in 2 .. Len(todo) : i \in 1 .. Len(todo)
        OBVIOUS
      <4> QED BY <3>1, <3>2, <3>3, <4>1, <2>3 DEF AxesInv
    <3>5. todo # <<>> => 1 \in 1 .. Len(todo)
      BY DEF SwitchType
    <3> QED BY <3>1, <3>2, <3>4, <3>5, <2>3 DEF AxesInv, AtSwitch, TodoInv, Homes
  <2>4. ASSUME ~halted, Where \in {"homeFast", "homeBack", "homeSlow"}, NEW m \in todo[1], m \in Axes
        PROVE  CASE Where = "homeFast" -> InFast(m)'
                 [] Where = "homeBack" -> InBack(m)'
                 [] Where = "homeSlow" -> InSlow(m)'
    <3>1. debounce[m] \in 0 .. debounce_ms /\ triggered[m] \in BOOLEAN /\ FastSteps * debounce[m] \in Int
      <4>1. debounce[m] \in 0 .. debounce_ms /\ triggered[m] \in BOOLEAN
        BY <2>4 DEF SwitchType
      <4>2. debounce[m] \in Int
        BY <4>1, HomingConstants
      <4> QED BY <4>1, <4>2, HomingConstants
    <3>2. CASE Where = "homeFast"
      <4>1. InFast(m)
        BY <2>4, <3>2 DEF AxesInv
      <4>2. triggered'[m] = triggered[m] /\ debounce'[m] = debounce[m] /\ Late(FastSteps)' = FastSteps /\ Late(FastSteps) = 0
        BY <1>1 DEF Late
      <4>3. /\ at[m] \in Int /\ move[m] \in Int /\ move[m] <= 0 /\ Step(m) <= 0 /\ Step(m) >= move[m]
            /\ Step(m) >= -FastSteps /\ Step(m) \in Int
            /\ at'[m] = at[m] + Step(m) /\ move'[m] = move[m] - Step(m)
        BY <4>1, <2>4, <1>2, <1>3, StepBounds DEF InFast
      <4>4. triggered[m] => move'[m] = 0 /\ at'[m] \in -Reach .. Bounce
        BY <4>1, <4>3, <2>2, <2>4 DEF InFast
      <4>5. move'[m] # 0 => at'[m] >= -Below - FastSteps * debounce[m] - FastSteps
        <5> DEFINE d == FastSteps * debounce[m]
        <5>1. d \in Int /\ (move[m] # 0 => at[m] >= -Below - d)
          BY <4>1, <4>2, <3>1, <4>3, HomingConstants DEF InFast
        <5> HIDE DEF d
        <5>2. move'[m] # 0 => at'[m] >= -Below - d - FastSteps
          BY <5>1, <4>3, HomingConstants
        <5> QED BY <5>2 DEF d
      <4>6. move'[m] <= 0
        BY <4>3
      <4>7. Awaited(m)' => move'[m] = 0 /\ at'[m] >= -Below /\ ~triggered'[m]
        <5>1. Awaited(m)' <=> Awaited(m)
          BY <1>1 DEF Awaited
        <5> QED BY <5>1, <4>1, <4>2, <2>2, <2>4 DEF InFast
      <4>8. InFast(m)'
        BY <4>2, <4>4, <4>5, <4>6, <4>7 DEF InFast
      <4> QED BY <3>2, <4>8
    <3>3. CASE Where = "homeBack"
      <4>1. InBack(m)
        BY <2>4, <3>3 DEF AxesInv
      <4>2. move'[m] >= 0 /\ at'[m] + move'[m] = at[m] + move[m]
        BY <4>1, <2>4, <1>2, <1>3, StepBounds DEF InBack
      <4> QED BY <3>3, <4>1, <4>2 DEF InBack
    <3>4. CASE Where = "homeSlow"
      <4>1. InSlow(m)
        BY <2>4, <3>4 DEF AxesInv
      <4>2. debounce'[m] = debounce[m] /\ Late(1)' = 1 /\ Late(1) = 0
        BY <1>1 DEF Late
      <4>3. CASE move[m] = 0
        BY <4>3, <4>1, <2>2, <2>4, <3>4 DEF InSlow, AtSwitch
      <4>4. CASE move[m] # 0
        <5>1. move[m] < 0 /\ at[m] + move[m] <= Bounce /\ at[m] >= 1 - debounce[m]
          BY <4>1, <4>2, <4>4, <2>4, <1>3, <3>1 DEF InSlow
        <5>2. Step(m) >= -1
          BY <3>4, <2>4, StepBounds DEF StatusAt
        <5>3. /\ at'[m] + move'[m] = at[m] + move[m] /\ move'[m] <= 0
              /\ at'[m] >= 1 - debounce[m] - 1 /\ at'[m] \in Int /\ move'[m] \in Int
          BY <5>1, <5>2, <2>4, <1>2, <1>3, <3>1, StepBounds
        <5>4. CASE move'[m] = 0
          <6>1. at'[m] >= -debounce_ms /\ at'[m] <= Bounce
            BY <5>1, <5>3, <5>4, <3>1, <1>3, <2>4, HomingConstants
          <6> QED BY <6>1, <5>3, <5>4, <3>4, HomingConstants DEF InSlow, AtSwitch
        <5>5. CASE move'[m] # 0
          <6>1. move'[m] < 0 /\ at'[m] + move'[m] <= Bounce
            BY <5>1, <5>3, <5>5
          <6> QED BY <6>1, <5>3, <5>5, <4>2, <3>4 DEF InSlow
        <5> QED BY <5>4, <5>5
      <4> QED BY <4>3, <4>4
    <3> QED BY <2>4, <3>2, <3>3, <3>4
  <2>5. ASSUME Where = "homeDone" PROVE FALSE
    BY <2>5 DEF StatusAt, Move, Motion
  <2>6. todo # <<>> /\ Where \in Homes => todo[1] \subseteq Axes
    BY DEF SwitchType, TodoInv
  <2>7. Where \in {"homeFast", "homeBack", "homeSlow"} => \A m \in todo[1] : m \in Axes
    BY <2>6 DEF TodoInv, Homes
  <2> QED BY <1>1, <2>1, <2>3, <2>4, <2>5, <2>7 DEF AxesInv
<1> QED BY <1>4, <1>5, <1>6, <1>7, <1>8

\* The interrupt, while it looks for limits: an axis that reaches its limit is stopped
\* there, so that it does not get below.
LEMMA LimitsKeepAxes ==
  ASSUME HomedInv, Read, status \notin Seeking
  PROVE  HomedInv'
<1> USE DEF HomedInv
<1>1. /\ due' = FALSE /\ Where' = Where /\ UNCHANGED <<at, zero, haxis, todo, approach, homed>>
  BY DEF Read, ReadEndstops, Where, threadVars, homeVars
<1>2. PICK pin \in Readings(at) : StillTriggered(pin) \/ AllOff(pin) \/ LimitHit(pin) \/ NothingToRead(pin)
  BY DEF Read, ReadEndstops, Seek
<1>3. debounce' \in [Axes -> 0 .. debounce_ms] /\ triggered' = triggered
  <2>1. /\ debounce \in [Axes -> 0 .. debounce_ms]
        /\ \A m \in Axes : Longer(debounce[m]) \in 0 .. debounce_ms
    BY HomingConstants DEF SwitchType, Longer
  <2>2. 0 \in 0 .. debounce_ms
    BY HomingConstants
  <2>3. CASE StillTriggered(pin)
    BY <2>1, <2>2, <2>3 DEF StillTriggered
  <2>4. CASE AllOff(pin)
    BY <2>1, <2>4 DEF AllOff
  <2>5. CASE LimitHit(pin)
    <3>1. debounce' = [debounce EXCEPT ![FirstOf(Hit(pin))] = 0] /\ UNCHANGED triggered
      BY <2>5 DEF LimitHit
    <3> QED BY <3>1, <2>1, <2>2
  <2>6. CASE NothingToRead(pin)
    BY <2>1, <2>6 DEF NothingToRead, switchVars
  <2> QED BY <1>2, <2>3, <2>4, <2>5, <2>6 DEF StillTriggered, AllOff
<1>4. SwitchType' /\ TodoInv'
  BY <1>1, <1>3 DEF SwitchType, TodoInv
<1>5. CASE LimitHit(pin)
  <2>1. /\ status = "NOT_HOMING" /\ status' = "LIMIT_TRIGGERED" /\ halted' = TRUE /\ alarm' = TRUE
        /\ move' = Zero /\ lost' = [m \in Axes |-> lost[m] + move[m]]
    BY <1>5 DEF LimitHit, ImmediateHalt, StopMoving, Zero
  <2>2. MotorType'
    <3>1. move' \in [Axes -> Int] /\ \A m \in Axes : move'[m] = 0
      BY <2>1, HomingConstants DEF Zero
    <3>2. lost' \in [Axes -> Int]
      BY <2>1 DEF MotorType
    <3>3. \A m \in Axes : at[m] \in Int /\ at[m] <= Length
      BY DEF MotorType
    <3>4. \A m \in Axes : at'[m] <= Length /\ at'[m] + move'[m] <= Length
      BY <1>1, <3>1, <3>3
    <3> QED BY <2>1, <1>1, <3>1, <3>2, <3>4 DEF MotorType
  <2>3. Where # "homeDone"
    <3>1. PICK m \in LimitAxes : Moving(m)
      BY <1>5 DEF LimitHit, Hit
    <3>2. ~IsIdle
      BY <3>1, HomingConstants DEF Moving, IsIdle, Zero
    <3> QED BY <3>2 DEF StatusAt
  <2>4. StatusAt'
    BY <2>1, <2>3, <1>1 DEF StatusAt, Statuses
  <2>5. JogInv'
    BY <2>1, HomingConstants DEF JogInv, Zero
  <2>6. AxesInv'
    BY <2>1, <1>1 DEF AxesInv
  <2>7. KnownInv'
    BY <2>1, <1>1 DEF KnownInv
  <2> QED BY <1>4, <2>2, <2>4, <2>5, <2>6, <2>7
<1>6. CASE ~LimitHit(pin)
  <2>1. /\ UNCHANGED kernelVars
        /\ status' = status \/ (status = "LIMIT_TRIGGERED" /\ status' = "NOT_HOMING")
    BY <1>2, <1>6 DEF StillTriggered, AllOff, NothingToRead, switchVars
  <2>2. MotorType' /\ KnownInv'
    BY <2>1, <1>1 DEF MotorType, KnownInv, kernelVars
  <2>3. StatusAt'
    BY <2>1, <1>1 DEF StatusAt, Statuses, kernelVars, IsIdle
  <2>4. JogInv'
    <3> SUFFICES ASSUME Where \in {"main", "homeStart"}, NEW m \in Axes, move[m] < 0
                 PROVE  /\ status' = "NOT_HOMING" /\ m \in LimitAxes => at[m] > 0
                        /\ m \notin LimitAxes => at[m] + move[m] >= 0
      BY <2>1, <1>1 DEF JogInv, kernelVars
    <3>1. /\ status = "NOT_HOMING" /\ (m \in LimitAxes => at[m] > 0 \/ at[m] = 0)
          /\ m \notin LimitAxes => at[m] + move[m] >= 0
      BY DEF JogInv
    <3>2. Hit(pin) = {}
      BY <1>2, <1>6, <3>1 DEF StillTriggered, AllOff, NothingToRead
    <3>3. m \in LimitAxes => ~pin[m]
      BY <3>2, HomingConstants DEF Hit, Moving
    <3>4. at[m] = 0 => pin[m]
      BY DEF Readings
    <3> QED BY <2>1, <3>1, <3>3, <3>4
  <2>5. AxesInv'
    <3>1. Where \notin {"homeFast", "homeSlow"}
      BY DEF StatusAt, Seeking
    <3> QED BY <3>1, <2>1, <1>1 DEF AxesInv, InBack, AtSwitch, kernelVars
  <2> QED BY <1>4, <2>2, <2>3, <2>4, <2>5
<1> QED BY <1>5, <1>6

\* The interrupt, while an axis seeks its switch: it is stopped when the switch has
\* been closed for debounce_ms, and has not got further below 0 than in that time.
LEMMA SeekKeepsAxes ==
  ASSUME HomedInv, Read, status \in Seeking
  PROVE  HomedInv'
<1> USE DEF HomedInv
<1>1. due' = FALSE /\ Where' = Where /\ UNCHANGED <<at, zero, haxis, todo, approach, homed>> /\ due
  BY DEF Read, ReadEndstops, Where, threadVars, homeVars, Seeking
<1>2. PICK pin \in Readings(at) : Seek(pin)
  BY DEF Read, ReadEndstops, Seeking, StillTriggered, AllOff, LimitHit, NothingToRead
<1>3. Where \in {"homeFast", "homeSlow"} /\ status' = status /\ halted' = halted /\ alarm' = alarm
  BY <1>2 DEF StatusAt, Seeking, Seek
<1>4. \A m \in Axes :
        /\ at[m] \in Int /\ move[m] \in Int /\ lost[m] \in Int /\ at[m] <= Length
        /\ at[m] + move[m] <= Length /\ debounce[m] \in 0 .. debounce_ms /\ triggered[m] \in BOOLEAN
        /\ pin[m] \in BOOLEAN /\ (at[m] <= 0 => pin[m]) /\ (at[m] > Bounce => ~pin[m])
  BY DEF MotorType, SwitchType, Readings
<1>5. \A m \in Axes :
        /\ debounce'[m] = IF ~Moving(m) THEN debounce[m] ELSE IF pin[m] THEN Longer(debounce[m]) ELSE 0
        /\ triggered'[m] = (triggered[m] \/ m \in Stopped(pin))
        /\ move'[m] = IF m \in Stopped(pin) THEN 0 ELSE move[m]
  BY <1>2 DEF Seek, StopMoving
<1>6. MotorType'
  <2>1. move' \in [Axes -> Int] /\ lost' \in [Axes -> Int]
    BY <1>2, <1>4 DEF Seek, StopMoving
  <2>2. \A m \in Axes : at[m] + move'[m] <= Length
    BY <1>4, <1>5
  <2> QED BY <1>1, <1>3, <2>1, <2>2 DEF MotorType
<1>7. \A m \in Axes : debounce'[m] \in 0 .. debounce_ms
  BY <1>4, <1>5, HomingConstants DEF Longer
<1>8. SwitchType'
  <2>1. debounce' \in [Axes -> 0 .. debounce_ms]
    BY <1>2, <1>5, <1>7 DEF Seek
  <2>2. triggered' \in [Axes -> BOOLEAN]
    BY <1>2, <1>4 DEF Seek
  <2> QED BY <1>1, <2>1, <2>2 DEF SwitchType
<1>9. TodoInv' /\ KnownInv' /\ StatusAt' /\ JogInv'
  BY <1>1, <1>3 DEF TodoInv, KnownInv, StatusAt, JogInv
<1>10. AxesInv'
  <2> SUFFICES ASSUME ~halted PROVE AxesInv'
    BY <1>1, <1>3 DEF AxesInv
  <2>1. todo # <<>> /\ todo[1] \subseteq Axes /\ \A m \in todo[1] : m \in Axes
    <3>1. todo # <<>> => 1 \in 1 .. Len(todo)
      BY DEF SwitchType
    <3>2. haxis \subseteq Axes /\ todo # <<>> /\ \A i \in 1 .. Len(todo) : todo[i] \subseteq haxis
      BY <1>3 DEF SwitchType, TodoInv, Homes
    <3> QED BY <3>1, <3>2
  <2>2. \A m \in Axes \ todo[1] : move'[m] = 0
    <3>1. \A m \in Axes \ todo[1] : move[m] = 0
      BY <1>3 DEF AxesInv
    <3> QED BY <3>1, <1>5
  <2>3. ASSUME NEW m \in todo[1]
        PROVE  CASE Where = "homeFast" -> InFast(m)' [] Where = "homeBack" -> InBack(m)'
                 [] Where = "homeSlow" -> InSlow(m)'
    <3>1. m \in Axes /\ Late(1) = 1 /\ Late(1)' = 0 /\ Late(FastSteps) = FastSteps /\ Late(FastSteps)' = 0
      BY <2>1, <1>1 DEF Late
    <3>2. \/ m \in Stopped(pin) /\ move'[m] = 0 /\ move[m] # 0 /\ triggered'[m] /\ at[m] <= Bounce
             /\ debounce[m] = debounce_ms
          \/ move[m] = 0 /\ move'[m] = 0 /\ triggered'[m] = triggered[m]
          \/ move[m] # 0 /\ move'[m] = move[m] /\ triggered'[m] = triggered[m] /\ pin[m]
             /\ debounce'[m] = debounce[m] + 1
          \/ move[m] # 0 /\ move'[m] = move[m] /\ triggered'[m] = triggered[m] /\ at[m] >= 1
             /\ debounce'[m] = 0
      BY <3>1, <1>4, <1>5, HomingConstants DEF Stopped, Moving, Longer
    <3>3. CASE Where = "homeFast"
      <4>1. InFast(m)
        BY <3>3 DEF AxesInv
      <4> DEFINE d == FastSteps * debounce[m]
      <4>2. d \in Nat /\ (move[m] # 0 => at[m] >= -Below - d - FastSteps)
        BY <4>1, <3>1, <1>4, HomingConstants DEF InFast
      <4>3. debounce[m] = debounce_ms => Reach = d + FastSteps + Below
        BY HomingConstants DEF Reach
      <4>4. debounce'[m] = debounce[m] + 1 => FastSteps * debounce'[m] = d + FastSteps
        BY <3>1, <1>4, HomingConstants
      <4>5. debounce'[m] = 0 => FastSteps * debounce'[m] = 0
        BY HomingConstants
      <4>6. /\ move[m] <= 0 /\ (triggered[m] => move[m] = 0 /\ at[m] \in -Reach .. Bounce)
            /\ at[m] \in Int /\ move[m] \in Int /\ at'[m] = at[m]
        BY <4>1, <3>1, <1>1, <1>4 DEF InFast
      <4> HIDE DEF d
      <4>7. move'[m] <= 0
        BY <3>2, <4>6
      <4>8. triggered'[m] => move'[m] = 0 /\ at'[m] \in -Reach .. Bounce
        <5>1. CASE m \in Stopped(pin) /\ move'[m] = 0 /\ move[m] # 0 /\ at[m] <= Bounce /\ debounce[m] = debounce_ms
          BY <5>1, <4>2, <4>3, <4>6, HomingConstants
        <5> QED BY <5>1, <3>2, <4>6
      <4>9. move'[m] # 0 => at'[m] >= -Below - FastSteps * debounce'[m]
        <5>1. CASE move[m] # 0 /\ debounce'[m] = debounce[m] + 1
          BY <5>1, <4>2, <4>4, <4>6, HomingConstants
        <5>2. CASE move[m] # 0 /\ at[m] >= 1 /\ debounce'[m] = 0
          BY <5>2, <4>5, <4>6, HomingConstants
        <5> QED BY <5>1, <5>2, <3>2
      <4>10. InFast(m)'
        <5>1. FastSteps * debounce'[m] \in Int
          BY <1>7, <3>1, HomingConstants
        <5>2. move'[m] # 0 => at'[m] >= -Below - FastSteps * debounce'[m] - 0
          BY <4>9, <5>1, HomingConstants
        <5>3. Awaited(m)' => move'[m] = 0 /\ at'[m] >= -Below /\ ~triggered'[m]
          <6>1. Awaited(m)' <=> Awaited(m)
            BY <1>1 DEF Awaited
          <6> QED BY <6>1, <4>1, <4>6, <3>2 DEF InFast
        <5> QED BY <4>7, <4>8, <5>2, <5>3, <3>1 DEF InFast
      <4> QED BY <3>3, <4>10
    <3>4. CASE Where = "homeSlow"
      <4>1. /\ IF move[m] = 0 THEN AtSwitch(m)
               ELSE move[m] < 0 /\ at[m] + move[m] <= Bounce /\ at[m] >= 1 - debounce[m] - 1
            /\ at[m] \in Int /\ move[m] \in Int /\ debounce[m] \in 0 .. debounce_ms /\ at'[m] = at[m]
        BY <3>1, <3>4, <1>1, <1>4 DEF AxesInv, InSlow
      <4>2. CASE move'[m] = 0
        <5>1. at[m] \in -debounce_ms .. Bounce
          BY <3>2, <4>1, <4>2, HomingConstants DEF AtSwitch
        <5> QED BY <5>1, <4>1, <4>2, <3>4 DEF InSlow, AtSwitch
      <4>3. CASE move'[m] # 0
        <5>1. move'[m] = move[m] /\ move[m] < 0 /\ at[m] + move[m] <= Bounce /\ at[m] >= 1 - debounce'[m] - 0
          BY <3>2, <4>1, <4>3
        <5> QED BY <5>1, <4>1, <4>3, <3>1, <3>4 DEF InSlow
      <4> QED BY <4>2, <4>3
    <3> QED BY <1>3, <3>3, <3>4
  <2> QED BY <1>1, <1>3, <2>2, <2>3 DEF AxesInv, AtSwitch
<1> QED BY <1>6, <1>8, <1>9, <1>10

\* What a wait that has ended leaves.
LEMMA WaitedFacts ==
  ASSUME MotorType, NEW l \in Waits, Waited(l)
  PROVE  /\ Where = l /\ move = Zero /\ \A m \in Axes : move[m] = 0 /\ at[m] \in Int /\ lost[m] \in Int
         /\ \A l2 \in Waits \cup {"homeDone"} : pc' = l2 => Where' = l2
<1>1. pc = l /\ l \notin InIdle
  BY DEF Waited, Waits, InIdle, Stores
<1>2. move = Zero
  BY DEF Waited, IsIdle
<1>3. \A m \in Axes : move[m] = 0 /\ at[m] \in Int /\ lost[m] \in Int
  BY <1>2 DEF Zero, MotorType
<1>4. \A l2 \in Waits \cup {"homeDone"} : l2 \notin InIdle
  BY DEF Waits, InIdle, Stores
<1> QED BY <1>1, <1>2, <1>3, <1>4 DEF Where

\* G28 begins: nothing is known yet, but that no axis is far below its switch.
LEMMA CommandKeepsAxes ==
  ASSUME HomedInv, ControlType, StartHome
  PROVE  HomedInv'
<1> USE DEF HomedInv
<1>1. /\ pc = "main" /\ Where = "main" /\ Where' = "homeStart" /\ ~halted
      /\ UNCHANGED <<halted, move, lost, alarm, at, due, zero, status, debounce, triggered, approach, homed>>
      /\ \A m \in Axes : at[m] >= -Below
  BY DEF StartHome, HomeCommand, Goto, Where, InIdle, Stores, kernelVars, switchVars
<1>2. PICK axes \in (SUBSET Axes) \ {{}} : haxis' = axes /\ todo' \in Orders(axes)
  BY DEF StartHome, HomeCommand
<1>3. /\ todo' \in Seq(SUBSET Axes) /\ todo' # <<>>
      /\ \A i \in 1 .. Len(todo') : todo'[i] \subseteq axes
      /\ \A i, j \in 1 .. Len(todo') : todo'[i] \cap todo'[j] # {} => i = j
      /\ \A m \in axes : \E i \in 1 .. Len(todo') : m \in todo'[i]
  <2>1. CASE todo' \in InOrder(axes)
    <3>1. PICK f \in Bijection(1 .. Cardinality(axes), axes) : todo' = [i \in DOMAIN f |-> {f[i]}]
      BY <2>1 DEF InOrder
    <3> DEFINE n == Cardinality(axes)
    <3>2. n \in Nat
      <4>1. IsFiniteSet(Axes)
        BY KernelAssumption, FS_Interval DEF Axes
      <4> QED BY <4>1, FS_Subset, FS_CardinalityType
    <3>3. /\ f \in [1 .. n -> axes] /\ DOMAIN f = 1 .. n
          /\ \A i, j \in 1 .. n : f[i] = f[j] => i = j
          /\ \A m \in axes : \E i \in 1 .. n : f[i] = m
      BY <3>1 DEF Bijection, Injection, Surjection, IsInjective
    <3> HIDE DEF n
    <3>4. todo' = [i \in 1 .. n |-> {f[i]}] /\ \A i \in 1 .. n : {f[i]} \in SUBSET Axes
      BY <3>1, <3>3
    <3>5. todo' \in Seq(SUBSET Axes) /\ Len(todo') = n
      BY <3>2, <3>4
    <3>6. \A i \in 1 .. n : todo'[i] = {f[i]}
      BY <3>4
    <3>7. todo' # <<>>
      <4>1. PICK m \in axes : TRUE
        OBVIOUS
      <4>2. PICK i \in 1 .. n : f[i] = m
        BY <3>3
      <4> QED BY <4>2, <3>2, <3>5
    <3> QED BY <3>3, <3>5, <3>6, <3>7
  <2>2. CASE todo' = <<axes>>
    <3>1. todo' = <<axes>>
      BY <2>2
    <3>2. /\ todo' \in Seq(SUBSET Axes) /\ Len(todo') = 1 /\ todo'[1] = axes
      BY <3>1
    <3> QED BY <3>2
  <2> QED BY <1>2, <2>1, <2>2 DEF Orders
<1>4. MotorType'
  BY <1>1 DEF MotorType
<1>5. SwitchType'
  BY <1>1, <1>2, <1>3 DEF SwitchType
<1>6. StatusAt'
  BY <1>1 DEF StatusAt
<1>7. TodoInv'
  BY <1>1, <1>2, <1>3 DEF TodoInv
<1>8. JogInv' /\ AxesInv'
  BY <1>1 DEF JogInv, AxesInv
<1>9. KnownInv'
  BY <1>1 DEF KnownInv, Homes
<1> QED BY <1>4, <1>5, <1>6, <1>7, <1>8, <1>9

LEMMA ApproachIsDown == -max_travel \in Int /\ -max_travel <= 0
BY HomingConstants

\* A fast approach moves axes of the home(), and none that a later one moves.
LEMMA ApproachMoves ==
  ASSUME NEW axes \in SUBSET Axes, NEW n \in 1 .. Len(Approaches), Approach(axes, n)
  PROVE  /\ move' \in [Axes -> Int] /\ approach' = n
         /\ \A m \in Axes : move'[m] \in {-max_travel, 0} /\ move'[m] \in Int /\ move'[m] <= 0
         /\ \A m \in Axes : move'[m] # 0 => m \in axes /\ m \in Approaches[n]
         /\ \A m \in Axes : Awaited(m)' => move'[m] = 0
<1>1. move' = [m \in Axes |-> IF m \in axes \cap Approaches[n] /\ ~halted THEN -max_travel ELSE 0] /\ approach' = n
  BY DEF Approach, DeltaMove
<1>2. \A m \in Axes :
        move'[m] = 0 \/ (move'[m] = -max_travel /\ m \in axes /\ m \in Approaches[n])
  BY <1>1
<1>3. ASSUME NEW m \in Axes, Awaited(m)' PROVE m \notin Approaches[n]
  <2>1. PICK i \in n + 1 .. Len(Approaches) : m \in Approaches[i]
    BY <1>1, <1>3 DEF Awaited
  <2>2. i \in DOMAIN Approaches /\ n \in DOMAIN Approaches /\ i # n
    BY ApproachConstants
  <2> QED BY <2>1, <2>2, EndstopsAssumption
<1>4. \A m \in Axes : move'[m] \in {-max_travel, 0} /\ move'[m] \in Int /\ move'[m] <= 0
  BY <1>2, ApproachIsDown
<1>5. move' \in [Axes -> Int]
  BY <1>1, <1>4
<1>6. \A m \in Axes : Awaited(m)' => move'[m] = 0
  BY <1>2, <1>3
<1> QED BY <1>1, <1>2, <1>4, <1>5, <1>6

\* home() begins for the first of the axes that are left.
LEMMA HomeStartKeepsAxes ==
  ASSUME HomedInv, PositionInv, HomeStart
  PROVE  HomedInv'
<1> USE DEF HomedInv
<1>1. Waited("homeStart") /\ "homeStart" \in Waits /\ pc' = "homeFast" /\ "homeFast" \in Waits
  BY DEF HomeStart, BeginHome, Goto, Waits
<1>2. /\ Where = "homeStart" /\ Where' = "homeFast"
      /\ \A m \in Axes : move[m] = 0 /\ at[m] \in Int /\ lost[m] \in Int
  BY <1>1, WaitedFacts
<1>3. /\ debounce' = Zero /\ triggered' = [m \in Axes |-> FALSE]
      /\ status' = "MOVING_TO_ENDSTOP_FAST" /\ Approach(Head(todo), 1)
      /\ lost' = Zero
      /\ zero' = [m \in Axes |-> IF m \in haxis THEN Nowhere
                                 ELSE IF zero[m] = Nowhere THEN Nowhere ELSE zero[m] - lost[m]]
      /\ UNCHANGED <<todo, homed, halted, alarm, at, due, haxis>>
  BY DEF HomeStart, BeginHome, HomeKeeps, ResetAxes
<1>4. /\ Head(todo) = todo[1] /\ todo[1] \in SUBSET Axes /\ Len(todo) \in Nat /\ Len(todo) >= 1
      /\ \A i \in 1 .. Len(todo) : todo[i] \in SUBSET Axes
      /\ haxis \subseteq Axes
  BY <1>2, TodoFacts DEF Homes
<1>5. /\ move' \in [Axes -> Int] /\ approach' = 1 /\ 1 \in 1 .. Len(Approaches)
      /\ \A m \in Axes : move'[m] \in {-max_travel, 0} /\ move'[m] \in Int /\ move'[m] <= 0
      /\ \A m \in Axes : move'[m] # 0 => m \in todo[1]
      /\ \A m \in Axes : Awaited(m)' => move'[m] = 0
  <2>1. Approach(todo[1], 1) /\ 1 \in 1 .. Len(Approaches)
    BY <1>3, <1>4, ApproachConstants
  <2> QED BY <2>1, <1>4, ApproachMoves
<1>6. MotorType'
  <2>1. \A m \in Axes : at'[m] <= Length /\ at'[m] + move'[m] <= Length
    <3>1. \A m \in Axes : at[m] <= Length /\ move'[m] <= 0 /\ move'[m] \in Int
      BY <1>5 DEF MotorType
    <3> QED BY <3>1, <1>2, <1>3, HomingConstants
  <2> QED BY <1>3, <1>5, <2>1, HomingConstants DEF MotorType
<1>7. SwitchType'
  <2>1. debounce' \in [Axes -> 0 .. debounce_ms]
    BY <1>3, HomingConstants DEF Zero
  <2>2. zero' \in [Axes -> Int \cup {Nowhere}]
    <3>1. \A m \in Axes : zero[m] \in Int \cup {Nowhere} /\ (zero[m] # Nowhere => zero[m] - lost[m] \in Int)
      BY <1>2 DEF SwitchType
    <3> QED BY <3>1, <1>3
  <2> QED BY <1>3, <1>5, <2>1, <2>2 DEF SwitchType
<1>8. StatusAt' /\ TodoInv' /\ JogInv'
  BY <1>2, <1>3 DEF StatusAt, Statuses, TodoInv, JogInv, Homes
<1>9. AxesInv'
  <2> SUFFICES ASSUME ~halted PROVE AxesInv'
    BY <1>2, <1>3 DEF AxesInv
  <2>1. \A m \in todo[1] : InFast(m)'
    <3> SUFFICES ASSUME NEW m \in todo[1] PROVE InFast(m)'
      OBVIOUS
    <3>1. /\ m \in Axes /\ move'[m] \in {-max_travel, 0} /\ at'[m] = at[m] /\ ~triggered'[m] /\ debounce'[m] = 0
          /\ Awaited(m)' => move'[m] = 0
      BY <1>3, <1>4, <1>5 DEF Zero
    <3>2. at[m] >= -Below /\ at[m] \in Int
      BY <1>2, <3>1 DEF AxesInv
    <3>3. FastSteps * debounce'[m] = 0 /\ Late(FastSteps)' \in Nat
      BY <3>1, HomingConstants DEF Late
    <3>4. move'[m] <= 0 /\ at'[m] >= -Below - FastSteps * debounce'[m] - Late(FastSteps)'
      BY <3>1, <3>2, <3>3, HomingConstants
    <3> QED BY <3>1, <3>2, <3>4 DEF InFast
  <2>2. \A m \in Axes \ todo[1] : move'[m] = 0
    BY <1>5
  <2>3. \A i \in 2 .. Len(todo) : \A m \in todo[i] : at[m] >= -Below
    <3>1. \A i \in 2 .. Len(todo) : i \in 1 .. Len(todo)
      BY <1>4
    <3> QED BY <3>1, <1>2, <1>4 DEF AxesInv
  <2>4. \A m \in haxis : \E i \in 1 .. Len(todo) : m \in todo[i]
    BY <1>2 DEF TodoInv
  <2> QED BY <1>2, <1>3, <2>1, <2>2, <2>3, <2>4 DEF AxesInv
<1>10. KnownInv'
  <2> SUFFICES ASSUME ~halted, NEW m \in Axes, homed[m], m \notin haxis
               PROVE  zero'[m] \in -debounce_ms .. Bounce
    BY <1>2, <1>3 DEF KnownInv, Homes
  <2>1. lost[m] = 0
    <3>1. lost = Zero
      BY <1>2 DEF PositionInv
    <3> QED BY <3>1 DEF Zero
  <2>2. zero[m] \in -debounce_ms .. Bounce /\ zero[m] # Nowhere
    BY <1>2, HomingConstants DEF KnownInv
  <2> QED BY <2>1, <2>2, <1>3
<1> QED BY <1>6, <1>7, <1>8, <1>9, <1>10

\* An axis has not found its switch.
LEMMA HomeFailsKeepsAxes ==
  ASSUME HomedInv, HomeFails
  PROVE  HomedInv'
<1> USE DEF HomedInv
<1>1. Waited("homeFast") /\ "homeFast" \in Waits /\ pc' = "homeDone"
  BY DEF HomeFails, Approached, Goto, Waits
<1>2. Where = "homeFast" /\ Where' = "homeDone" /\ move = Zero
  BY <1>1, WaitedFacts
<1>3. /\ status' = "NOT_HOMING" /\ halted' = TRUE /\ alarm' = FALSE /\ move' = move /\ lost' = lost
      /\ UNCHANGED <<at, due, zero, debounce, triggered, haxis, todo, approach, homed>>
  BY <1>2 DEF HomeFails, OnHalt, IsIdle, homeVars
<1>4. MotorType' /\ SwitchType'
  BY <1>3 DEF MotorType, SwitchType
<1>5. StatusAt' /\ TodoInv' /\ JogInv' /\ AxesInv' /\ KnownInv'
  BY <1>2, <1>3 DEF StatusAt, Statuses, IsIdle, TodoInv, JogInv, AxesInv, KnownInv, Homes
<1> QED BY <1>4, <1>5

\* What the steps of home() between its waits have in common.
LEMMA HomeStepKeepsAxes ==
  ASSUME HomedInv, Where \in {"homeFast", "homeBack", "homeSlow"},
         Where' \in {"homeFast", "homeBack", "homeSlow"},
         NEW l \in Waits, Waited(l),
         lost' = lost \/ lost' = Zero,
         SwitchType', StatusAt', TodoInv', AxesInv',
         move' \in [Axes -> Int], \A m \in Axes : at[m] + move'[m] <= Length,
         UNCHANGED <<halted, alarm, at, due, zero, haxis, homed>>
  PROVE  HomedInv'
<1> USE DEF HomedInv
<1>1. MotorType'
  BY HomingConstants DEF MotorType
<1>2. JogInv' /\ KnownInv'
  BY DEF JogInv, KnownInv, Homes
<1> QED BY <1>1, <1>2

\* The next approach: its axes have not moved, and the others do not.
LEMMA HomeApproachKeepsAxes ==
  ASSUME HomedInv, HomeApproach
  PROVE  HomedInv'
<1> USE DEF HomedInv
<1>1. Waited("homeFast") /\ "homeFast" \in Waits /\ UNCHANGED <<pc, back>>
  BY DEF HomeApproach, threadVars, Waits
<1>2. /\ Where = "homeFast" /\ Where' = "homeFast"
      /\ \A m \in Axes : move[m] = 0 /\ at[m] \in Int /\ lost[m] \in Int
  BY <1>1, WaitedFacts DEF Where
<1>3. /\ approach < Len(Approaches) /\ Approach(Head(todo), approach + 1)
      /\ UNCHANGED <<lost, zero, status, debounce, triggered, todo, homed, halted, alarm, at, due, haxis>>
  BY DEF HomeApproach, HomeKeeps
<1>4. Head(todo) = todo[1] /\ todo[1] \in SUBSET Axes
  BY <1>2, TodoFacts DEF Homes
<1>5. approach \in 1 .. Len(Approaches) /\ approach + 1 \in 1 .. Len(Approaches)
  BY <1>3, ApproachConstants DEF SwitchType
<1>6. /\ move' \in [Axes -> Int] /\ approach' = approach + 1
      /\ \A m \in Axes : move'[m] \in Int /\ move'[m] <= 0
      /\ \A m \in Axes : move'[m] # 0 => m \in todo[1] /\ m \in Approaches[approach + 1]
      /\ \A m \in Axes : Awaited(m)' => move'[m] = 0
  <2>1. Approach(todo[1], approach + 1)
    BY <1>3, <1>4
  <2> QED BY <2>1, <1>4, <1>5, ApproachMoves
<1>7. \A m \in Axes : at[m] + move'[m] <= Length
  <2>1. \A m \in Axes : at[m] <= Length /\ move'[m] <= 0 /\ move'[m] \in Int
    BY <1>6 DEF MotorType
  <2> QED BY <2>1, <1>2, HomingConstants
<1>8. SwitchType' /\ StatusAt' /\ TodoInv'
  BY <1>2, <1>3, <1>5, <1>6 DEF SwitchType, StatusAt, TodoInv
<1>9. AxesInv'
  <2> SUFFICES ASSUME ~halted PROVE AxesInv'
    BY <1>2, <1>3 DEF AxesInv
  <2>1. \A m \in todo[1] : InFast(m)'
    <3> SUFFICES ASSUME NEW m \in todo[1] PROVE InFast(m)'
      OBVIOUS
    <3>1. m \in Axes /\ InFast(m)
      BY <1>2, <1>4 DEF AxesInv
    <3>2. Awaited(m)' => Awaited(m)
      BY <1>5, <1>6, ApproachConstants DEF Awaited
    <3>3. move'[m] # 0 => Awaited(m)
      <4>1. approach + 1 \in approach + 1 .. Len(Approaches)
        BY <1>5, ApproachConstants
      <4> QED BY <4>1, <1>6, <3>1 DEF Awaited
    <3>4. Awaited(m) => at[m] >= -Below /\ ~triggered[m]
      BY <3>1 DEF InFast
    <3>5. triggered[m] => move'[m] = 0 /\ at[m] \in -Reach .. Bounce
      BY <3>1, <3>3, <3>4 DEF InFast
    <3>6. FastSteps * debounce[m] \in Nat /\ Late(FastSteps)' \in Nat
      <4>1. debounce[m] \in Nat
        BY <3>1, HomingConstants DEF SwitchType
      <4> QED BY <4>1, HomingConstants DEF Late
    <3>7. move'[m] # 0 => at[m] >= -Below - FastSteps * debounce[m] - Late(FastSteps)'
      BY <3>1, <3>3, <3>4, <3>6, <1>2, HomingConstants
    <3>8. move'[m] <= 0
      BY <3>1, <1>6
    <3> QED BY <1>3, <1>6, <3>1, <3>2, <3>4, <3>5, <3>7, <3>8 DEF InFast
  <2>2. \A m \in Axes \ todo[1] : move'[m] = 0
    BY <1>6
  <2> QED BY <1>2, <1>3, <2>1, <2>2 DEF AxesInv, AtSwitch
<1> QED BY <1>1, <1>2, <1>3, <1>6, <1>7, <1>8, <1>9, HomeStepKeepsAxes

\* Every axis has found its switch, and leaves it again.
LEMMA HomeBackKeepsAxes ==
  ASSUME HomingFits, HomedInv, HomeBack
  PROVE  HomedInv'
<1> USE DEF HomedInv
<1>1. Waited("homeFast") /\ "homeFast" \in Waits /\ pc' = "homeBack" /\ "homeBack" \in Waits
  BY DEF HomeBack, Approached, Goto, Waits
<1>2. /\ Where = "homeFast" /\ Where' = "homeBack"
      /\ \A m \in Axes : move[m] = 0 /\ at[m] \in Int /\ lost[m] \in Int
  BY <1>1, WaitedFacts
<1>3. /\ \A m \in Head(todo) : triggered[m]
      /\ lost' = Zero /\ status' = "MOVING_BACK" /\ DeltaMove(Head(todo), retract)
      /\ UNCHANGED <<zero, debounce, triggered, todo, approach, homed, halted, alarm, at, due, haxis>>
  BY DEF HomeBack, Found, HomeKeeps
<1>4. /\ Head(todo) = todo[1] /\ todo[1] \in SUBSET Axes
      /\ haxis \subseteq Axes
  BY <1>2, TodoFacts DEF Homes
<1>5. /\ move' \in [Axes -> Int]
      /\ \A m \in Axes : move'[m] = IF m \in todo[1] /\ ~halted THEN retract ELSE 0
  BY <1>3, <1>4, HomingConstants DEF DeltaMove
<1>6. SwitchType' /\ StatusAt' /\ TodoInv'
  BY <1>2, <1>3 DEF SwitchType, StatusAt, Statuses, TodoInv, Homes
<1>7. ~halted => \A m \in todo[1] : at[m] \in -Reach .. Bounce
  BY <1>2, <1>3, <1>4 DEF AxesInv, InFast
<1>8. \A m \in Axes : at[m] + move'[m] <= Length
  <2> SUFFICES ASSUME NEW m \in Axes PROVE at[m] + move'[m] <= Length
    OBVIOUS
  <2>1. at[m] <= Length
    BY DEF MotorType
  <2>2. CASE m \in todo[1] /\ ~halted
    BY <2>2, <1>2, <1>5, <1>7, HomingConstants DEF HomingFits
  <2>3. CASE ~(m \in todo[1] /\ ~halted)
    BY <2>1, <2>3, <1>2, <1>5, HomingConstants
  <2> QED BY <2>2, <2>3
<1>9. AxesInv'
  <2> SUFFICES ASSUME ~halted PROVE AxesInv'
    BY <1>2, <1>3 DEF AxesInv
  <2>1. \A m \in todo[1] : InBack(m)'
    <3>1. \A m \in todo[1] : m \in Axes /\ move'[m] = retract /\ at'[m] = at[m] /\ at[m] \in Int
      BY <1>2, <1>3, <1>4, <1>5
    <3>2. \A m \in todo[1] : at[m] + retract \in 1 .. Bounce + retract
      BY <1>7, <3>1, HomingConstants DEF HomingFits
    <3> QED BY <3>1, <3>2, HomingConstants DEF InBack
  <2>2. \A m \in Axes \ todo[1] : move'[m] = 0
    BY <1>5
  <2> QED BY <1>2, <1>3, <2>1, <2>2 DEF AxesInv, AtSwitch
<1> QED BY <1>1, <1>2, <1>3, <1>5, <1>6, <1>8, <1>9, HomeStepKeepsAxes

\* The slow approach begins above the switch.
LEMMA HomeSlowKeepsAxes ==
  ASSUME HomedInv, HomeSlow
  PROVE  HomedInv'
<1> USE DEF HomedInv
<1>1. Waited("homeBack") /\ "homeBack" \in Waits /\ pc' = "homeSlow" /\ "homeSlow" \in Waits
  BY DEF HomeSlow, Goto, Waits
<1>2. /\ Where = "homeBack" /\ Where' = "homeSlow"
      /\ \A m \in Axes : move[m] = 0 /\ at[m] \in Int /\ lost[m] \in Int
  BY <1>1, WaitedFacts
<1>3. /\ status' = "MOVING_TO_ENDSTOP_SLOW" /\ DeltaMove(Head(todo), -2 * retract)
      /\ UNCHANGED <<lost, zero, debounce, triggered, todo, approach, homed, halted, alarm, at, due, haxis>>
  BY DEF HomeSlow, HomeKeeps
<1>4. Head(todo) = todo[1] /\ todo[1] \in SUBSET Axes /\ haxis \subseteq Axes
  BY <1>2, TodoFacts DEF Homes
<1>5. /\ move' \in [Axes -> Int]
      /\ \A m \in Axes : move'[m] = IF m \in todo[1] /\ ~halted THEN -2 * retract ELSE 0
  <2>1. -2 * retract \in Int
    BY HomingConstants
  <2> QED BY <2>1, <1>3, <1>4 DEF DeltaMove
<1>6. SwitchType' /\ StatusAt' /\ TodoInv'
  BY <1>2, <1>3 DEF SwitchType, StatusAt, Statuses, TodoInv, Homes
<1>7. \A m \in Axes : at[m] + move'[m] <= Length
  <2>1. \A m \in Axes : at[m] <= Length /\ move'[m] <= 0 /\ move'[m] \in Int
    BY <1>5, HomingConstants DEF MotorType
  <2> QED BY <2>1, <1>2, HomingConstants
<1>8. AxesInv'
  <2> SUFFICES ASSUME ~halted PROVE AxesInv'
    BY <1>2, <1>3 DEF AxesInv
  <2>1. \A m \in todo[1] : InSlow(m)'
    <3> SUFFICES ASSUME NEW m \in todo[1] PROVE InSlow(m)'
      OBVIOUS
    <3>1. /\ m \in Axes /\ move'[m] = -2 * retract /\ at'[m] = at[m] /\ at[m] \in Int
          /\ debounce'[m] = debounce[m] /\ debounce[m] \in 0 .. debounce_ms
      BY <1>2, <1>3, <1>4, <1>5 DEF SwitchType
    <3>2. at[m] + move[m] \in 1 .. Bounce + retract
      BY <1>2 DEF AxesInv, InBack
    <3>3. Late(1)' \in Nat
      BY DEF Late
    <3>4. move'[m] < 0 /\ at'[m] + move'[m] <= Bounce /\ at'[m] >= 1 - debounce'[m] - Late(1)'
      BY <1>2, <3>1, <3>2, <3>3, HomingConstants
    <3> QED BY <3>1, <3>4, HomingConstants DEF InSlow
  <2>2. \A m \in Axes \ todo[1] : move'[m] = 0
    BY <1>5
  <2> QED BY <1>2, <1>3, <2>1, <2>2 DEF AxesInv, AtSwitch
<1> QED BY <1>1, <1>2, <1>3, <1>5, <1>6, <1>7, <1>8, HomeStepKeepsAxes

\* At the end of the slow approach the axes are at their switches.
LEMMA ApproachEnds ==
  ASSUME HomedInv, Waited("homeSlow"), ~halted
  PROVE  \A m \in haxis : AtSwitch(m) \/ \E i \in 2 .. Len(todo) : m \in todo[i]
<1>1. "homeSlow" \in Waits
  BY DEF Waits
<1>2. Where = "homeSlow" /\ \A m \in Axes : move[m] = 0
  BY <1>1, WaitedFacts DEF HomedInv
<1>3. todo[1] \in SUBSET Axes /\ Len(todo) \in Nat
  BY <1>2, TodoFacts DEF Homes, HomedInv
<1>4. \A m \in todo[1] : AtSwitch(m)
  BY <1>2, <1>3 DEF HomedInv, AxesInv, InSlow
<1>5. \A i \in 1 .. Len(todo) : i = 1 \/ i \in 2 .. Len(todo)
  BY <1>3
<1> QED BY <1>2, <1>4, <1>5 DEF HomedInv, AxesInv

\* The next of the axes.
LEMMA HomeNextKeepsAxes ==
  ASSUME HomedInv, HomeNext
  PROVE  HomedInv'
<1> USE DEF HomedInv
<1>1. Waited("homeSlow") /\ "homeSlow" \in Waits /\ pc' = "homeFast" /\ "homeFast" \in Waits
  BY DEF HomeNext, BeginHome, Goto, Waits
<1>2. /\ Where = "homeSlow" /\ Where' = "homeFast"
      /\ \A m \in Axes : move[m] = 0 /\ at[m] \in Int /\ lost[m] \in Int
  BY <1>1, WaitedFacts
<1>3. /\ ~halted /\ Len(todo) > 1 /\ lost' = Zero /\ todo' = Tail(todo)
      /\ debounce' = Zero /\ triggered' = [m \in Axes |-> FALSE]
      /\ status' = "MOVING_TO_ENDSTOP_FAST" /\ Approach(Head(todo'), 1)
      /\ UNCHANGED <<zero, homed, halted, alarm, at, due, haxis>>
  BY DEF HomeNext, BeginHome, HomeKeeps
<1>4. /\ Len(todo) \in Nat /\ \A i \in 1 .. Len(todo) : todo[i] \in SUBSET Axes /\ todo[i] \subseteq haxis
      /\ haxis \subseteq Axes /\ haxis # {} /\ todo \in Seq(SUBSET Axes)
  BY <1>2, TodoFacts DEF Homes, SwitchType
<1>5. /\ todo' \in Seq(SUBSET Axes) /\ Len(todo') = Len(todo) - 1 /\ todo' # <<>>
      /\ \A i \in 1 .. Len(todo) - 1 : todo'[i] = todo[i + 1]
      /\ Head(todo') = todo'[1] /\ todo'[1] = todo[2]
  BY <1>3, <1>4
<1>6. /\ 2 \in 1 .. Len(todo) /\ \A i \in 1 .. Len(todo') : i + 1 \in 2 .. Len(todo) /\ i + 1 \in 1 .. Len(todo)
  BY <1>3, <1>4, <1>5
<1>7. todo'[1] \in SUBSET Axes /\ \A i \in 1 .. Len(todo') : todo'[i] = todo[i + 1]
  BY <1>4, <1>5, <1>6
<1>8. /\ move' \in [Axes -> Int] /\ approach' = 1 /\ 1 \in 1 .. Len(Approaches)
      /\ \A m \in Axes : move'[m] \in {-max_travel, 0} /\ move'[m] \in Int /\ move'[m] <= 0
      /\ \A m \in Axes : move'[m] # 0 => m \in todo'[1]
      /\ \A m \in Axes : Awaited(m)' => move'[m] = 0
  <2>1. Approach(todo'[1], 1) /\ 1 \in 1 .. Len(Approaches)
    BY <1>3, <1>5, ApproachConstants
  <2> QED BY <2>1, <1>7, ApproachMoves
<1>9. \A m \in Axes : at[m] + move'[m] <= Length
  <2>1. \A m \in Axes : at[m] <= Length /\ move'[m] <= 0 /\ move'[m] \in Int
    BY <1>8 DEF MotorType
  <2> QED BY <2>1, <1>2, HomingConstants
<1>10. SwitchType' /\ StatusAt'
  <2>1. debounce' \in [Axes -> 0 .. debounce_ms]
    BY <1>3, HomingConstants DEF Zero
  <2> QED BY <2>1, <1>2, <1>3, <1>5, <1>8 DEF SwitchType, StatusAt, Statuses
<1>11. TodoInv'
  <2>1. \A i \in 1 .. Len(todo') : todo'[i] \subseteq haxis
    BY <1>4, <1>6, <1>7
  <2>2. \A i, j \in 1 .. Len(todo) : todo[i] \cap todo[j] # {} => i = j
    BY <1>2 DEF TodoInv, Homes
  <2>3. \A i, j \in 1 .. Len(todo') : todo'[i] \cap todo'[j] # {} => i = j
    <3> SUFFICES ASSUME NEW i \in 1 .. Len(todo'), NEW j \in 1 .. Len(todo'), todo'[i] \cap todo'[j] # {}
                 PROVE  i = j
      OBVIOUS
    <3>1. i + 1 = j + 1
      BY <2>2, <1>6, <1>7
    <3> QED BY <3>1
  <2> QED BY <1>2, <1>3, <1>4, <1>5, <2>1, <2>3 DEF TodoInv
<1>12. AxesInv'
  <2>1. \A i \in 2 .. Len(todo) : \A m \in todo[i] : m \in Axes /\ at[m] >= -Below
    <3>1. \A i \in 2 .. Len(todo) : i \in 1 .. Len(todo)
      OBVIOUS
    <3> QED BY <3>1, <1>2, <1>3, <1>4 DEF AxesInv
  <2>2. \A m \in todo'[1] : InFast(m)'
    <3> SUFFICES ASSUME NEW m \in todo'[1] PROVE InFast(m)'
      OBVIOUS
    <3>1. /\ m \in Axes /\ move'[m] \in {-max_travel, 0} /\ at'[m] = at[m] /\ ~triggered'[m] /\ debounce'[m] = 0
          /\ Awaited(m)' => move'[m] = 0
      BY <1>3, <1>7, <1>8 DEF Zero
    <3>2. at[m] >= -Below /\ at[m] \in Int
      <4>1. 2 \in 2 .. Len(todo) /\ m \in todo[2]
        BY <1>3, <1>4, <1>5
      <4> QED BY <4>1, <2>1, <3>1, <1>2
    <3>3. FastSteps * debounce'[m] = 0 /\ Late(FastSteps)' \in Nat
      BY <3>1, HomingConstants DEF Late
    <3>4. move'[m] <= 0 /\ at'[m] >= -Below - FastSteps * debounce'[m] - Late(FastSteps)'
      BY <3>1, <3>2, <3>3, HomingConstants
    <3> QED BY <3>1, <3>2, <3>4 DEF InFast
  <2>3. \A m \in Axes \ todo'[1] : move'[m] = 0
    BY <1>8
  <2>4. \A i \in 2 .. Len(todo') : \A m \in todo'[i] : at'[m] >= -Below
    <3>1. \A i \in 2 .. Len(todo') : i \in 1 .. Len(todo')
      OBVIOUS
    <3> QED BY <3>1, <2>1, <1>3, <1>6, <1>7
  <2>5. \A m \in haxis : AtSwitch(m)' \/ \E i \in 1 .. Len(todo') : m \in todo'[i]
    <3> SUFFICES ASSUME NEW m \in haxis, ~AtSwitch(m) PROVE \E i \in 1 .. Len(todo') : m \in todo'[i]
      BY <1>3 DEF AtSwitch
    <3>1. PICK k \in 2 .. Len(todo) : m \in todo[k]
      BY <1>1, <1>3, ApproachEnds
    <3>2. k - 1 \in 1 .. Len(todo') /\ todo'[k - 1] = todo[k]
      <4>1. k - 1 \in 1 .. Len(todo) - 1 /\ (k - 1) + 1 = k
        BY <1>4
      <4> QED BY <4>1, <1>5
    <3> QED BY <3>1, <3>2
  <2> QED BY <1>2, <1>3, <2>2, <2>3, <2>4, <2>5 DEF AxesInv
<1> QED BY <1>1, <1>2, <1>3, <1>8, <1>9, <1>10, <1>11, <1>12, HomeStepKeepsAxes

\* The last of them.
LEMMA HomeEndsKeepsAxes ==
  ASSUME HomedInv, HomeEnds
  PROVE  HomedInv'
<1> USE DEF HomedInv
<1>1. Waited("homeSlow") /\ "homeSlow" \in Waits /\ pc' = "homeDone"
  BY DEF HomeEnds, Goto, Waits
<1>2. Where = "homeSlow" /\ Where' = "homeDone" /\ move = Zero
  BY <1>1, WaitedFacts
<1>3. /\ halted \/ Len(todo) = 1
      /\ lost' = Zero /\ status' = "NOT_HOMING"
      /\ UNCHANGED <<move, zero, debounce, triggered, todo, approach, homed, halted, alarm, at, due, haxis>>
  BY DEF HomeEnds, HomeKeeps
<1>4. MotorType' /\ SwitchType'
  BY <1>3, HomingConstants DEF MotorType, SwitchType
<1>5. StatusAt' /\ TodoInv' /\ JogInv' /\ KnownInv'
  BY <1>2, <1>3 DEF StatusAt, Statuses, IsIdle, TodoInv, JogInv, KnownInv, Homes
<1>6. AxesInv'
  <2>1. ~halted => \A m \in haxis : AtSwitch(m)
    BY <1>1, <1>3, ApproachEnds
  <2> QED BY <2>1, <1>2, <1>3 DEF AxesInv, AtSwitch
<1> QED BY <1>4, <1>5, <1>6

\* A G28 that was halted: nothing counts as homed.
LEMMA HomeHaltedKeepsAxes ==
  ASSUME HomedInv, HomeHalted
  PROVE  HomedInv'
<1> USE DEF HomedInv
<1>1. /\ Where = "homeDone" /\ Where' = "main"
      /\ homed' = [m \in Axes |-> FALSE] /\ zero' = [m \in Axes |-> Nowhere]
      /\ haxis' = {} /\ todo' = <<>>
      /\ UNCHANGED <<halted, move, lost, alarm, at, due, status, debounce, triggered, approach>>
  BY DEF HomeHalted, CommandEnds, Where, InIdle, Stores, kernelVars, switchVars
<1>2. MotorType' /\ SwitchType'
  BY <1>1 DEF MotorType, SwitchType
<1>3. StatusAt' /\ TodoInv' /\ AxesInv' /\ KnownInv'
  BY <1>1 DEF StatusAt, Statuses, TodoInv, AxesInv, KnownInv, Homes
<1>4. JogInv'
  BY <1>1 DEF JogInv, StatusAt, IsIdle, Zero
<1> QED BY <1>2, <1>3, <1>4

\* The axes are at their switches: that is where their positions become 0.
LEMMA HomedKeepsAxes ==
  ASSUME HomingFits, HomedInv, PositionInv, Homed
  PROVE  HomedInv'
<1> USE DEF HomedInv
<1>1. /\ ~halted /\ pc = "homeDone" /\ Where = "homeDone" /\ Where' = "homeOff"
      /\ homed' = [m \in Axes |-> homed[m] \/ m \in haxis]
      /\ zero' = [m \in Axes |-> IF m \in haxis THEN at[m]
                                 ELSE IF zero[m] = Nowhere THEN Nowhere ELSE zero[m] - lost[m]]
      /\ lost' = Zero /\ status' = "BACK_OFF_HOME"
      /\ UNCHANGED <<debounce, triggered, todo, approach, halted, alarm, at, due, haxis>>
  BY DEF Homed, ResetAxes, BackOff, Goto, HomeKeeps, Where, InIdle, Stores
<1>2. PICK pin \in Readings(at) : DeltaMove({m \in haxis \cap LimitAxes : pin[m]}, retract)
  BY DEF Homed, BackOff
<1>3. \A m \in Axes : at[m] \in Int /\ at[m] <= Length /\ lost[m] \in Int /\ zero[m] \in Int \cup {Nowhere}
  BY DEF MotorType, SwitchType
<1>4. haxis \subseteq Axes /\ \A m \in haxis : at[m] \in -debounce_ms .. Bounce
  BY <1>1 DEF AxesInv, AtSwitch, SwitchType
<1>5. MotorType'
  <2>1. \A m \in Axes : move'[m] = 0 \/ (m \in haxis /\ move'[m] = retract)
    BY <1>2 DEF DeltaMove
  <2>2. move' \in [Axes -> Int]
    BY <1>2, HomingConstants DEF DeltaMove
  <2>3. \A m \in Axes : at[m] + move'[m] <= Length
    BY <2>1, <1>3, <1>4, HomingConstants DEF HomingFits
  <2> QED BY <1>1, <2>2, <2>3, HomingConstants DEF MotorType
<1>6. SwitchType'
  <2>1. homed' \in [Axes -> BOOLEAN]
    BY <1>1
  <2>2. zero' \in [Axes -> Int \cup {Nowhere}]
    <3>1. \A m \in Axes : zero[m] # Nowhere => zero[m] - lost[m] \in Int
      BY <1>3
    <3> QED BY <3>1, <1>1, <1>3
  <2> QED BY <1>1, <2>1, <2>2 DEF SwitchType
<1>7. StatusAt' /\ TodoInv' /\ JogInv' /\ AxesInv'
  BY <1>1 DEF StatusAt, Statuses, TodoInv, JogInv, AxesInv, Homes
<1>8. KnownInv'
  <2> SUFFICES ASSUME NEW m \in Axes, homed'[m] PROVE zero'[m] \in -debounce_ms .. Bounce
    BY DEF KnownInv
  <2>1. CASE m \in haxis
    BY <2>1, <1>1, <1>4
  <2>2. CASE m \notin haxis
    <3>1. lost[m] = 0
      <4>1. lost = Zero
        BY <1>1 DEF PositionInv
      <4> QED BY <4>1 DEF Zero
    <3>2. homed[m] /\ zero[m] \in -debounce_ms .. Bounce
      BY <2>2, <1>1 DEF KnownInv
    <3>3. zero[m] # Nowhere
      BY <3>2, HomingConstants
    <3> QED BY <2>2, <3>1, <3>2, <3>3, <1>1
  <2> QED BY <2>1, <2>2
<1> QED BY <1>5, <1>6, <1>7, <1>8

LEMMA HomeOffKeepsAxes ==
  ASSUME HomedInv, HomeOff
  PROVE  HomedInv'
<1> USE DEF HomedInv
<1>1. Waited("homeOff") /\ "homeOff" \in Waits
  BY DEF HomeOff, Waits
<1>2. Where = "homeOff" /\ \A m \in Axes : move[m] = 0
  BY <1>1, WaitedFacts
<1>3. /\ Where' = "main" /\ status' = "NOT_HOMING" /\ haxis' = {} /\ todo' = <<>>
      /\ UNCHANGED <<halted, move, lost, alarm, at, due, zero, debounce, triggered, approach, homed>>
  BY DEF HomeOff, CommandEnds, Where, InIdle, Stores, kernelVars
<1>4. MotorType' /\ SwitchType'
  BY <1>3 DEF MotorType, SwitchType
<1>5. StatusAt' /\ TodoInv' /\ JogInv' /\ AxesInv' /\ KnownInv'
  BY <1>2, <1>3 DEF StatusAt, Statuses, TodoInv, JogInv, AxesInv, KnownInv, Homes
<1> QED BY <1>4, <1>5

\* A jog of the user.
LEMMA JogKeepsAxes ==
  ASSUME HomedInv, Jog
  PROVE  HomedInv'
<1> USE DEF HomedInv
<1>1. /\ Where = "main" /\ Where' = "main"
      /\ UNCHANGED <<halted, lost, alarm, at, due, zero, status, debounce, triggered, haxis, todo, approach, homed>>
  BY DEF Jog, Where, InIdle, Stores, endstopVars, switchVars, homeVars
<1>2. PICK steps \in Jogs :
        /\ \A m \in Axes :
             /\ at[m] + steps[m] <= Length
             /\ steps[m] < 0 => at[m] > 0 /\ status # "LIMIT_TRIGGERED"
             /\ m \notin LimitAxes => at[m] + steps[m] >= 0 \/ steps[m] >= 0
        /\ move' = steps
  BY DEF Jog
<1>3. steps \in [Axes -> Int] /\ \A m \in Axes : at[m] \in Int /\ steps[m] \in Int
  BY HaltingAssumption DEF MotorType
<1>4. MotorType' /\ SwitchType'
  BY <1>1, <1>2, <1>3 DEF MotorType, SwitchType
<1>5. status \in {"NOT_HOMING", "LIMIT_TRIGGERED"}
  BY <1>1 DEF StatusAt, Statuses
<1>6. JogInv'
  BY <1>1, <1>2, <1>3, <1>5 DEF JogInv
<1>7. StatusAt' /\ TodoInv' /\ AxesInv' /\ KnownInv'
  BY <1>1, <1>5 DEF StatusAt, TodoInv, AxesInv, KnownInv, Homes
<1> QED BY <1>4, <1>6, <1>7

\* In a G28 the button does not clear a halt: the user has not held it for so long.
LEMMA ButtonLeavesHoming ==
  ASSUME TwoSeconds > 0, ButtonInv, ButtonOnIdle, Where \in Homes, halted
  PROVE  halted'
<1>1. pc = "idle" /\ back # "main"
  BY DEF ButtonOnIdle, Where, InIdle, Homes
<1>2. ~In("UNKILL_FIRE")
  BY <1>1 DEF ButtonInv, CalmInv, Fires, Timing, In
<1> QED BY <1>2 DEF ButtonOnIdle, ButtonHalts, ButtonClears, OnHalt, kernelVars

LEMMA HaltFacts ==
  ASSUME MotorType, OnHalt
  PROVE  /\ halted' = TRUE /\ alarm' \in BOOLEAN /\ lost' \in [Axes -> Int]
         /\ move' = move \/ move' = Zero
BY HomingConstants DEF OnHalt, MotorType

LEMMA AxesKept ==
  ASSUME HomingFits, TwoSeconds > 0, ButtonInv, PositionInv, HomedInv, [Next]_vars
  PROVE  HomedInv'
<1>0. /\ halted \in BOOLEAN /\ alarm \in BOOLEAN /\ lost \in [Axes -> Int] /\ MotorType /\ ControlType
  BY DEF HomedInv, MotorType, PositionInv
<1>1. CASE Thread
  <2>1. CASE NoCommand
    <3>1. /\ Where' = Where /\ UNCHANGED <<halted, alarm, lost, move>>
          /\ UNCHANGED <<at, due, zero, status, debounce, triggered, homeVars>>
      BY <2>1 DEF NoCommand, Where, InIdle, Stores, kernelVars, endstopVars, switchVars
    <3> QED BY <3>1, <1>0, OthersKeepAxes
  <2>2. CASE ButtonOnIdle /\ UNCHANGED endstopVars
    <3>1. /\ Where' = Where
          /\ UNCHANGED <<at, due, zero, status, debounce, triggered, homeVars>>
      BY <2>2, <1>0 DEF ButtonOnIdle, Goto, Where, InIdle, endstopVars, switchVars
    <3>2. /\ halted' \in BOOLEAN /\ alarm' \in BOOLEAN /\ lost' \in [Axes -> Int]
          /\ move' = move \/ (move' = Zero /\ halted')
      <4>1. CASE ButtonHalts
        BY <4>1, <1>0, HaltFacts DEF ButtonHalts
      <4>2. CASE ButtonClears
        BY <4>2, <1>0, HomingConstants DEF ButtonClears, ClearHalt
      <4>3. CASE UNCHANGED kernelVars
        BY <4>3, <1>0 DEF kernelVars
      <4> QED BY <2>2, <4>1, <4>2, <4>3 DEF ButtonOnIdle
    <3> QED BY <2>2, <3>1, <3>2, ButtonLeavesHoming, OthersKeepAxes
  <2>3. CASE LimitsOnIdle
    <3>1. /\ Where' = Where
          /\ UNCHANGED <<at, due, zero, status, debounce, triggered, homeVars>>
      BY <2>3, <1>0 DEF ControlType, LimitsOnIdle, LimitsNothing, HaltLoad, HaltStore, HaltEvent, OnLoad, OnStore,
         Goto, Return, IdleKeeps, Where, InIdle, Stores, Waits
    <3>2. OnHalt \/ UNCHANGED kernelVars
      BY <2>3 DEF LimitsOnIdle, LimitsNothing, HaltLoad, HaltStore, HaltEvent, OnLoad, OnStore
    <3>3. CASE OnHalt
      BY <3>1, <3>3, <1>0, HaltFacts, OthersKeepAxes
    <3>4. CASE UNCHANGED kernelVars
      <4>1. UNCHANGED <<halted, alarm, lost, move>>
        BY <3>4 DEF kernelVars
      <4> QED BY <3>1, <4>1, <1>0, OthersKeepAxes
    <3> QED BY <3>2, <3>3, <3>4
  <2>4. CASE Homing /\ pc # "main"
    <3>1. CASE Waiting
      <4>1. /\ Where' = Where /\ UNCHANGED <<halted, alarm, lost, move>>
            /\ UNCHANGED <<at, due, zero, status, debounce, triggered, homeVars>>
        BY <3>1 DEF Waiting, Where, InIdle, Stores, Waits, kernelVars, endstopVars, switchVars
      <4> QED BY <4>1, <1>0, OthersKeepAxes
    <3>2. ~HomeCommand
      BY <2>4 DEF HomeCommand
    <3> QED BY <2>4, <3>1, <3>2, HomeStartKeepsAxes, HomeApproachKeepsAxes, HomeFailsKeepsAxes, HomeBackKeepsAxes,
         HomeSlowKeepsAxes,
         HomeNextKeepsAxes, HomeEndsKeepsAxes, HomeHaltedKeepsAxes, HomedKeepsAxes, HomeOffKeepsAxes DEF Homing
  <2> QED BY <1>1, <2>1, <2>2, <2>3, <2>4 DEF Thread
<1>2. CASE User
  <2>1. CASE Jog
    BY <2>1, JogKeepsAxes
  <2>2. CASE Unhalt
    <3>1. /\ Where = "main" /\ Where' = Where /\ halted' = FALSE /\ lost' = Zero /\ UNCHANGED <<alarm, move>>
          /\ UNCHANGED <<at, due, zero, status, debounce, triggered, homeVars>>
      BY <2>2 DEF Unhalt, ClearHalt, Where, InIdle, Stores, endstopVars, switchVars
    <3>2. Where \notin Homes
      BY <3>1 DEF Homes
    <3> QED BY <3>1, <3>2, <1>0, HomingConstants, OthersKeepAxes
  <2>3. CASE StartHome
    BY <2>3, <1>0, CommandKeepsAxes
  <2> QED BY <1>2, <2>1, <2>2, <2>3 DEF User
<1>3. CASE OtherHalt
  <2>1. /\ Where' = Where /\ OnHalt
        /\ UNCHANGED <<at, due, zero, status, debounce, triggered, homeVars>>
    BY <1>3 DEF OtherHalt, Where, threadVars, endstopVars, switchVars
  <2> QED BY <2>1, <1>0, HaltFacts, OthersKeepAxes
<1>4. CASE Contact \/ Tick \/ UNCHANGED vars
  <2>1. /\ Where' = Where /\ UNCHANGED <<halted, alarm, lost, move>>
        /\ UNCHANGED <<at, due, zero, status, debounce, triggered, homeVars>>
    BY <1>4 DEF Contact, Tick, vars, Where, threadVars, kernelVars, endstopVars, switchVars
  <2> QED BY <2>1, <1>0, OthersKeepAxes
<1>5. CASE Move
  BY <1>5, MotionKeepsAxes
<1>6. CASE Read
  BY <1>6, LimitsKeepAxes, SeekKeepsAxes
<1> QED BY <1>1, <1>2, <1>3, <1>4, <1>5, <1>6 DEF Next

\* The types of the button's variables.
LEMMA ContactKept ==
  ASSUME ContactType, halted \in BOOLEAN, halted' \in BOOLEAN, [Next]_vars
  PROVE  ContactType'
<1>1. Polls \in Nat /\ 2 ^ TimerBits \in Nat \ {0}
  BY ButtonAssumption, TimerAssumption
<1>2. pressed \in BOOLEAN /\ served \in BOOLEAN /\ asked \in BOOLEAN
  BY DEF ContactType
<1>3. (asked /\ ~halted') \in BOOLEAN /\ (~halted) \in BOOLEAN
  BY <1>2
<1>4. CASE Tick
  <2>1. polled' \in 0 .. Polls
    BY <1>1, <1>4 DEF ContactType, Tick, ButtonTick
  <2>2. 0 \in 0 .. 2 ^ TimerBits - 1 /\ (unkill_timer + 1) % 2 ^ TimerBits \in 0 .. 2 ^ TimerBits - 1
    <3>1. unkill_timer + 1 \in Int
      BY <1>1 DEF ContactType
    <3> QED BY <1>1, <3>1
  <2>3. unkill_timer' \in 0 .. 2 ^ TimerBits - 1
    BY <1>4, <2>2 DEF ContactType, Tick, ButtonTick, Idle, KillButtonDown, KilledButtonDown, KilledButtonUp,
       UnkillButtonDown, UnkillTiming, UnkillFire, UnkilledButtonDown, TimerKept
  <2>4. state' \in States
    BY <1>4 DEF ContactType, Tick, ButtonTick, Idle, KillButtonDown, KilledButtonDown, KilledButtonUp,
       UnkillButtonDown, UnkillTiming, UnkillFire, UnkilledButtonDown, To, States
  <2>5. pressed' = pressed /\ asked' = asked /\ served' = FALSE
    BY <1>4 DEF Tick, ButtonTick
  <2> QED BY <1>2, <2>1, <2>3, <2>4, <2>5 DEF ContactType
<1>5. CASE Contact
  <2>1. pressed' \in BOOLEAN /\ polled' = 0 /\ asked' \in BOOLEAN
        /\ served' = served /\ state' = state /\ unkill_timer' = unkill_timer
    BY <1>3, <1>5 DEF Contact, PressButton, ReleaseButton, buttonVars
  <2>2. 0 \in 0 .. Polls
    BY <1>1
  <2> QED BY <1>2, <2>1, <2>2 DEF ContactType
<1>6. CASE ~Tick /\ ~Contact
  <2>1. /\ UNCHANGED <<state, unkill_timer, pressed, polled>>
        /\ served' = served \/ served' = TRUE
        /\ asked' = asked \/ asked' = (asked /\ ~halted')
    BY <1>6 DEF Next, Thread, NoCommand, ButtonOnIdle, User, Jog, Unhalt, StartHome, OtherHalt, Move, Read,
       Answered, buttonVars, contactVars, vars
  <2>2. served' \in BOOLEAN /\ asked' \in BOOLEAN
    BY <1>2, <1>3, <2>1
  <2> QED BY <1>2, <2>1, <2>2 DEF ContactType
<1> QED BY <1>4, <1>5, <1>6

\* An axis counts as homed only if its position is 0 where its switch closes, for
\* every number of axes and homing order, every rail, speed and debounce for which the
\* retract leads away from the switch, and whatever halts a G28 on the way.
THEOREM HomedAxesAreKnown ==
  ASSUME HomingFits, TwoSeconds > 0, ~toggle_enable, ~SlowThread, ~Hasty
  PROVE  Spec => []HomedIsTrue
<1> DEFINE Inv == ButtonInv /\ PositionInv /\ HomedInv /\ ContactType
<1>1. Init => Inv
  <2> SUFFICES ASSUME Init PROVE Inv
    OBVIOUS
  <2>1. /\ pc = "main" /\ back = "main" /\ halted = FALSE /\ alarm = FALSE /\ move = Zero /\ lost = Zero
        /\ due = FALSE /\ status = "NOT_HOMING" /\ debounce = Zero
        /\ triggered = [m \in Axes |-> FALSE] /\ haxis = {} /\ todo = <<>> /\ approach = Len(Approaches)
        /\ homed = [m \in Axes |-> FALSE] /\ zero = [m \in Axes |-> Nowhere] /\ at \in [Axes -> Start]
    BY DEF Init, KernelInit, EndstopsInit
  <2>2. Where = "main"
    BY <2>1 DEF Where, InIdle, Stores
  <2>3. MotorType
    <3>1. \A m \in Axes : at[m] \in Int /\ at[m] <= Length /\ move[m] = 0
      BY <2>1, HaltingAssumption DEF HomingFits, Zero
    <3>2. at \in [Axes -> Int]
      BY <2>1, <3>1
    <3>3. \A m \in Axes : at[m] + move[m] <= Length
      BY <3>1
    <3> QED BY <2>1, <3>1, <3>2, <3>3, HomingConstants DEF MotorType
  <2>4. SwitchType
    <3>1. debounce \in [Axes -> 0 .. debounce_ms]
      BY <2>1, HomingConstants DEF Zero
    <3> QED BY <2>1, <3>1, ApproachConstants DEF SwitchType
  <2>5. HomedInv
    <3>1. StatusAt /\ TodoInv /\ AxesInv /\ KnownInv
      BY <2>1, <2>2 DEF StatusAt, Statuses, TodoInv, AxesInv, KnownInv, Homes
    <3>2. JogInv
      BY <2>1 DEF JogInv, Zero
    <3> QED BY <2>3, <2>4, <3>1, <3>2 DEF HomedInv
  <2>6. ContactType
    <3>1. 0 \in 0 .. 2 ^ TimerBits - 1 /\ Polls \in 0 .. Polls
      BY ButtonAssumption, TimerAssumption
    <3> QED BY <3>1 DEF Init, ButtonInit, ContactType, States
  <2> QED BY <2>5, <2>6, HoldInit, PositionInit
<1>2. Inv /\ [Next]_vars => Inv'
  <2> SUFFICES ASSUME Inv, [Next]_vars PROVE Inv'
    OBVIOUS
  <2>1. ButtonInv' /\ PositionInv' /\ HomedInv'
    BY HoldStep, PositionStep, AxesKept
  <2>2. halted \in BOOLEAN /\ halted' \in BOOLEAN
    BY <2>1 DEF HomedInv, MotorType
  <2> QED BY <2>1, <2>2, ContactKept
<1>3. Inv => HomedIsTrue
  <2> SUFFICES ASSUME Inv PROVE HomedIsTrue
    OBVIOUS
  <2>1. TypeOK
    BY ApproachConstants DEF ButtonInv, ButtonType, ControlType, InIdle, Stores, HomedInv, MotorType, SwitchType, StatusAt,
       ContactType, TypeOK
  <2>2. ASSUME haxis = {}, NEW m \in Axes, homed[m]
        PROVE  zero[m] # Nowhere /\ zero[m] \in -debounce_ms .. Bounce
    <3>1. zero[m] \in -debounce_ms .. Bounce
      BY <2>2 DEF HomedInv, KnownInv, TodoInv
    <3> QED BY <3>1, HomingConstants
  <2> QED BY <2>1, <2>2 DEF HomedIsTrue
<1> QED BY <1>1, <1>2, <1>3, PTL DEF Spec

=============================================================================
