------------------------- MODULE TemperatureControl -------------------------
(***************************************************************************)
(* One heater (TemperatureControl.cpp).  The interrupt of TIMER2 reads the *)
(* sensor and drives the heater (ReadTick); the thread sets targets, halts *)
(* and watches for a runaway every eight seconds, one statement that       *)
(* touches shared state at a time.  pc, stack, ops and reg are as in       *)
(* MotionQueue: ops are the writes the thread has under way to the bit     *)
(* fields that share a word with temp_violated, reg is the word as loaded. *)
(***************************************************************************)
EXTENDS Integers, Sequences

CONSTANTS
  Degree,                          \* the model's units to one degree
  Readings,                        \* what the sensor may read, Inf if it is broken
  Targets,                         \* S values of M104 and M109
  Preset1, Preset2,                \* what S1 and S2 stand for
  MaxTemp, MinTemp,                \* max_temp, min_temp
  Hysteresis, BangBang,            \* hysteresis, use_bangbang
  ErrorRange, RunawayRange,        \* runaway_error_range, runaway_range
  HeatingTimeout, CoolingTimeout,  \* in units of 8 seconds, as stored
  TimerSize,                       \* values that runaway_timer can take, 2^9 in the code
  Commands,                        \* what the main loop does in this instance
  QueueBusy                        \* may the move queue be busy when M104 comes?

Inf == 9999
UNDEFINED == -1

ASSUME TemperatureAssumption ==
  /\ Degree \in Nat \ {0}
  /\ Readings \subseteq Int /\ Targets \subseteq Nat
  /\ MaxTemp \in Nat /\ MinTemp \in Int /\ MaxTemp < Inf
  /\ Preset1 \in Nat /\ Preset2 \in Nat
  /\ Hysteresis \in Nat /\ ErrorRange \in Nat /\ RunawayRange \in 0 .. 63 * Degree
  /\ TimerSize \in Nat \ {0}
  /\ HeatingTimeout \in 0 .. TimerSize - 1
  /\ CoolingTimeout \in 0 .. TimerSize - 1
  /\ Commands \subseteq {"M104", "M109", "kill", "set"}
  /\ BangBang \in BOOLEAN /\ QueueBusy \in BOOLEAN

VARIABLES
  target,            \* target_temperature
  o, heater,         \* the output as displayed (0 or more); is the pin driven?
  last_reading,
  runaway_state,
  word,              \* the bit fields that share a word with temp_violated
  halted,            \* Kernel::halted
  flag_1s,           \* SlowTicker::flag_1s_flag
  pc, stack, ops, reg,
  arg,               \* the M104 or M109 under way
  late,              \* history: the target was last set while halted
  relit,             \* history: a tick inside on_halt left the heater on
  skewed,            \* history: a tick inside on_halt left o on, and the heater is off
  forgotten          \* history: a store of the word undid violated

heatVars   == <<target, o, heater, last_reading, late, relit, skewed>>
threadVars == <<pc, stack, ops, reg, arg, forgotten>>
vars == <<heatVars, runaway_state, word, halted, flag_1s, threadVars>>

-----------------------------------------------------------------------------
RunawayState == {"NOT_HEATING", "HEATING_UP", "COOLING_DOWN", "TARGET_TEMPERATURE_REACHED"}
Timer == 0 .. TimerSize - 1
Word == [timer : Timer, tick : 0 .. 7, waiting : BOOLEAN, active : BOOLEAN, violated : BOOLEAN]
MaxSeconds == 1    \* bound: seconds that may pass before ON_IDLE sees them

Init ==
  /\ target = UNDEFINED /\ o = 0 /\ heater = FALSE /\ last_reading = 0
  /\ runaway_state = "NOT_HEATING"
  /\ word = [timer |-> 0, tick |-> 0, waiting |-> FALSE, active |-> TRUE, violated |-> FALSE]
  /\ halted = FALSE /\ flag_1s = 0
  /\ pc = "loop" /\ stack = <<>> /\ ops = <<>> /\ reg = <<>>
  /\ arg = [s |-> 0, by |-> "M104"] /\ late = FALSE
  /\ relit = FALSE /\ skewed = FALSE /\ forgotten = FALSE

-----------------------------------------------------------------------------
(* TIMER2 *)

\* pid_process: the outputs it may leave.  The PID sum is not modelled.
PidProcess(temp) ==
  IF ~BangBang THEN {0, 255}
  ELSE IF temp > target + Hysteresis /\ o > 0 THEN {0}
  ELSE IF temp < target - Hysteresis /\ o <= 0 THEN {255}
  ELSE {o}

BadReading(temp) == temp = Inf \/ temp < MinTemp \/ temp > MaxTemp

\* thermistor_read_tick, wherever the thread is.  In on_halt a tick may set o
\* again after it was reset, or the pin.
ReadTick ==
  /\ \E temp \in Readings :
       /\ last_reading' = temp
       /\ \/ /\ target > 2 * Degree /\ BadReading(temp)
             /\ word' = [word EXCEPT !.violated = TRUE]
             /\ target' = UNDEFINED /\ o' = 0 /\ heater' = FALSE
          \/ /\ target > 2 * Degree /\ ~BadReading(temp)
             /\ o' \in PidProcess(temp)
             /\ heater' = (IF BangBang /\ o' = o THEN heater ELSE o' > 0)
             /\ UNCHANGED <<target, word>>
          \/ target <= 2 * Degree /\ UNCHANGED <<target, o, heater, word>>
  /\ relit' = IF pc = "haltTarget" THEN heater' ELSE relit
  /\ skewed' = IF pc = "haltPin" THEN o' > 0 ELSE skewed /\ UNCHANGED <<o, heater>>
  /\ UNCHANGED <<late, runaway_state, halted, flag_1s, threadVars>>

\* SlowTicker::tick, once a second.
SecondPasses ==
  /\ flag_1s < MaxSeconds
  /\ flag_1s' = flag_1s + 1
  /\ UNCHANGED <<heatVars, runaway_state, word, halted, threadVars>>

-----------------------------------------------------------------------------
(* The thread *)

At(l) == pc = l /\ ops = <<>>
Goto(l)      == pc' = l /\ stack' = stack
Call(l, ret) == pc' = l /\ stack' = <<ret>> \o stack
Return       == pc' = Head(stack) /\ stack' = Tail(stack)

Set(field, value) == [f |-> field, v |-> value]
Write(writes) == ops' = writes
NoWrite == ops' = ops

HeatKept == UNCHANGED <<heatVars, runaway_state>>
WordKept == UNCHANGED <<word, reg, forgotten>>
Quiet == HeatKept /\ WordKept /\ UNCHANGED <<halted, flag_1s, arg>>

LoadWord ==
  /\ ops # <<>> /\ reg = <<>>
  /\ reg' = <<word>>
  /\ UNCHANGED <<heatVars, runaway_state, word, halted, flag_1s, pc, stack, ops, arg, forgotten>>

StoreWord ==
  /\ ops # <<>> /\ reg # <<>>
  /\ word' = [Head(reg) EXCEPT ![Head(ops).f] = Head(ops).v]
  /\ forgotten' = (forgotten \/ (word.violated /\ ~Head(reg).violated))
  /\ reg' = <<>> /\ ops' = Tail(ops)
  /\ UNCHANGED <<heatVars, runaway_state, halted, flag_1s, pc, stack, arg>>

(* ON_IDLE: SlowTicker::on_idle, TemperatureControl::on_idle, and another   *)
(* module that halts ("kill").                                             *)

IdleSecond ==
  /\ At("idle")
  /\ flag_1s' = IF flag_1s > 0 THEN flag_1s - 1 ELSE 0
  /\ Goto(IF flag_1s > 0 THEN "second" ELSE "violation") /\ NoWrite
  /\ HeatKept /\ WordKept /\ UNCHANGED <<halted, arg>>

\* Mutant: reports, and does not halt.
IdleViolationReports ==
  /\ At("violation")
  /\ IF word.violated THEN Write(<<Set("violated", FALSE)>>) ELSE NoWrite
  /\ Goto("others")
  /\ Quiet

\* on_idle
IdleViolation ==
  /\ At("violation")
  /\ IF word.violated THEN Write(<<Set("violated", FALSE)>>) /\ Call("halt", "others")
     ELSE NoWrite /\ Goto("others")
  /\ Quiet

IdleEnd == At("others") /\ Return /\ NoWrite /\ Quiet
IdleKill ==
  /\ At("others") /\ "kill" \in Commands /\ ~halted
  /\ Goto("halt") /\ NoWrite /\ Quiet

(* call_event(ON_HALT, nullptr), of which on_halt                          *)

Halt ==
  /\ At("halt")
  /\ halted' = TRUE
  /\ Goto("haltO") /\ NoWrite
  /\ HeatKept /\ WordKept /\ UNCHANGED <<flag_1s, arg>>

HaltKeeps == NoWrite /\ WordKept /\ UNCHANGED <<last_reading, runaway_state, halted, flag_1s, arg>>

\* Mutant: the output is not reset.
HaltOutputKept ==
  /\ At("haltO") /\ Goto("haltPin")
  /\ HaltKeeps /\ UNCHANGED <<target, late, o, heater, relit, skewed>>

HaltOutput ==
  /\ At("haltO")
  /\ o' = 0 /\ skewed' = FALSE /\ Goto("haltPin")
  /\ HaltKeeps /\ UNCHANGED <<target, late, heater, relit>>

HaltPin ==
  /\ At("haltPin")
  /\ heater' = FALSE /\ relit' = FALSE /\ Goto("haltTarget")
  /\ HaltKeeps /\ UNCHANGED <<target, late, o, skewed>>

\* Mutant: the target stays.
HaltTargetKept ==
  /\ At("haltTarget") /\ Return
  /\ HaltKeeps /\ UNCHANGED <<target, late, o, heater, relit, skewed>>

HaltTarget ==
  /\ At("haltTarget")
  /\ target' = UNDEFINED /\ late' = FALSE /\ Return
  /\ HaltKeeps /\ UNCHANGED <<o, heater, relit, skewed>>

(* on_second_tick *)

SecondStart ==
  /\ At("second")
  /\ IF halted \/ (HeatingTimeout = 0 /\ RunawayRange = 0)
     THEN NoWrite /\ Goto("violation")
     ELSE Write(<<Set("tick", (word.tick + 1) % 8)>>) /\ Goto("check")
  /\ Quiet

NotYet == At("check") /\ word.tick # 0 /\ NoWrite /\ Goto("violation") /\ Quiet

Checking == At("check") /\ word.tick = 0
CheckKeeps == WordKept /\ UNCHANGED <<heatVars, halted, flag_1s, arg>>

CheckOff ==
  /\ Checking /\ target <= 0
  /\ runaway_state' = "NOT_HEATING"
  /\ NoWrite /\ Goto("violation") /\ CheckKeeps

CheckStart ==
  /\ Checking /\ target > 0 /\ runaway_state = "NOT_HEATING"
  /\ runaway_state' = IF target >= last_reading \/ CoolingTimeout = 0
                      THEN "HEATING_UP" ELSE "COOLING_DOWN"
  /\ Write(<<Set("timer", 0)>>) /\ Goto("violation") /\ CheckKeeps

InRange ==
  \/ runaway_state = "HEATING_UP" /\ last_reading >= target - ErrorRange
  \/ runaway_state = "COOLING_DOWN" /\ last_reading <= target + ErrorRange

Changing == runaway_state \in {"HEATING_UP", "COOLING_DOWN"}

CheckReached ==
  /\ Checking /\ target > 0 /\ Changing /\ InRange
  /\ runaway_state' = "TARGET_TEMPERATURE_REACHED"
  /\ Write(<<Set("timer", 0)>>) /\ Goto("violation") /\ CheckKeeps

\* Mutant: the timer does not run.
TimerStands(n) == n

\* A bit field wraps.
Incremented(n) == (n + 1) % TimerSize

Timeout == IF runaway_state = "HEATING_UP" THEN HeatingTimeout ELSE CoolingTimeout

CheckTimeout ==
  /\ Checking /\ target > 0 /\ Changing /\ ~InRange
  /\ IF Timeout = 0 THEN NoWrite /\ Goto("violation")
     ELSE /\ Write(<<Set("timer", Incremented(word.timer))>>)
          /\ IF Incremented(word.timer) > Timeout THEN Call("halt", "runaway")
             ELSE Goto("violation")
  /\ UNCHANGED runaway_state /\ CheckKeeps

\* fabsf(delta) > runaway_range
OutOfRange ==
  RunawayRange # 0 /\ (last_reading - target > RunawayRange \/ target - last_reading > RunawayRange)

\* Mutant: a check that restarts the detection.
CheckRunawayResets ==
  /\ Checking /\ target > 0 /\ runaway_state = "TARGET_TEMPERATURE_REACHED"
  /\ Write(<<Set("timer", 0)>>) /\ Goto("violation")
  /\ UNCHANGED runaway_state /\ CheckKeeps

CheckRunaway ==
  /\ Checking /\ target > 0 /\ runaway_state = "TARGET_TEMPERATURE_REACHED"
  /\ IF RunawayRange = 0 THEN NoWrite /\ Goto("violation")
     ELSE IF ~OutOfRange THEN Write(<<Set("timer", 0)>>) /\ Goto("violation")
     ELSE /\ Write(<<Set("timer", Incremented(word.timer))>>)
          /\ IF word.timer >= 1 THEN Call("halt", "runaway") ELSE Goto("violation")
  /\ UNCHANGED runaway_state /\ CheckKeeps

\* After the halt.
RunawayHalted ==
  /\ At("runaway")
  /\ runaway_state' = "NOT_HEATING"
  /\ Write(<<Set("timer", 0)>>) /\ Goto("violation") /\ CheckKeeps

(* M104, M109 (on_gcode_received) and ON_SET_PUBLIC_DATA ("set", from the   *)
(* panel, the player or set_temp).  GcodeDispatch ignores the first two     *)
(* when halted.                                                            *)

\* One command of ON_MAIN_LOOP; ON_IDLE comes next.  The M codes first set
\* active, which is TRUE where there is no tool manager.
Command ==
  /\ At("loop")
  /\ \E s \in Targets, by \in Commands \ {"kill"} :
       /\ by = "set" \/ ~halted
       /\ arg' = [s |-> s, by |-> by]
       /\ IF by = "set" THEN pc' = "set" /\ NoWrite
          ELSE pc' = "drain" /\ Write(<<Set("active", TRUE)>>)
  /\ stack' = <<"idle", "loop">>
  /\ HeatKept /\ WordKept /\ UNCHANGED <<halted, flag_1s>>

\* Conveyor::wait_for_idle, which calls ON_IDLE while there are moves.
Drain ==
  /\ At("drain")
  /\ \/ QueueBusy /\ Call("idle", "drain")
     \/ Goto("set")
  /\ NoWrite /\ Quiet

\* M104 S0 does not go through set_desired_temperature.
Undefines == arg.s = 0 /\ arg.by # "set"

\* set_desired_temperature
Desired ==
  LET limited == IF arg.s > MaxTemp THEN MaxTemp ELSE arg.s
  IN CASE limited = Degree -> Preset1 [] limited = 2 * Degree -> Preset2 [] OTHER -> limited

SetKeeps == NoWrite /\ UNCHANGED <<word, reg, last_reading, halted, flag_1s, arg>>

SetTarget ==
  /\ At("set")
  /\ target' = IF Undefines THEN UNDEFINED ELSE Desired
  /\ late' = halted /\ relit' = FALSE /\ forgotten' = FALSE
  /\ Goto(IF target' <= 0 THEN "setOff" ELSE "setState")
  /\ SetKeeps /\ UNCHANGED <<o, heater, skewed, runaway_state>>

SetOff ==
  /\ At("setOff")
  /\ o' = 0 /\ heater' = FALSE /\ skewed' = FALSE
  /\ IF Undefines THEN Return ELSE Goto("setState")
  /\ SetKeeps /\ UNCHANGED <<target, late, relit, forgotten, runaway_state>>

SetState ==
  /\ At("setState")
  /\ runaway_state' = "NOT_HEATING"
  /\ IF arg.by = "M109" THEN Goto("unreliable") ELSE Return
  /\ SetKeeps /\ UNCHANGED <<target, late, o, heater, relit, skewed, forgotten>>

\* M109: if the last reading is infinite the sensor is read once more.
Unreliable ==
  /\ At("unreliable")
  /\ last_reading = Inf /\ Inf \in Readings
  /\ Goto("halt") /\ NoWrite /\ Quiet
Reliable ==
  /\ At("unreliable")
  /\ last_reading # Inf \/ Readings # {Inf}
  /\ Write(<<Set("waiting", TRUE)>>) /\ Goto("wait") /\ Quiet

\* Mutant: a reading within the error range will do.
WaitTestNear ==
  /\ At("wait")
  /\ IF last_reading < target - ErrorRange THEN Call("idle", "waitHalted") /\ NoWrite
     ELSE Write(<<Set("waiting", FALSE)>>) /\ Return
  /\ Quiet

WaitTest ==
  /\ At("wait")
  /\ IF last_reading < target THEN Call("idle", "waitHalted") /\ NoWrite
     ELSE Write(<<Set("waiting", FALSE)>>) /\ Return
  /\ Quiet

WaitHalted ==
  /\ At("waitHalted")
  /\ IF halted \/ target = UNDEFINED THEN Write(<<Set("waiting", FALSE)>>) /\ Return
     ELSE NoWrite /\ Goto("wait")
  /\ Quiet

MainIdle == At("loop") /\ Call("idle", "loop") /\ NoWrite /\ Quiet

\* M999
Unhalt ==
  /\ At("loop") /\ halted
  /\ halted' = FALSE
  /\ Call("idle", "loop") /\ NoWrite /\ HeatKept /\ WordKept /\ UNCHANGED <<flag_1s, arg>>

-----------------------------------------------------------------------------
Idle == IdleSecond \/ IdleViolation \/ IdleEnd \/ IdleKill
OnHalt == Halt \/ HaltOutput \/ HaltPin \/ HaltTarget
OnSecondTick == \/ SecondStart \/ NotYet \/ CheckOff \/ CheckStart \/ CheckReached
                \/ CheckTimeout \/ CheckRunaway \/ RunawayHalted
SetTemperature == \/ Command \/ Drain \/ SetTarget \/ SetOff \/ SetState
                  \/ Unreliable \/ Reliable \/ WaitTest \/ WaitHalted
Main == MainIdle \/ Unhalt

Thread == LoadWord \/ StoreWord \/ Idle \/ OnHalt \/ OnSecondTick \/ SetTemperature \/ Main
Next == Thread \/ ReadTick \/ SecondPasses

Spec == Init /\ [][Next]_vars

\* The thread polls, and the second timer does not stop.
FairSpec == Spec /\ WF_vars(Thread) /\ WF_vars(SecondPasses)

-----------------------------------------------------------------------------
(* Properties *)

Labels == {"loop", "idle", "second", "check", "runaway", "violation", "others", "halt", "haltO",
           "haltPin", "haltTarget", "drain", "set", "setOff", "setState", "unreliable", "wait",
           "waitHalted"}

\* Every variable has its type.
TypeOK ==
  /\ target \in {UNDEFINED} \cup Nat
  /\ o \in {0, 255} /\ heater \in BOOLEAN /\ last_reading \in Readings \cup {0}
  /\ runaway_state \in RunawayState /\ word \in Word
  /\ halted \in BOOLEAN /\ flag_1s \in 0 .. MaxSeconds
  /\ pc \in Labels /\ stack \in Seq(Labels)
  /\ reg = <<>> \/ (reg = <<Head(reg)>> /\ Head(reg) \in Word)
  /\ arg \in [s : Targets \cup {0}, by : {"M104", "M109", "set"}]

\* on_halt: "turn off heater".  A halted machine that has come back to its main
\* loop neither heats nor has a target.  HaltedMeansOff: whatever sets a target,
\* if no tick of TIMER2 came inside on_halt.  HaltLeavesOff: whatever ticks come,
\* if no command has set a target in the halted machine.  The code keeps neither.
HaltedMeansOff == At("loop") /\ halted /\ ~relit => ~heater /\ target <= 0
HaltLeavesOff  == At("loop") /\ halted /\ ~late => ~heater /\ target <= 0

\* What is left when neither is excluded: a halt undoes every target set before
\* it, also one whose command is still waiting inside the halted loop, and a
\* heater that is on afterwards was turned on by a tick between the statements
\* of on_halt.
HaltTurnsOff == At("loop") /\ halted /\ ~late => target <= 0 /\ (heater => relit)

\* thermistor_read_tick only looks at the temperature while the target is above
\* 2: a heater that is on is one whose limits are being watched, or was left on
\* by a target of 1 or 2 degrees or by a tick inside on_halt.  And the bang-bang
\* controller decides by o whether the heater is on: o says what the heater does,
\* unless a tick inside on_halt set o between the resets of o and of the pin.
\* And the bit fields keep to their widths.
Supervised ==
  /\ TypeOK
  /\ heater => target > 2 * Degree \/ pc = "setOff" \/ target \in 1 .. 2 * Degree \/ relit
  /\ pc # "haltPin" => (heater => o > 0) /\ (o > 0 => heater \/ skewed)

\* "wait for temp to be reached, no more gcodes will be fetched until this is
\* complete": M109 goes on only when the temperature has been reached, or when
\* the interrupt has given up and its flag is set, or was undone by a store.
WaitEndsHot ==
  [][At("wait") /\ Len(stack') < Len(stack) =>
       last_reading >= Desired \/ word.violated \/ forgotten]_vars

\* "MINTEMP or MAXTEMP triggered ... HALT asserted": a bad reading halts, however
\* often the flag is met by a tick; unless the thread's store undoes it.
BadReadingHalts == word.violated ~> halted \/ forgotten

\* The same without the exception, which the code does not keep.
BadReadingTold == word.violated ~> halted

\* A heater that does not get to its temperature is not left heating.
HeatingEnds ==
  runaway_state = "HEATING_UP" /\ ~halted ~> runaway_state # "HEATING_UP" \/ halted

\* A heater that leaves the range around its target comes back, is given
\* another target, or halts the machine.
RunawayHalts ==
  runaway_state = "TARGET_TEMPERATURE_REACHED" /\ OutOfRange ~>
     ~OutOfRange \/ halted \/ runaway_state # "TARGET_TEMPERATURE_REACHED"
=============================================================================
