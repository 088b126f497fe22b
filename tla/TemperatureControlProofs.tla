---------------------- MODULE TemperatureControlProofs ----------------------
(***************************************************************************)
(* The heater, for every sensor, limit, preset and timeout: what the       *)
(* thread's control state says about the target and the output, and with   *)
(* it that a halt turns the heater off, that a heater that is on is being  *)
(* watched, and that M109 ends hot.                                        *)
(***************************************************************************)
EXTENDS TemperatureControl, SequenceTheorems, TLAPS

\* The writes to the bit fields that the thread may have under way.
Writes == [f : {"violated", "active", "waiting"}, v : BOOLEAN]
          \cup [f : {"tick"}, v : 0 .. 7] \cup [f : {"timer"}, v : Timer]

OpsType == ops = <<>> \/ \E w \in Writes : ops = <<w>>

\* The callers of ON_IDLE, and of a halt.
IdleStack(s) == \/ s = <<"loop">>
                \/ s # <<>> /\ Head(s) \in {"drain", "waitHalted"} /\ Tail(s) = <<"idle", "loop">>
HaltStack(s) == \/ IdleStack(s)
                \/ s # <<>> /\ Head(s) \in {"others", "runaway"} /\ IdleStack(Tail(s))
                \/ s = <<"idle", "loop">>

IdleLabels    == {"idle", "second", "check", "violation", "others", "runaway"}
HaltLabels    == {"halt", "haltO", "haltPin", "haltTarget"}
CommandLabels == {"drain", "set", "setOff", "setState", "unreliable", "wait", "waitHalted"}

Frames ==
  /\ stack = <<>> <=> pc = "loop"
  /\ pc \in IdleLabels => IdleStack(stack)
  /\ pc \in HaltLabels => HaltStack(stack)
  /\ pc \in CommandLabels => stack = <<"idle", "loop">>

TypeInv == TypeOK /\ OpsType /\ Frames

\* A halt undoes the targets set before it, and has undone them once it is over.
HaltInv ==
  /\ pc = "haltTarget" => (heater => relit)
  /\ halted /\ ~late =>
       \/ pc \in {"haltO", "haltPin", "haltTarget"}
       \/ target <= 0 /\ (heater => relit)

SupervisedInv ==
  /\ heater => target > 2 * Degree \/ pc = "setOff" \/ target \in 1 .. 2 * Degree \/ relit
  /\ pc # "haltPin" => (heater => o > 0) /\ (o > 0 => heater \/ skewed)
  /\ pc = "haltPin" => (o > 0 => skewed)
  /\ pc = "haltTarget" => (heater => relit)

\* M109 waits, and ON_IDLE runs inside.
InWait ==
  \/ pc = "waitHalted"
  \/ stack # <<>> /\ Head(stack) = "waitHalted"
  \/ stack # <<>> /\ Tail(stack) # <<>> /\ Head(Tail(stack)) = "waitHalted"

Awaits == {"setState", "unreliable", "wait"}

WaitInv ==
  /\ pc = "setOff" => target <= 0 /\ (~Undefines => target = Desired)
  /\ pc \in Awaits => /\ target = Desired \/ (target = UNDEFINED /\ (word.violated \/ forgotten))
                      /\ ops # <<>> => Head(ops).f # "violated"
  /\ InWait => target \in {Desired, UNDEFINED}

-----------------------------------------------------------------------------
(* The stack.                                                               *)

\* A call puts its return label on top of the stack, and a return takes it off.
LEMMA Push ==
  ASSUME NEW s \in Seq(Labels), NEW l \in Labels
  PROVE  /\ <<l>> \o s \in Seq(Labels) /\ <<l>> \o s # <<>>
         /\ Head(<<l>> \o s) = l /\ Tail(<<l>> \o s) = s
<1> DEFINE c == <<l>> \o s
<1>1. /\ c \in Seq(Labels) /\ c # <<>> /\ Len(c) = Len(s) + 1 /\ c[1] = l
      /\ \A i \in 2 .. Len(s) + 1 : c[i] = s[i - 1]
  OBVIOUS
<1> HIDE DEF c
<1>2. Head(c) = l /\ Tail(c) \in Seq(Labels) /\ Len(Tail(c)) = Len(s)
  BY <1>1
<1>3. \A i \in 1 .. Len(s) : Tail(c)[i] = s[i]
  BY <1>1
<1>4. Tail(c) = s
  BY <1>2, <1>3, SeqEqual
<1> QED BY <1>1, <1>2, <1>4 DEF c

\* The stacks of one frame and of two.
LEMMA Bottom ==
  /\ Head(<<"loop">>) = "loop" /\ Tail(<<"loop">>) = <<>> /\ <<"loop">> # <<>>
  /\ Head(<<"idle", "loop">>) = "idle" /\ Tail(<<"idle", "loop">>) = <<"loop">>
  /\ <<"idle", "loop">> # <<>> /\ <<"idle", "loop">> # <<"loop">>
  /\ <<"loop">> \in Seq(Labels) /\ <<"idle", "loop">> \in Seq(Labels)
BY DEF Labels

\* A sequence of one element.
LEMMA Single == \A a : Head(<<a>>) = a /\ Tail(<<a>>) = <<>> /\ <<a>> # <<>>
OBVIOUS

\* Every step of the thread calls and returns as its caller expects.
LEMMA FramesStep ==
  ASSUME TypeInv, Next
  PROVE  Frames' /\ stack' \in Seq(Labels) /\ pc' \in Labels
<1>1. /\ pc \in Labels /\ stack \in Seq(Labels) /\ Frames
  BY DEF TypeInv, TypeOK
<1>2. ASSUME NEW l, NEW r \in Labels, Call(l, r)
      PROVE  /\ pc' = l /\ Head(stack') = r /\ Tail(stack') = stack /\ stack' # <<>>
             /\ stack' \in Seq(Labels)
  BY <1>1, <1>2, Push DEF Call
<1>3. ASSUME stack # <<>>, Return
      PROVE  pc' = Head(stack) /\ stack' = Tail(stack) /\ stack' \in Seq(Labels)
  BY <1>1, <1>3, HeadTailProperties DEF Return
<1> USE <1>1, Bottom DEF Frames, IdleStack, HaltStack, IdleLabels, HaltLabels, CommandLabels,
        Labels, At, Goto
<1>4. CASE LoadWord \/ StoreWord
  BY <1>4 DEF LoadWord, StoreWord
<1>5. CASE IdleSecond \/ IdleKill
  BY <1>5 DEF IdleSecond, IdleKill
<1>6. CASE IdleViolation
  <2>1. pc = "violation" /\ IdleStack(stack)
    BY <1>6 DEF IdleViolation
  <2>2. CASE word.violated
    <3>1. Call("halt", "others")
      BY <1>6, <2>2 DEF IdleViolation
    <3>2. /\ pc' = "halt" /\ Head(stack') = "others" /\ Tail(stack') = stack /\ stack' # <<>>
          /\ stack' \in Seq(Labels)
      BY <1>2, <3>1
    <3> QED BY <2>1, <3>2
  <2>3. CASE ~word.violated
    BY <1>6, <2>1, <2>3 DEF IdleViolation
  <2> QED BY <2>2, <2>3
<1>7. CASE IdleEnd
  BY <1>7, <1>3 DEF IdleEnd
<1>8. CASE Halt \/ HaltOutput \/ HaltPin
  BY <1>8 DEF Halt, HaltOutput, HaltPin
<1>9. CASE HaltTarget
  <2>1. HaltStack(stack) /\ pc' = Head(stack) /\ stack' = Tail(stack) /\ stack' \in Seq(Labels)
    BY <1>9, <1>3 DEF HaltTarget
  <2> QED BY <2>1
<1>10. CASE SecondStart \/ NotYet \/ CheckOff \/ CheckStart \/ CheckReached \/ RunawayHalted
  BY <1>10 DEF SecondStart, NotYet, Checking, CheckOff, CheckStart, CheckReached, RunawayHalted
<1>11. CASE CheckTimeout \/ CheckRunaway
  <2>1. pc = "check" /\ IdleStack(stack)
    BY <1>11 DEF CheckTimeout, CheckRunaway, Checking
  <2>2. Call("halt", "runaway") \/ Goto("violation")
    BY <1>11 DEF CheckTimeout, CheckRunaway
  <2>3. CASE Call("halt", "runaway")
    <3>1. /\ pc' = "halt" /\ Head(stack') = "runaway" /\ Tail(stack') = stack /\ stack' # <<>>
          /\ stack' \in Seq(Labels)
      BY <1>2, <2>3
    <3> QED BY <2>1, <3>1
  <2> QED BY <2>1, <2>2, <2>3
<1>12. CASE Command
  BY <1>12 DEF Command
<1>13. CASE Drain
  BY <1>13, <1>2 DEF Drain
<1>14. CASE SetTarget \/ SetOff \/ SetState
  BY <1>14, <1>3 DEF SetTarget, SetOff, SetState
<1>15. CASE Unreliable \/ Reliable
  BY <1>15 DEF Unreliable, Reliable
<1>16. CASE WaitTest
  BY <1>16, <1>2, <1>3 DEF WaitTest
<1>17. CASE WaitHalted
  BY <1>17, <1>3 DEF WaitHalted
<1>18. CASE Main
  BY <1>18, <1>2 DEF Main, MainIdle, Unhalt
<1>19. CASE ReadTick \/ SecondPasses
  BY <1>19 DEF ReadTick, SecondPasses, threadVars
<1> QED BY <1>4, <1>5, <1>6, <1>7, <1>8, <1>9, <1>10, <1>11, <1>12, <1>13, <1>14, <1>15, <1>16,
           <1>17, <1>18, <1>19
        DEF Next, Thread, Idle, OnHalt, OnSecondTick, SetTemperature

-----------------------------------------------------------------------------
(* The types.                                                               *)

\* The bit field wraps within its width.
LEMMA IncrementedType == \A n \in Timer : Incremented(n) \in Timer
BY TemperatureAssumption DEF Incremented, Timer

\* The controller gives an output.
LEMMA PidProcessType ==
  ASSUME o \in {0, 255}, NEW temp
  PROVE  PidProcess(temp) \subseteq {0, 255}
BY DEF PidProcess

\* What set_desired_temperature makes of its argument is a temperature.
LEMMA DesiredType ==
  ASSUME arg.s \in Nat
  PROVE  Desired \in Nat
BY TemperatureAssumption DEF Desired

\* The writes of the thread's steps.
LEMMA WritesType ==
  /\ \A n \in 0 .. 7 : Set("tick", n) \in Writes
  /\ \A n \in Timer : Set("timer", n) \in Writes
  /\ \A b \in BOOLEAN : \A f \in {"violated", "active", "waiting"} : Set(f, b) \in Writes
BY DEF Writes, Set

\* Every step keeps the types.
LEMMA TypeStep ==
  ASSUME TypeInv, Next
  PROVE  TypeInv'
<1>1. Frames' /\ stack' \in Seq(Labels) /\ pc' \in Labels
  BY FramesStep
<1> DEFINE HeatType == /\ target \in {UNDEFINED} \cup Nat
                       /\ o \in {0, 255} /\ heater \in BOOLEAN /\ last_reading \in Readings \cup {0}
           StateType == /\ runaway_state \in RunawayState
                        /\ halted \in BOOLEAN /\ flag_1s \in 0 .. MaxSeconds
                        /\ arg \in [s : Targets \cup {0}, by : {"M104", "M109", "set"}]
           WordType == /\ word \in Word
                       /\ reg = <<>> \/ (reg = <<Head(reg)>> /\ Head(reg) \in Word)
<1>2. HeatType /\ StateType /\ WordType /\ OpsType
  BY DEF TypeInv, TypeOK
<1>3. arg.s \in Nat
  <2>1. arg.s \in Targets \cup {0}
    BY <1>2
  <2>2. \A s \in Targets : s \in Nat
    BY TemperatureAssumption
  <2>3. CASE arg.s = 0
    BY <2>3
  <2>4. CASE arg.s \in Targets
    BY <2>2, <2>4
  <2> QED BY <2>1, <2>3, <2>4
<1>4. 0 \in Timer /\ word.timer \in Timer /\ word.tick \in 0 .. 7
  BY <1>2, TemperatureAssumption DEF Word, Timer
<1> SUFFICES HeatType' /\ StateType' /\ WordType' /\ OpsType'
  BY <1>1 DEF TypeInv, TypeOK
<1> HIDE DEF HeatType, StateType, WordType
<1>5. CASE Idle
  <2>1. UNCHANGED <<heatVars, runaway_state, word, reg, halted, arg>>
    BY <1>5 DEF Idle, IdleSecond, IdleViolation, IdleEnd, IdleKill, Quiet, HeatKept, WordKept
  <2>2. HeatType' /\ WordType'
    BY <1>2, <2>1 DEF HeatType, WordType, heatVars
  <2>3. flag_1s' \in 0 .. MaxSeconds
    BY <1>2, <1>5 DEF Idle, IdleSecond, IdleViolation, IdleEnd, IdleKill, Quiet, StateType, MaxSeconds
  <2>4. StateType'
    BY <1>2, <2>1, <2>3 DEF StateType
  <2>5. OpsType'
    BY <1>2, <1>5, WritesType DEF Idle, IdleSecond, IdleViolation, IdleEnd, IdleKill, OpsType, Write, NoWrite
  <2> QED BY <2>2, <2>4, <2>5
<1>6. CASE OnHalt
  <2>1. HeatType'
    <3>1. /\ target' \in {target, UNDEFINED} /\ o' \in {o, 0} /\ heater' \in {heater, FALSE}
          /\ last_reading' = last_reading
      BY <1>6 DEF OnHalt, Halt, HaltOutput, HaltPin, HaltTarget, HaltKeeps, HeatKept, heatVars
    <3>2. target' \in {UNDEFINED} \cup Nat /\ o' \in {0, 255} /\ last_reading' \in Readings \cup {0}
      BY <1>2, <3>1 DEF HeatType
    <3>3. heater' \in BOOLEAN
      BY <1>2, <3>1 DEF HeatType
    <3> QED BY <3>2, <3>3 DEF HeatType
  <2>2. WordType' /\ StateType' /\ OpsType'
    BY <1>2, <1>6 DEF OnHalt, Halt, HaltOutput, HaltPin, HaltTarget, HaltKeeps, HeatKept, WordKept,
       NoWrite, StateType, WordType, OpsType
  <2> QED BY <2>1, <2>2
<1>7. CASE OnSecondTick
  <2>1. UNCHANGED <<heatVars, word, reg, halted, arg, flag_1s>>
    BY <1>7 DEF OnSecondTick, SecondStart, NotYet, CheckOff, CheckStart, CheckReached, CheckTimeout,
       CheckRunaway, RunawayHalted, CheckKeeps, Quiet, HeatKept, WordKept
  <2>2. HeatType' /\ WordType'
    BY <1>2, <2>1 DEF HeatType, WordType, heatVars
  <2>3. runaway_state' \in RunawayState
    BY <1>2, <1>7 DEF OnSecondTick, SecondStart, NotYet, CheckOff, CheckStart, CheckReached,
       CheckTimeout, CheckRunaway, RunawayHalted, Quiet, HeatKept, StateType, RunawayState
  <2>4. StateType'
    BY <1>2, <2>1, <2>3 DEF StateType
  <2>5. \/ NoWrite
        \/ Write(<<Set("tick", (word.tick + 1) % 8)>>)
        \/ Write(<<Set("timer", 0)>>)
        \/ Write(<<Set("timer", Incremented(word.timer))>>)
    BY <1>7 DEF OnSecondTick, SecondStart, NotYet, CheckOff, CheckStart, CheckReached, CheckTimeout,
       CheckRunaway, RunawayHalted
  <2>6. (word.tick + 1) % 8 \in 0 .. 7
    BY <1>4
  <2>7. OpsType'
    BY <1>2, <1>4, <2>5, <2>6, WritesType, IncrementedType DEF OpsType, Write, NoWrite
  <2> QED BY <2>2, <2>4, <2>7
<1>8. CASE Command
  <2>1. UNCHANGED <<heatVars, runaway_state, word, reg, halted, flag_1s>>
    BY <1>8 DEF Command, HeatKept, WordKept
  <2>2. HeatType' /\ WordType'
    BY <1>2, <2>1 DEF HeatType, WordType, heatVars
  <2>3. arg' \in [s : Targets \cup {0}, by : {"M104", "M109", "set"}]
    BY <1>8, TemperatureAssumption DEF Command
  <2>4. StateType'
    BY <1>2, <2>1, <2>3 DEF StateType
  <2>5. OpsType'
    BY <1>2, <1>8, WritesType DEF Command, OpsType, Write, NoWrite
  <2> QED BY <2>2, <2>4, <2>5
<1>9. CASE SetTarget \/ SetOff \/ SetState
  <2>1. UNCHANGED <<word, reg, halted, flag_1s, arg, ops, last_reading>>
    BY <1>9 DEF SetTarget, SetOff, SetState, SetKeeps, WordKept, NoWrite
  <2>2. WordType' /\ OpsType'
    BY <1>2, <2>1 DEF WordType, OpsType
  <2>3. StateType'
    BY <1>2, <1>9, <2>1 DEF SetTarget, SetOff, SetState, StateType, RunawayState
  <2>4. target' \in {UNDEFINED} \cup Nat
    BY <1>2, <1>3, <1>9, DesiredType DEF SetTarget, SetOff, SetState, HeatType
  <2>5. o' \in {0, 255} /\ heater' \in BOOLEAN
    BY <1>2, <1>9 DEF SetTarget, SetOff, SetState, HeatType
  <2>6. HeatType'
    BY <1>2, <2>1, <2>4, <2>5 DEF HeatType
  <2> QED BY <2>2, <2>3, <2>6
<1>10. CASE Drain \/ Unreliable \/ Reliable \/ WaitTest \/ WaitHalted \/ Main
  <2>1. UNCHANGED <<heatVars, runaway_state, word, reg, flag_1s, arg>> /\ halted' \in BOOLEAN
    BY <1>2, <1>10 DEF Drain, Unreliable, Reliable, WaitTest, WaitHalted, Main, MainIdle, Unhalt,
       Quiet, HeatKept, WordKept, StateType
  <2>2. HeatType' /\ WordType' /\ StateType'
    BY <1>2, <2>1 DEF HeatType, WordType, StateType, heatVars
  <2>3. OpsType'
    BY <1>2, <1>10, WritesType DEF Drain, Unreliable, Reliable, WaitTest, WaitHalted, Main, MainIdle,
       Unhalt, OpsType, Write, NoWrite
  <2> QED BY <2>2, <2>3
<1>11. CASE LoadWord
  <2>1. reg' = <<word>> /\ word' = word /\ UNCHANGED <<heatVars, runaway_state, halted, flag_1s, ops, arg>>
    BY <1>11 DEF LoadWord
  <2> QED BY <1>2, <2>1, Single DEF HeatType, WordType, StateType, OpsType, heatVars
<1>12. CASE StoreWord
  <2>1. /\ reg # <<>> /\ ops # <<>> /\ reg' = <<>> /\ ops' = Tail(ops)
        /\ word' = [Head(reg) EXCEPT ![Head(ops).f] = Head(ops).v]
        /\ UNCHANGED <<heatVars, runaway_state, halted, flag_1s, arg>>
    BY <1>12 DEF StoreWord
  <2>2. Head(ops) \in Writes /\ Tail(ops) = <<>>
    BY <1>2, <2>1, Single DEF OpsType
  <2>3. Head(reg) \in Word
    BY <1>2, <2>1 DEF WordType
  <2>4. word' \in Word
    BY <2>1, <2>2, <2>3 DEF Word, Writes
  <2> QED BY <1>2, <2>1, <2>2, <2>4 DEF HeatType, WordType, StateType, OpsType, heatVars
<1>13. CASE ReadTick
  <2>1. UNCHANGED <<runaway_state, halted, flag_1s, reg, ops, arg>>
    BY <1>13 DEF ReadTick, threadVars
  <2>2. StateType' /\ OpsType'
    BY <1>2, <2>1 DEF StateType, OpsType
  <2>3. word' \in Word
    BY <1>2, <1>13 DEF ReadTick, WordType, Word
  <2>4. WordType'
    BY <1>2, <2>1, <2>3 DEF WordType
  <2>5. PICK temp \in Readings :
          /\ last_reading' = temp
          /\ \/ target' = UNDEFINED /\ o' = 0 /\ heater' = FALSE
             \/ /\ o' \in PidProcess(temp) /\ target' = target
                /\ heater' = (IF BangBang /\ o' = o THEN heater ELSE o' > 0)
             \/ UNCHANGED <<target, o, heater>>
    BY <1>13 DEF ReadTick
  <2>6. o' \in {0, 255}
    <3>1. PidProcess(temp) \subseteq {0, 255}
      BY <1>2, PidProcessType DEF HeatType
    <3> QED BY <1>2, <2>5, <3>1 DEF HeatType
  <2>7. heater' \in BOOLEAN
    <3>1. \/ heater' = FALSE \/ heater' = heater \/ heater' = (o' > 0)
      BY <2>5, Zenon
    <3>2. heater \in BOOLEAN /\ (o' > 0) \in BOOLEAN
      BY <1>2, <2>6 DEF HeatType
    <3> QED BY <3>1, <3>2, Zenon
  <2>8. target' \in {UNDEFINED} \cup Nat
    BY <1>2, <2>5 DEF HeatType
  <2>9. HeatType'
    BY <2>5, <2>6, <2>7, <2>8 DEF HeatType
  <2> QED BY <2>2, <2>4, <2>9
<1>14. CASE SecondPasses
  BY <1>2, <1>14 DEF SecondPasses, MaxSeconds, threadVars, heatVars, HeatType, WordType, StateType, OpsType
<1> QED BY <1>5, <1>6, <1>7, <1>8, <1>9, <1>10, <1>11, <1>12, <1>13, <1>14
        DEF Next, Thread, SetTemperature

-----------------------------------------------------------------------------
(* What a halt leaves, and what a heater that is on has.                    *)

\* Where the thread is in the middle of turning the heater off.
TurningOff == {"haltO", "haltPin", "haltTarget", "setOff"}

\* A return goes to a caller.
LEMMA Caller ==
  ASSUME TypeInv, pc # "loop"
  PROVE  Head(stack) \in {"loop", "drain", "waitHalted", "idle", "others", "runaway"}
BY Bottom DEF TypeInv, TypeOK, Frames, IdleStack, HaltStack, IdleLabels, HaltLabels, CommandLabels, Labels

\* The steps that leave the heater alone are not part of turning it off.
LEMMA HeaterLeftAlone ==
  ASSUME TypeInv,
         \/ Idle \/ OnSecondTick \/ Command \/ Drain \/ SetState \/ Unreliable \/ Reliable
         \/ WaitTest \/ WaitHalted \/ MainIdle \/ LoadWord \/ StoreWord \/ SecondPasses
  PROVE  /\ UNCHANGED <<target, o, heater, last_reading, late, relit, skewed, halted>>
         /\ pc' = pc \/ (pc \notin TurningOff /\ pc' \notin TurningOff)
<1> USE Caller DEF TurningOff, heatVars, Quiet, HeatKept, At, Goto, Call, Return
<1>1. CASE Idle
  BY <1>1 DEF Idle, IdleSecond, IdleViolation, IdleEnd, IdleKill
<1>2. CASE OnSecondTick
  BY <1>2 DEF OnSecondTick, SecondStart, NotYet, Checking, CheckOff, CheckStart, CheckReached,
     CheckTimeout, CheckRunaway, RunawayHalted, CheckKeeps
<1>3. CASE Command \/ Drain
  BY <1>3 DEF Command, Drain
<1>4. CASE SetState \/ Unreliable \/ Reliable \/ WaitTest \/ WaitHalted \/ MainIdle
  BY <1>4 DEF SetState, SetKeeps, Unreliable, Reliable, WaitTest, WaitHalted, MainIdle
<1>5. CASE LoadWord \/ StoreWord \/ SecondPasses
  BY <1>5 DEF LoadWord, StoreWord, SecondPasses, threadVars
<1> QED BY <1>1, <1>2, <1>3, <1>4, <1>5

\* A halt undoes the targets, whichever step comes next.
LEMMA HaltStep ==
  ASSUME TypeInv, HaltInv, Next
  PROVE  HaltInv'
<1>1. CASE \/ Idle \/ OnSecondTick \/ Command \/ Drain \/ SetState \/ Unreliable \/ Reliable
           \/ WaitTest \/ WaitHalted \/ MainIdle \/ LoadWord \/ StoreWord \/ SecondPasses
  BY <1>1, HeaterLeftAlone DEF HaltInv, TurningOff
<1>2. CASE OnHalt
  <2>1. CASE Halt \/ HaltOutput \/ HaltPin
    BY <2>1 DEF Halt, HaltOutput, HaltPin, HaltInv, At, Goto
  <2>2. CASE HaltTarget
    <3>1. pc = "haltTarget" /\ pc' # "haltTarget" /\ target' = UNDEFINED /\ UNCHANGED <<heater, relit>>
      BY <2>2, Caller DEF HaltTarget, At, Return
    <3> QED BY <3>1 DEF HaltInv, UNDEFINED
  <2> QED BY <1>2, <2>1, <2>2 DEF OnHalt
<1>3. CASE SetTarget
  BY <1>3 DEF SetTarget, SetKeeps, HaltInv, At, Goto
<1>4. CASE SetOff
  BY <1>4, Caller DEF SetOff, SetKeeps, HaltInv, At, Goto, Return
<1>5. CASE Unhalt
  BY <1>5 DEF Unhalt, HaltInv, At, Call
<1>6. CASE ReadTick
  <2>1. 2 * Degree > 0
    BY TemperatureAssumption
  <2>2. /\ pc' = pc /\ UNCHANGED <<late, halted>>
        /\ pc = "haltTarget" => (heater' <=> relit')
        /\ pc # "haltTarget" => (relit' <=> relit)
        /\ target > 2 * Degree \/ UNCHANGED <<target, heater>>
    BY <1>6 DEF ReadTick, threadVars
  <2>3. target \in Int
    BY TemperatureAssumption DEF TypeInv, TypeOK, UNDEFINED
  <2>4. 2 * Degree \in Int
    BY TemperatureAssumption
  <2>5. CASE halted /\ ~late /\ pc \notin {"haltO", "haltPin", "haltTarget"}
    BY <2>1, <2>2, <2>3, <2>4, <2>5 DEF HaltInv
  <2>6. CASE ~(halted /\ ~late) \/ pc \in {"haltO", "haltPin", "haltTarget"}
    BY <2>2, <2>6 DEF HaltInv
  <2> QED BY <2>5, <2>6
<1> QED BY <1>1, <1>2, <1>3, <1>4, <1>5, <1>6 DEF Next, Thread, SetTemperature, Main

\* A heater that is on stays watched.
LEMMA SupervisedStep ==
  ASSUME TypeInv, SupervisedInv, Next
  PROVE  SupervisedInv'
<1>1. CASE \/ Idle \/ OnSecondTick \/ Command \/ Drain \/ SetState \/ Unreliable \/ Reliable
           \/ WaitTest \/ WaitHalted \/ MainIdle \/ LoadWord \/ StoreWord \/ SecondPasses
  BY <1>1, HeaterLeftAlone DEF SupervisedInv, TurningOff
<1>2. CASE OnHalt
  BY <1>2, Caller DEF OnHalt, Halt, HaltOutput, HaltPin, HaltTarget, HaltKeeps, HeatKept, heatVars,
     SupervisedInv, At, Goto, Return
<1>3. CASE SetTarget
  <2>1. pc = "set" /\ UNCHANGED <<o, heater, skewed>>
    BY <1>3 DEF SetTarget, At
  <2>2. target' \in Int
    BY <1>3, TypeStep DEF TypeInv, TypeOK, UNDEFINED
  <2>3. target' <= 0 \/ target' \in 1 .. 2 * Degree \/ target' > 2 * Degree
    BY <2>2, TemperatureAssumption
  <2>4. pc' = IF target' <= 0 THEN "setOff" ELSE "setState"
    BY <1>3 DEF SetTarget, Goto
  <2> QED BY <2>1, <2>3, <2>4 DEF SupervisedInv
<1>4. CASE SetOff
  BY <1>4, Caller DEF SetOff, SetKeeps, SupervisedInv, At, Goto, Return
<1>5. CASE Unhalt
  BY <1>5 DEF Unhalt, HeatKept, heatVars, SupervisedInv, At, Call
<1>6. CASE ReadTick
  <2>1. /\ pc' = pc
        /\ relit' = IF pc = "haltTarget" THEN heater' ELSE relit
        /\ skewed' = IF pc = "haltPin" THEN o' > 0 ELSE skewed /\ UNCHANGED <<o, heater>>
    BY <1>6 DEF ReadTick, threadVars
  <2>2. PICK temp \in Readings :
          \/ o' = 0 /\ heater' = FALSE
          \/ /\ target > 2 * Degree /\ target' = target
             /\ heater' = (IF BangBang /\ o' = o THEN heater ELSE o' > 0)
          \/ UNCHANGED <<target, o, heater>>
    BY <1>6 DEF ReadTick
  <2>3. CASE o' = 0 /\ heater' = FALSE
    BY <2>1, <2>3 DEF SupervisedInv
  <2>4. CASE UNCHANGED <<target, o, heater>>
    BY <2>1, <2>4 DEF SupervisedInv
  <2>5. CASE target > 2 * Degree /\ target' = target /\ (heater' <=> o' > 0)
    BY <2>1, <2>5 DEF SupervisedInv
  <2> QED BY <2>2, <2>3, <2>4, <2>5
<1> QED BY <1>1, <1>2, <1>3, <1>4, <1>5, <1>6 DEF Next, Thread, SetTemperature, Main

-----------------------------------------------------------------------------
(* M109 waits.                                                              *)

\* ON_IDLE inside the wait of M109 stays inside it, and nothing else gets there.
LEMMA InWaitStep ==
  ASSUME TypeInv, Next, InWait'
  PROVE  InWait \/ pc = "wait"
<1>1. /\ pc \in Labels /\ stack \in Seq(Labels) /\ Frames /\ Frames'
  BY FramesStep DEF TypeInv, TypeOK
<1>2. \/ stack' = stack /\ (pc' = pc \/ pc' # "waitHalted")
      \/ \E l, r \in Labels \ {"waitHalted"} : Call(l, r)
      \/ stack # <<>> /\ Return
      \/ stack' = <<"idle", "loop">> /\ pc' # "waitHalted"
      \/ pc = "wait"
  <2> USE <1>1 DEF At, Goto, Labels
  <2>1. CASE LoadWord \/ StoreWord \/ ReadTick \/ SecondPasses
    BY <2>1 DEF LoadWord, StoreWord, ReadTick, SecondPasses, threadVars
  <2>2. CASE IdleSecond \/ IdleKill \/ Halt \/ HaltOutput \/ HaltPin
    BY <2>2 DEF IdleSecond, IdleKill, Halt, HaltOutput, HaltPin
  <2>3. CASE IdleEnd \/ HaltTarget \/ SetOff \/ SetState \/ WaitHalted
    BY <2>3 DEF IdleEnd, HaltTarget, SetOff, SetState, WaitHalted, Frames
  <2>4. CASE IdleViolation \/ CheckTimeout \/ CheckRunaway
    BY <2>4 DEF IdleViolation, CheckTimeout, CheckRunaway
  <2>5. CASE SecondStart \/ NotYet \/ CheckOff \/ CheckStart \/ CheckReached \/ RunawayHalted
    BY <2>5 DEF SecondStart, NotYet, Checking, CheckOff, CheckStart, CheckReached, RunawayHalted
  <2>6. CASE Command
    BY <2>6 DEF Command
  <2>7. CASE Drain
    BY <2>7 DEF Drain
  <2>8. CASE SetTarget \/ Unreliable \/ Reliable \/ WaitTest
    BY <2>8 DEF SetTarget, Unreliable, Reliable, WaitTest
  <2>9. CASE Main
    BY <2>9 DEF Main, MainIdle, Unhalt
  <2> QED BY <2>1, <2>2, <2>3, <2>4, <2>5, <2>6, <2>7, <2>8, <2>9
          DEF Next, Thread, Idle, OnHalt, OnSecondTick, SetTemperature
<1>3. CASE stack' = stack /\ (pc' = pc \/ pc' # "waitHalted")
  BY <1>3 DEF InWait
<1>4. CASE \E l, r \in Labels \ {"waitHalted"} : Call(l, r)
  <2>1. PICK l, r \in Labels \ {"waitHalted"} : Call(l, r)
    BY <1>4
  <2>2. pc' = l /\ Head(stack') = r /\ Tail(stack') = stack
    BY <1>1, <2>1, Push DEF Call
  <2> QED BY <2>1, <2>2 DEF InWait
<1>5. CASE stack # <<>> /\ Return
  <2>1. pc' = Head(stack) /\ stack' = Tail(stack)
    BY <1>5 DEF Return
  <2>2. CASE stack' # <<>> /\ Tail(stack') # <<>> /\ Head(Tail(stack')) = "waitHalted"
    <3>1. Tail(stack') # <<"loop">>
      BY <2>2, Bottom
    <3>2. pc \in IdleLabels \cup HaltLabels \cup CommandLabels \cup {"loop"}
      BY <1>1 DEF Labels, IdleLabels, HaltLabels, CommandLabels
    <3>3. \/ stack = <<"loop">> \/ stack = <<"idle", "loop">>
          \/ Tail(stack) = <<"idle", "loop">>
          \/ Tail(stack) = <<"loop">>
          \/ Tail(Tail(stack)) = <<"idle", "loop">>
      BY <1>1, <1>5, <3>2 DEF Frames, HaltStack, IdleStack
    <3> QED BY <2>1, <2>2, <3>1, <3>3, Bottom
  <2>3. CASE pc' = "waitHalted" \/ (stack' # <<>> /\ Head(stack') = "waitHalted")
    BY <1>5, <2>1, <2>3 DEF InWait
  <2> QED BY <2>2, <2>3 DEF InWait
<1>6. CASE stack' = <<"idle", "loop">> /\ pc' # "waitHalted"
  BY <1>6, Bottom DEF InWait
<1> QED BY <1>2, <1>3, <1>4, <1>5, <1>6

\* A target is not set inside the wait of M109.
LEMMA NotInWait ==
  ASSUME TypeInv, pc \in {"loop", "set"}
  PROVE  ~InWait
BY Bottom DEF TypeInv, Frames, CommandLabels, InWait

\* The steps that reach the end of set_desired_temperature and M109's wait.
LEMMA AwaitsStep ==
  ASSUME TypeInv, Next, pc' \in Awaits \cup {"setOff"}
  PROVE  \/ SetTarget \/ SetOff \/ SetState \/ Reliable \/ WaitHalted
         \/ LoadWord \/ StoreWord \/ ReadTick \/ SecondPasses
<1> USE Caller DEF Awaits, At, Goto, Call, Return
<1>1. CASE Idle
  BY <1>1 DEF Idle, IdleSecond, IdleViolation, IdleEnd, IdleKill
<1>2. CASE OnHalt
  BY <1>2 DEF OnHalt, Halt, HaltOutput, HaltPin, HaltTarget
<1>3. CASE OnSecondTick
  BY <1>3 DEF OnSecondTick, SecondStart, NotYet, Checking, CheckOff, CheckStart, CheckReached,
     CheckTimeout, CheckRunaway, RunawayHalted
<1>4. CASE Command \/ Drain \/ Unreliable \/ WaitTest \/ Main
  BY <1>4 DEF Command, Drain, Unreliable, WaitTest, Main, MainIdle, Unhalt
<1> QED BY <1>1, <1>2, <1>3, <1>4 DEF Next, Thread, SetTemperature

\* The target that M109 waits for stays what it asked for, unless it is given up.
LEMMA WaitStep ==
  ASSUME TypeInv, WaitInv, Next
  PROVE  WaitInv'
<1> DEFINE Off == pc = "setOff" => target <= 0 /\ (~Undefines => target = Desired)
           Given == target = UNDEFINED /\ (word.violated \/ forgotten)
           Awaiting == pc \in Awaits => /\ target = Desired \/ Given
                                        /\ ops # <<>> => Head(ops).f # "violated"
           Inside == InWait => target \in {Desired, UNDEFINED}
<1> SUFFICES Off' /\ Awaiting' /\ Inside'
  BY DEF WaitInv
<1>1. Off /\ Awaiting /\ Inside
  BY DEF WaitInv
<1>2. word \in Word /\ OpsType
  BY DEF TypeInv, TypeOK
<1>3. CASE Idle \/ OnHalt \/ OnSecondTick \/ Drain \/ Unreliable \/ WaitTest \/ Main
  <2>1. target' \in {target, UNDEFINED} /\ UNCHANGED <<arg, word, forgotten>>
    BY <1>3 DEF Idle, IdleSecond, IdleViolation, IdleEnd, IdleKill, OnHalt, Halt, HaltOutput, HaltPin,
       HaltTarget, HaltKeeps, OnSecondTick, SecondStart, NotYet, CheckOff, CheckStart, CheckReached,
       CheckTimeout, CheckRunaway, RunawayHalted, CheckKeeps, Drain, Unreliable, WaitTest, Main,
       MainIdle, Unhalt, Quiet, HeatKept, WordKept, heatVars
  <2>2. Desired' = Desired
    BY <2>1 DEF Desired
  <2>3. pc \in Labels
    BY DEF TypeInv, TypeOK
  <2>4. pc' \notin Awaits \cup {"setOff"}
    <3> USE <2>3, Caller DEF Awaits, At, Goto, Call, Return
    <3>1. CASE Idle \/ OnHalt
      BY <3>1 DEF Idle, IdleSecond, IdleViolation, IdleEnd, IdleKill, OnHalt, Halt, HaltOutput,
         HaltPin, HaltTarget
    <3>2. CASE OnSecondTick
      BY <3>2 DEF OnSecondTick, SecondStart, NotYet, Checking, CheckOff, CheckStart, CheckReached,
         CheckTimeout, CheckRunaway, RunawayHalted
    <3>3. CASE Drain \/ Unreliable \/ WaitTest \/ Main
      BY <3>3 DEF Drain, Unreliable, WaitTest, Main, MainIdle, Unhalt
    <3> QED BY <1>3, <3>1, <3>2, <3>3
  <2>5. Inside'
    BY <1>1, <2>1, <2>2, InWaitStep DEF Awaits
  <2> QED BY <1>1, <2>1, <2>4, <2>5
<1>4. CASE Command
  <2>1. pc = "loop" /\ pc' \in {"set", "drain"}
    BY <1>4 DEF Command, At
  <2>2. ~InWait'
    BY <2>1, InWaitStep, NotInWait
  <2> QED BY <1>1, <2>1, <2>2 DEF Awaits
<1>5. CASE SetTarget
  <2>1. /\ pc = "set" /\ ops = <<>> /\ UNCHANGED <<word, arg, ops>>
        /\ target' = IF Undefines THEN UNDEFINED ELSE Desired
        /\ pc' = IF target' <= 0 THEN "setOff" ELSE "setState"
    BY <1>5 DEF SetTarget, SetKeeps, NoWrite, At, Goto
  <2>2. Desired' = Desired /\ (Undefines' <=> Undefines)
    BY <2>1 DEF Desired, Undefines
  <2>3. ~InWait'
    BY <2>1, InWaitStep, NotInWait
  <2>4. pc' = "setState" => ~Undefines
    BY <2>1 DEF UNDEFINED
  <2> QED BY <1>1, <2>1, <2>2, <2>3, <2>4 DEF Awaits
<1>6. CASE SetOff \/ SetState \/ Reliable \/ WaitHalted
  <2>1. UNCHANGED <<word, forgotten, arg, target>>
    BY <1>6 DEF SetOff, SetState, Reliable, WaitHalted, SetKeeps, WordKept, Quiet, HeatKept, heatVars
  <2>2. Desired' = Desired /\ (Undefines' <=> Undefines)
    BY <2>1 DEF Desired, Undefines
  <2>3. Inside'
    BY <1>1, <2>1, <2>2, InWaitStep DEF Awaits
  <2>4. Off'
    BY <1>6, Caller DEF SetOff, SetState, Reliable, WaitHalted, At, Goto, Return
  <2>5. CASE SetOff
    <3>1. pc = "setOff" /\ ops' = <<>> /\ (pc' \in Awaits => ~Undefines)
      BY <2>5, Caller DEF SetOff, SetKeeps, NoWrite, At, Goto, Return, Awaits
    <3> QED BY <1>1, <2>1, <2>2, <2>3, <2>4, <3>1
  <2>6. CASE SetState
    <3>1. pc = "setState" /\ ops' = <<>>
      BY <2>6 DEF SetState, SetKeeps, NoWrite, At
    <3> QED BY <1>1, <2>1, <2>2, <2>3, <2>4, <3>1 DEF Awaits
  <2>7. CASE Reliable
    <3>1. pc = "unreliable" /\ Head(ops').f = "waiting"
      BY <2>7, Single DEF Reliable, Write, Set, At
    <3> QED BY <1>1, <2>1, <2>2, <2>3, <2>4, <3>1 DEF Awaits
  <2>8. CASE WaitHalted
    <3>1. /\ pc = "waitHalted" /\ ops = <<>>
          /\ pc' \in Awaits => target # UNDEFINED /\ ops' = ops
      BY <2>8, Caller DEF WaitHalted, Write, NoWrite, At, Goto, Return, Awaits
    <3>2. target \in {Desired, UNDEFINED}
      BY <1>1, <3>1 DEF InWait
    <3> QED BY <1>1, <2>1, <2>2, <2>3, <2>4, <3>1, <3>2
  <2> QED BY <1>6, <2>5, <2>6, <2>7, <2>8
<1>7. CASE LoadWord
  <2>1. UNCHANGED <<target, arg, pc, stack, ops, word, forgotten>>
    BY <1>7 DEF LoadWord, heatVars
  <2> QED BY <1>1, <2>1 DEF Desired, Undefines, InWait
<1>8. CASE StoreWord
  <2>1. /\ UNCHANGED <<target, arg, pc, stack>> /\ reg' = <<>> /\ ops' = Tail(ops)
        /\ reg # <<>> /\ ops # <<>>
        /\ word' = [Head(reg) EXCEPT ![Head(ops).f] = Head(ops).v]
        /\ forgotten' = (forgotten \/ (word.violated /\ ~Head(reg).violated))
    BY <1>8 DEF StoreWord, heatVars
  <2>2. Head(reg) \in Word /\ Tail(ops) = <<>>
    <3>1. Head(reg) \in Word
      BY <2>1 DEF TypeInv, TypeOK
    <3>2. Tail(ops) = <<>>
      BY <1>2, <2>1, Single DEF OpsType
    <3> QED BY <3>1, <3>2
  <2>3. Head(ops).f # "violated" => (word.violated => word'.violated \/ forgotten')
    BY <1>2, <2>1, <2>2 DEF Word
  <2>4. Desired' = Desired /\ (Undefines' <=> Undefines) /\ (InWait' <=> InWait)
    BY <2>1 DEF Desired, Undefines, InWait
  <2>5. Awaiting'
    BY <1>1, <2>1, <2>2, <2>3, <2>4
  <2> QED BY <1>1, <2>1, <2>4, <2>5
<1>9. CASE ReadTick
  <2>1. UNCHANGED <<pc, stack, ops, arg, forgotten>>
    BY <1>9 DEF ReadTick, threadVars
  <2>2. Desired' = Desired /\ (Undefines' <=> Undefines) /\ (InWait' <=> InWait)
    BY <2>1 DEF Desired, Undefines, InWait
  <2>3. \/ UNCHANGED <<target, word>>
        \/ target > 2 * Degree /\ target' = UNDEFINED /\ word' = [word EXCEPT !.violated = TRUE]
    BY <1>9 DEF ReadTick
  <2>4. CASE UNCHANGED <<target, word>>
    BY <1>1, <2>1, <2>2, <2>4
  <2>5. CASE target > 2 * Degree /\ target' = UNDEFINED /\ word' = [word EXCEPT !.violated = TRUE]
    <3>1. word'.violated = TRUE
      BY <1>2, <2>5 DEF Word
    <3>2. Inside' /\ Awaiting'
      BY <1>1, <2>1, <2>2, <2>5, <3>1
    <3>3. target > 0
      <4>1. Degree \in Nat /\ target \in Int
        BY TemperatureAssumption DEF TypeInv, TypeOK, UNDEFINED
      <4> QED BY <2>5, <4>1
    <3>4. pc # "setOff"
      BY <1>1, <1>9, <3>3 DEF TypeInv, TypeOK, UNDEFINED
    <3> QED BY <2>1, <3>2, <3>4
  <2> QED BY <2>3, <2>4, <2>5
<1>10. CASE SecondPasses
  <2>1. UNCHANGED <<target, arg, pc, stack, ops, word, forgotten>>
    BY <1>10 DEF SecondPasses, threadVars, heatVars
  <2> QED BY <1>1, <2>1 DEF Desired, Undefines, InWait
<1> QED BY <1>3, <1>4, <1>5, <1>6, <1>7, <1>8, <1>9, <1>10 DEF Next, Thread, SetTemperature

-----------------------------------------------------------------------------
(* The theorems.                                                            *)

\* The heater starts cold, with the thread in its main loop.
LEMMA HeaterInit ==
  ASSUME Init
  PROVE  TypeInv /\ HaltInv /\ SupervisedInv /\ WaitInv
<1>1. 0 \in Timer
  BY TemperatureAssumption DEF Timer
<1>2. TypeOK
  <2>1. target \in {UNDEFINED} \cup Nat /\ o \in {0, 255} /\ heater \in BOOLEAN
    BY DEF Init
  <2>2. last_reading \in Readings \cup {0} /\ runaway_state \in RunawayState
    BY DEF Init, RunawayState
  <2>3. word \in Word /\ halted \in BOOLEAN /\ flag_1s \in 0 .. MaxSeconds
    <3>1. [timer |-> 0, tick |-> 0, waiting |-> FALSE, active |-> TRUE, violated |-> FALSE] \in Word
      BY <1>1 DEF Word
    <3>2. word = [timer |-> 0, tick |-> 0, waiting |-> FALSE, active |-> TRUE, violated |-> FALSE]
      BY DEF Init
    <3>3. word \in Word
      BY <3>1, <3>2, Zenon
    <3>4. halted \in BOOLEAN
      BY DEF Init
    <3>5. flag_1s \in 0 .. MaxSeconds
      BY DEF Init, MaxSeconds
    <3> QED BY <3>3, <3>4, <3>5
  <2>4. pc \in Labels /\ stack \in Seq(Labels) /\ reg = <<>>
    BY DEF Init, Labels
  <2>5. arg \in [s : Targets \cup {0}, by : {"M104", "M109", "set"}]
    BY DEF Init
  <2> QED BY <2>1, <2>2, <2>3, <2>4, <2>5 DEF TypeOK
<1>3. OpsType /\ Frames
  BY DEF Init, OpsType, Frames, IdleLabels, HaltLabels, CommandLabels
<1>4. HaltInv /\ SupervisedInv
  BY DEF Init, HaltInv, SupervisedInv
<1>5. WaitInv
  BY DEF Init, WaitInv, Awaits, InWait
<1> QED BY <1>2, <1>3, <1>4, <1>5 DEF TypeInv

\* A step that changes nothing keeps every invariant.
LEMMA HeaterStutter ==
  ASSUME UNCHANGED vars
  PROVE  /\ TypeInv => TypeInv'
         /\ HaltInv => HaltInv'
         /\ SupervisedInv => SupervisedInv'
         /\ WaitInv => WaitInv'
<1>1. UNCHANGED <<target, o, heater, last_reading, late, relit, skewed, forgotten,
                  runaway_state, word, halted, flag_1s, pc, stack, ops, reg, arg>>
  BY DEF vars, heatVars, threadVars
<1>2. TypeInv => TypeInv'
  BY <1>1 DEF TypeInv, TypeOK, OpsType, Frames
<1>3. (HaltInv => HaltInv') /\ (SupervisedInv => SupervisedInv')
  BY <1>1 DEF HaltInv, SupervisedInv
<1>4. WaitInv => WaitInv'
  BY <1>1 DEF WaitInv, InWait, Desired, Undefines
<1> QED BY <1>2, <1>3, <1>4

\* Every variable keeps its type, every bit field its width, and every call on
\* the thread's stack returns to one that expects it.
THEOREM HeaterTypes == Spec => []TypeInv
<1>1. Init => TypeInv
  BY HeaterInit
<1>2. TypeInv /\ [Next]_vars => TypeInv'
  BY TypeStep, HeaterStutter
<1> QED BY <1>1, <1>2, PTL DEF Spec

\* on_halt: a halted machine that is back in its main loop has no target, unless one
\* was set after the halt, and does not heat, unless a tick fell between the last two
\* statements of on_halt.
THEOREM HaltTurnsHeaterOff == Spec => []HaltTurnsOff
<1>1. Init => HaltInv
  BY HeaterInit
<1>2. TypeInv /\ HaltInv /\ [Next]_vars => HaltInv'
  BY HaltStep, HeaterStutter
<1>3. HaltInv => HaltTurnsOff
  BY DEF HaltInv, HaltTurnsOff, At
<1> QED BY <1>1, <1>2, <1>3, HeaterTypes, PTL DEF Spec

\* thermistor_read_tick watches the temperature of every heater that is on, and the
\* output it remembers is the one it has set: except for a target of 1 or 2 degrees and
\* for a tick inside on_halt.
THEOREM HeaterIsSupervised == Spec => []Supervised
<1>1. Init => SupervisedInv
  BY HeaterInit
<1>2. TypeInv /\ SupervisedInv /\ [Next]_vars => SupervisedInv'
  BY SupervisedStep, HeaterStutter
<1>3. TypeInv /\ SupervisedInv => Supervised
  BY DEF TypeInv, SupervisedInv, Supervised
<1> QED BY <1>1, <1>2, <1>3, HeaterTypes, PTL DEF Spec

\* M109 goes on at the temperature it was given, or because the interrupt has
\* given up; the flag that tells so may have been undone by a store of the word.
THEOREM WaitReachesTarget == Spec => WaitEndsHot
<1>1. Init => WaitInv
  BY HeaterInit
<1>2. TypeInv /\ WaitInv /\ [Next]_vars => WaitInv'
  BY WaitStep, HeaterStutter
<1> DEFINE Ends == At("wait") /\ Len(stack') < Len(stack) => 
                  last_reading >= Desired \/ word.violated \/ forgotten
<1>3. ASSUME TypeInv, WaitInv, Next PROVE Ends
  <2>1. target \in Int /\ last_reading \in Int /\ stack \in Seq(Labels) /\ pc \in Labels
    <3>1. \A t \in Readings : t \in Int
      BY TemperatureAssumption
    <3> QED BY <1>3, <3>1 DEF TypeInv, TypeOK, UNDEFINED
  <2>2. SUFFICES ASSUME At("wait"), Len(stack') < Len(stack)
                 PROVE  last_reading >= Desired \/ word.violated \/ forgotten
    OBVIOUS
  <2>3. stack' # stack
    BY <2>1, <2>2
  <2>4. pc = "wait" /\ ops = <<>>
    BY <2>2 DEF At
  <2>5. WaitTest
    <3>1. CASE Idle \/ OnHalt \/ OnSecondTick \/ Main
      BY <2>4, <3>1 DEF Idle, IdleSecond, IdleViolation, IdleEnd, IdleKill, OnHalt, Halt, HaltOutput,
         HaltPin, HaltTarget, OnSecondTick, SecondStart, NotYet, Checking, CheckOff, CheckStart,
         CheckReached, CheckTimeout, CheckRunaway, RunawayHalted, Main, MainIdle, Unhalt, At
    <3>2. CASE LoadWord \/ StoreWord \/ ReadTick \/ SecondPasses
      BY <2>3, <2>4, <3>2 DEF LoadWord, StoreWord, ReadTick, SecondPasses, threadVars
    <3>3. CASE SetTemperature
      BY <2>4, <3>3 DEF SetTemperature, Command, Drain, SetTarget, SetOff, SetState, Unreliable,
         Reliable, WaitHalted, At
    <3> QED BY <1>3, <3>1, <3>2, <3>3 DEF Next, Thread
  <2>6. ~(last_reading < target)
    <3>1. CASE Call("idle", "waitHalted")
      <4>1. Len(stack') = Len(stack) + 1
        BY <2>1, <3>1 DEF Call, Labels
      <4> QED BY <2>1, <2>2, <4>1
    <3> QED BY <2>5, <3>1 DEF WaitTest
  <2>7. target = Desired \/ word.violated \/ forgotten
    BY <1>3, <2>4 DEF WaitInv, Awaits
  <2> QED BY <2>1, <2>6, <2>7
<1>4. TypeInv /\ WaitInv /\ [Next]_vars => [Ends]_vars
  BY <1>3
<1> QED BY <1>1, <1>2, <1>4, HeaterTypes, PTL DEF Spec, WaitEndsHot

=============================================================================
