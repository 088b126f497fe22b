---------------------------- MODULE MotionQueue ----------------------------
(***************************************************************************)
(* The path of a move from the planner to the motors: Planner::append_block*)
(* prepares the head block, Conveyor queues it, the step ticker interrupt  *)
(* takes it, steps it and retires it, ON_IDLE returns it to the free part  *)
(* of the ring.                                                            *)
(*                                                                         *)
(* Three parties share the state.  The thread runs main(), one statement   *)
(* that touches shared state at a time: pc is where it is and stack the    *)
(* callers it has to return to.  TIMER0 (Tick) and the hard limit check of *)
(* TIMER2 (LimitHit) preempt it between any two of these.  A write by the  *)
(* thread to one of the bit fields of Conveyor is a load of the byte that  *)
(* holds all five followed by a store of that byte: ops lists the writes   *)
(* the thread still has to do, reg is the byte it has loaded.              *)
(***************************************************************************)
EXTENDS BlockQueue, Sequences, FiniteSets

CONSTANTS
  Motors,                \* the actuators
  MoveSet,               \* moves a command may ask for: steps of each motor, at
                         \* least one (append_block ignores a move without steps)
  MaxBlocks,             \* bound: blocks planned in a behaviour
  MaxOwed,               \* bound: owed saturates at +-MaxOwed
  Commands,              \* what the main loop does in this instance
  LimitSwitches          \* are hard limits enabled?

ASSUME MotionAssumption ==
  /\ MoveSet \subseteq [Motors -> Nat]
  /\ \A mv \in MoveSet : \E m \in Motors : mv[m] > 0
  /\ MaxBlocks \in Nat /\ MaxOwed \in Nat
  /\ Commands \subseteq {"move", "wait", "abort", "jog", "halt", "kill"}
  /\ LimitSwitches \in BOOLEAN

VARIABLES
  head_i, tail_i, isr_tail_i,    \* BlockQueue
  ring,                          \* BlockQueue::ring
  flags,                         \* the bit fields of Conveyor, one byte
  halted,                        \* Kernel::halted
  current_block,                 \* StepTicker; NoBlock when it is not running
  moving,                        \* StepperMotor::moving
  owed,                          \* last_milestone_steps - current_position_steps
  pc, stack,                     \* the thread
  ops, reg,                      \* writes to flags the thread has under way
  ti, word,                      \* block recalculate() is at, its flags as loaded
  elapsed,                       \* has queue_delay_time_ms passed?
  nextId,                        \* number of the next block (a name, not code)
  saved,                         \* Conveyor::saved_block
  stop_request,                  \* Kernel::stop_request
  limit                          \* Endstops: LIMIT_TRIGGERED, trigger_halt

ringVars   == <<head_i, tail_i, isr_tail_i, ring>>
threadVars == <<pc, stack, ops, reg, ti, word>>
motorVars  == <<current_block, moving, owed>>
shellVars  == <<saved, stop_request, limit>>
vars == <<ringVars, flags, halted, motorVars, threadVars, elapsed, nextId, shellVars>>

-----------------------------------------------------------------------------
(* State *)

Flag == {"running", "allow_fetch", "flush", "hold_queue", "continuous_mode"}
Byte == [Flag -> 0 .. 2]         \* continuous_mode takes 0, 1, 2; the rest 0, 1

Steps == [Motors -> Nat]
NoSteps == [m \in Motors |-> 0]

\* todo is steps_to_move - step_count, 0 for a motor that is not active.  taken
\* and torn are history, no code reads them: the interrupt has taken the block,
\* and it did so while the thread had the block in hand (InHand).
Block == [id : Nat, is_ready : BOOLEAN, is_ticking : BOOLEAN, locked : BOOLEAN,
          recalculate : BOOLEAN, steps : Steps, todo : Steps,
          taken : BOOLEAN, torn : BOOLEAN]

Cleared == [id |-> 0, is_ready |-> FALSE, is_ticking |-> FALSE, locked |-> FALSE,
            recalculate |-> FALSE, steps |-> NoSteps, todo |-> NoSteps,
            taken |-> FALSE, torn |-> FALSE]

\* The flags of a block share a byte too.
Word == [is_ticking : BOOLEAN, locked : BOOLEAN, recalculate : BOOLEAN]
WordOf(b) == [is_ticking |-> b.is_ticking, locked |-> b.locked, recalculate |-> b.recalculate]
NoWord == [is_ticking |-> FALSE, locked |-> FALSE, recalculate |-> FALSE]
NoBlock == -1

Op == [f : Flag, v : 0 .. 2]
Set(flag, value) == [f |-> flag, v |-> value]

\* Mutant: the tail of the interrupt taken for the head.
EmptyOfInterrupt == IsEmpty(isr_tail_i, tail_i)
Empty == IsEmpty(head_i, tail_i)
Full  == IsFull(head_i, tail_i)

\* Conveyor::is_idle
IsIdle == Empty /\ \A m \in Motors : ~moving[m]

Sat(n) == IF n > MaxOwed THEN MaxOwed ELSE IF n < -MaxOwed THEN -MaxOwed ELSE n

Init ==
  /\ head_i = 0 /\ tail_i = 0 /\ isr_tail_i = 0
  /\ ring = [i \in Index |-> Cleared]
  /\ flags = [f \in Flag |-> IF f = "running" THEN 1 ELSE 0]
  /\ halted = FALSE
  /\ current_block = NoBlock
  /\ moving = [m \in Motors |-> FALSE]
  /\ owed = [m \in Motors |-> 0]
  /\ pc = "loop" /\ stack = <<>> /\ ops = <<>> /\ reg = <<>>
  /\ ti = 0 /\ word = NoWord
  /\ elapsed = FALSE /\ nextId = 1
  /\ saved = NoSteps /\ stop_request = FALSE
  /\ limit = [triggered |-> FALSE, halt |-> FALSE]

-----------------------------------------------------------------------------
(* TIMER0: StepTicker::step_tick and what it calls, as functions of the    *)
(* part s of the state that the interrupt changes.  s.block is NoBlock     *)
(* when the ticker is not running: the code keeps a pointer it never reads *)
(* again in one case, which the model forgets.                             *)

IsrState == [isr |-> isr_tail_i, ring |-> ring, flags |-> flags,
             block |-> current_block, moving |-> moving, owed |-> owed]

\* The motors a block still has steps for.
Active(s, i) == {m \in Motors : s.ring[i].todo[m] > 0}

\* Conveyor::get_next_block, before it looks for a block.
Flushed(s) == IF s.flags["flush"] = 1
              THEN [s EXCEPT !.isr = head_i, !.flags["flush"] = 0]
              ELSE s

\* Mutants: no test for an empty queue, for locked.
MayFetchEmpty(s) == ~halted /\ s.flags["allow_fetch"] = 1 /\ ~s.ring[s.isr].locked
MayFetchLocked(s) == ~halted /\ s.isr # head_i /\ s.flags["allow_fetch"] = 1
\* There is a block and the interrupt may have it.
MayFetch(s) == /\ ~halted /\ s.isr # head_i
               /\ \/ s.flags["continuous_mode"] > 1
                  \/ s.flags["allow_fetch"] = 1 /\ ~s.ring[s.isr].locked

\* In continuous mode Block::reset puts the saved tick info back first.
TickInfo(s) ==
  IF s.flags["continuous_mode"] > 1
  THEN [m \in Motors |-> IF saved[m] = 0 THEN s.ring[s.isr].todo[m] ELSE saved[m]]
  ELSE s.ring[s.isr].todo

\* The thread is about to write block i on the word of a test, or of a load,
\* that was made before the interrupt took the block.
InHand(i) ==
  \/ pc \in {"lock", "lockStore"} /\ ti = i
  \/ pc = "fwdStore" /\ NextIndex(ti) = i

Taken(s) ==
  LET b == s.ring[s.isr] IN
  [s EXCEPT !.ring[s.isr] = [b EXCEPT !.is_ticking = TRUE, !.recalculate = FALSE,
                                      !.todo = TickInfo(s), !.taken = TRUE,
                                      !.torn = b.torn \/ InHand(s.isr)]]

\* Mutant: the tail of the interrupt is not moved.
BlockFinishedStays(s) == s

\* Conveyor::block_finished
BlockFinished(s) ==
  IF s.flags["continuous_mode"] <= 1
  THEN [s EXCEPT !.isr = NextIndex(@),
                 !.flags["continuous_mode"] = IF @ = 1 THEN 2 ELSE @]
  ELSE s

\* StepTicker::start_next_block; a block without steps is discarded.
StartNextBlock(s, i) ==
  IF Active(s, i) = {} THEN [BlockFinished(s) EXCEPT !.block = NoBlock]
  ELSE [s EXCEPT !.block = i,
                 !.moving = [m \in Motors |-> m \in Active(s, i) \/ @[m]]]

\* get_next_block, then start_next_block if there was one.
NextBlock(s) ==
  LET f == Flushed(s) IN
  IF s.flags["hold_queue"] = 1 THEN [s EXCEPT !.block = NoBlock]
  ELSE IF MayFetch(f) THEN StartNextBlock(Taken(f), f.isr)
  ELSE [f EXCEPT !.block = NoBlock]

\* The motors of S take a step.  A motor that someone else has stopped, or that
\* has done its last step, becomes inactive.
Stepped(s, S) ==
  LET i == s.block
      last(m) == ~s.moving[m] \/ s.ring[i].todo[m] = 1
  IN [s EXCEPT
        !.ring[i].todo = [m \in Motors |-> IF m \notin S THEN @[m]
                                           ELSE IF last(m) THEN 0 ELSE @[m] - 1],
        !.moving = [m \in Motors |-> @[m] /\ ~(m \in S /\ last(m))],
        !.owed = [m \in Motors |-> IF m \in S THEN Sat(@[m] - 1) ELSE @[m]]]

\* What a tick does to a running block, up to starting the next one.
RunBlock(s, S) ==
  LET t == Stepped(s, S) IN
  IF \E m \in Active(s, s.block) : t.moving[m] THEN t ELSE NextBlock(BlockFinished(t))

\* The state after the first lines of step_tick: a block runs if there is one.
Begun(s) == IF s.block = NoBlock THEN NextBlock(s) ELSE s

StepTick(s, S) ==
  IF s.block = NoBlock THEN s
  ELSE IF halted THEN [s EXCEPT !.block = NoBlock]
  ELSE RunBlock(s, S)

\* Which motors are due a step is a matter of their rates.  A tick that finds a
\* block running, with a motor moving and none due, changes nothing and is left
\* out.
Due(s, S) ==
  IF s.block = NoBlock THEN S = {}
  ELSE
     /\ S \subseteq Active(s, s.block)
     /\ S = {} => \/ current_block = NoBlock \/ halted
                  \/ \A m \in Active(s, s.block) : ~s.moving[m]

Tick ==
  /\ \E S \in SUBSET Motors :
       LET s == Begun(IsrState)
           t == StepTick(s, S)
       IN /\ Due(s, S)
          /\ isr_tail_i' = t.isr
          /\ ring' = t.ring
          /\ flags' = t.flags
          /\ current_block' = t.block
          /\ moving' = t.moving
          /\ owed' = t.owed
  /\ UNCHANGED <<head_i, tail_i, halted, threadVars, elapsed, nextId, shellVars>>

\* TIMER2: Endstops::check_limits.  A limit switch of a moving axis is hit;
\* Kernel::immediate_halt stops everything, ON_HALT is left to ON_IDLE.
LimitHit ==
  /\ LimitSwitches /\ ~limit.triggered
  /\ \E m \in Motors : moving[m]
  /\ halted' = TRUE
  /\ flags' = [flags EXCEPT !["allow_fetch"] = 0, !["flush"] = 1]
  /\ moving' = [m \in Motors |-> FALSE]
  /\ limit' = [triggered |-> TRUE, halt |-> TRUE]
  /\ UNCHANGED <<ringVars, current_block, owed, threadVars, elapsed, nextId,
                 saved, stop_request>>

\* All limit switches have been released for the debounce time.
LimitClear ==
  /\ limit.triggered
  /\ limit' = [limit EXCEPT !.triggered = FALSE]
  /\ UNCHANGED <<ringVars, flags, halted, motorVars, threadVars, elapsed, nextId,
                 saved, stop_request>>

\* queue_delay_time_ms has passed since check_queue last restarted the delay.
TimePasses ==
  /\ ~elapsed
  /\ elapsed' = TRUE
  /\ UNCHANGED <<ringVars, flags, halted, motorVars, threadVars, nextId, shellVars>>

\* The serial interrupt has received ^Y.
StopRequest ==
  /\ "jog" \in Commands /\ ~stop_request
  /\ stop_request' = TRUE
  /\ UNCHANGED <<ringVars, flags, halted, motorVars, threadVars, elapsed, nextId,
                 saved, limit>>

-----------------------------------------------------------------------------
(* The thread.  At(l) is a step that starts at l once the writes to flags  *)
(* of the step before it are done.                                         *)

At(l) == pc = l /\ ops = <<>>

Goto(l)      == pc' = l /\ stack' = stack
Call(l, ret) == pc' = l /\ stack' = <<ret>> \o stack
Return       == pc' = Head(stack) /\ stack' = Tail(stack)

\* One write to flags: load the byte, then store it with one field changed.
LoadFlags ==
  /\ ops # <<>> /\ reg = <<>>
  /\ reg' = <<flags>>
  /\ UNCHANGED <<ringVars, flags, halted, motorVars, pc, stack, ops, ti, word,
                 elapsed, nextId, shellVars>>

StoreFlags ==
  /\ ops # <<>> /\ reg # <<>>
  /\ flags' = [Head(reg) EXCEPT ![Head(ops).f] = Head(ops).v]
  /\ reg' = <<>> /\ ops' = Tail(ops)
  /\ UNCHANGED <<ringVars, halted, motorVars, pc, stack, ti, word,
                 elapsed, nextId, shellVars>>

\* Conveyor::check_queue
CheckQueue(force) ==
  LET allow == ~Empty /\ (force \/ Full \/ elapsed) IN
  /\ ops' = IF Empty THEN <<Set("allow_fetch", 0)>>
            ELSE IF allow /\ flags["flush"] = 0 THEN <<Set("allow_fetch", 1)>>
            ELSE <<>>
  /\ elapsed' = (elapsed /\ ~Empty /\ ~allow)

Write(writes) == ops' = writes /\ UNCHANGED elapsed
NoWrite == UNCHANGED <<ops, elapsed>>

ThreadKeeps == UNCHANGED <<isr_tail_i, flags, current_block, reg, saved>>
RingKept == UNCHANGED <<head_i, tail_i, ring, nextId, ti, word>>
MotionKept == UNCHANGED <<halted, moving, owed, limit, stop_request>>

(* ON_IDLE: Conveyor::on_idle, then the modules that may raise ON_HALT.    *)

IdleCheck ==
  /\ At("idle")
  /\ IF flags["running"] = 1 THEN CheckQueue(FALSE) ELSE NoWrite
  /\ Goto("gc")
  /\ ThreadKeeps /\ RingKept /\ MotionKept

\* Mutants: collects up to the head; collects only while running is set.
IdleCollectAll ==
  /\ At("gc")
  /\ IF Empty THEN UNCHANGED <<ring, tail_i>>
     ELSE ring' = [ring EXCEPT ![tail_i] = Cleared] /\ tail_i' = NextIndex(tail_i)
  /\ Goto("others") /\ NoWrite
  /\ ThreadKeeps /\ MotionKept /\ UNCHANGED <<head_i, nextId, ti, word>>
IdleCollectRunning ==
  /\ At("gc")
  /\ IF tail_i = isr_tail_i \/ flags["running"] = 0 THEN UNCHANGED <<ring, tail_i>>
     ELSE ring' = [ring EXCEPT ![tail_i] = Cleared] /\ tail_i' = NextIndex(tail_i)
  /\ Goto("others") /\ NoWrite
  /\ ThreadKeeps /\ MotionKept /\ UNCHANGED <<head_i, nextId, ti, word>>

IdleCollect ==
  /\ At("gc")
  /\ IF tail_i = isr_tail_i THEN UNCHANGED <<ring, tail_i>>
     ELSE /\ ~Empty                     \* __debugbreak otherwise: BreakReached
          /\ ring' = [ring EXCEPT ![tail_i] = Cleared]
          /\ tail_i' = NextIndex(tail_i)
  /\ Goto("others") /\ NoWrite
  /\ ThreadKeeps /\ MotionKept /\ UNCHANGED <<head_i, nextId, ti, word>>

\* Endstops::on_idle and KillButton::on_idle; "kill" is the button.
IdleEnd ==
  /\ At("others") /\ ~limit.halt
  /\ Return /\ NoWrite
  /\ ThreadKeeps /\ RingKept /\ MotionKept

IdleHalt ==
  /\ At("others")
  /\ \/ limit.halt
     \/ "kill" \in Commands /\ ~halted
  /\ limit' = [limit EXCEPT !.halt = FALSE]
  /\ Goto("halt") /\ NoWrite
  /\ ThreadKeeps /\ RingKept /\ UNCHANGED <<halted, moving, owed, stop_request>>

\* A line takes longer to arrive, or a button to be held, than the 10us to the
\* next tick: the ticker has seen halted and, if idle, a request to flush.
TickerSettled ==
  /\ halted => current_block = NoBlock
  /\ flags["flush"] = 1 /\ flags["hold_queue"] = 0 => current_block # NoBlock

IdleUnhalt ==
  /\ At("others") /\ ~limit.halt
  /\ "kill" \in Commands /\ halted /\ TickerSettled
  /\ Goto("unhalt") /\ NoWrite
  /\ ThreadKeeps /\ RingKept /\ MotionKept

(* Kernel::call_event(ON_HALT, nullptr): Conveyor::on_halt, then           *)
(* StepperMotor::on_halt, then Robot takes its position from the motors.   *)

Halt ==
  /\ At("halt")
  /\ halted' = TRUE
  /\ Goto(IF IsIdle THEN "stop" ELSE "stopSync")
  /\ Write(<<Set("allow_fetch", 0), Set("flush", 1), Set("hold_queue", 0),
             Set("continuous_mode", 0)>>)
  /\ ThreadKeeps /\ RingKept /\ UNCHANGED <<moving, owed, limit, stop_request>>

HaltMotors ==
  /\ At("stop") \/ At("stopSync")
  /\ moving' = [m \in Motors |-> FALSE]
  /\ owed' = IF pc = "stopSync" THEN [m \in Motors |-> 0] ELSE owed
  /\ Return /\ NoWrite
  /\ ThreadKeeps /\ RingKept /\ UNCHANGED <<halted, limit, stop_request>>

\* call_event(ON_HALT, 1), M999 or the button.
Unhalt ==
  /\ At("unhalt")
  /\ halted' = FALSE
  /\ Goto("sync") /\ NoWrite
  /\ ThreadKeeps /\ RingKept /\ UNCHANGED <<moving, owed, limit, stop_request>>

\* Mutant: the planner keeps the position it had planned.
SyncNothing ==
  /\ At("sync") /\ owed' = owed
  /\ Return /\ NoWrite
  /\ ThreadKeeps /\ RingKept /\ UNCHANGED <<halted, moving, limit, stop_request>>

\* Robot::reset_position_from_current_actuator_position
SyncPosition ==
  /\ At("sync")
  /\ owed' = [m \in Motors |-> 0]
  /\ Return /\ NoWrite
  /\ ThreadKeeps /\ RingKept /\ UNCHANGED <<halted, moving, limit, stop_request>>

(* Planner::append_block: fill the head block, recalculate, queue it.      *)

\* Where the backward walk of recalculate() stops: at the tail, or at the last
\* block that needs no recalculation.
Queued == Span(tail_i, head_i)
Stops  == {i \in Queued : i = tail_i \/ ~ring[i].recalculate}
RecalculateFrom(i) ==
  IF Empty THEN i = head_i
  ELSE i \in Stops /\ \A j \in Stops : Dist(i, head_i) <= Dist(j, head_i)

PlanBlock(mv) ==
  /\ nextId <= MaxBlocks /\ nextId' = nextId + 1
  /\ ring' = [ring EXCEPT ![head_i] =
                [@ EXCEPT !.id = nextId, !.steps = mv, !.recalculate = TRUE]]
  /\ owed' = [m \in Motors |-> Sat(owed[m] + mv[m])]
  /\ \E i \in Index : RecalculateFrom(i) /\ ti' = i
  /\ pc' = IF Empty THEN "trap" ELSE "fwd"
  /\ NoWrite /\ ThreadKeeps
  /\ UNCHANGED <<head_i, tail_i, word, halted, moving, limit, stop_request>>

SetWord(i, w) ==
  ring' = [ring EXCEPT ![i] = [@ EXCEPT !.is_ticking = w.is_ticking, !.locked = w.locked,
                                        !.recalculate = w.recalculate]]

TrapezoidKeeps ==
  /\ stack' = stack /\ NoWrite /\ ThreadKeeps /\ MotionKept
  /\ UNCHANGED <<head_i, tail_i, nextId>>

\* Block::forward_pass of the block after ti; it clears recalculate_flag when
\* the block turns out to be limited by acceleration.
ForwardPass ==
  /\ At("fwd")
  /\ \/ word' = WordOf(ring[NextIndex(ti)]) /\ pc' = "fwdStore"
     \/ word' = word /\ pc' = "trap"
  /\ ti' = ti /\ ring' = ring /\ TrapezoidKeeps

ForwardStore ==
  /\ At("fwdStore")
  /\ SetWord(NextIndex(ti), [word EXCEPT !.recalculate = FALSE])
  /\ word' = NoWord /\ pc' = "trap"
  /\ ti' = ti /\ TrapezoidKeeps

\* Mutant: the block is queued before ready().
NextTrapezoidUnready ==
  IF ti = head_i THEN ti' = ti /\ pc' = "qhb"
  ELSE ti' = NextIndex(ti) /\ pc' = IF NextIndex(ti) = head_i THEN "trap" ELSE "fwd"

\* The block after ti is next; the head block ends the walk.
NextTrapezoid ==
  IF ti = head_i THEN ti' = ti /\ pc' = "ready"
  ELSE ti' = NextIndex(ti) /\ pc' = IF NextIndex(ti) = head_i THEN "trap" ELSE "fwd"

\* Block::calculate_trapezoid leaves a ticking block alone, ...
Trapezoid ==
  /\ At("trap")
  /\ IF ring[ti].is_ticking THEN NextTrapezoid ELSE ti' = ti /\ pc' = "lock"
  /\ word' = word /\ ring' = ring /\ TrapezoidKeeps

\* ... works out the trapezoid of any other and sets locked, ...
Lock ==
  /\ At("lock")
  /\ word' = WordOf(ring[ti]) /\ pc' = "lockStore"
  /\ ti' = ti /\ ring' = ring /\ TrapezoidKeeps

LockStore ==
  /\ At("lockStore")
  /\ SetWord(ti, [word EXCEPT !.locked = TRUE])
  /\ word' = NoWord /\ pc' = "prepare"
  /\ ti' = ti /\ TrapezoidKeeps

\* ... and writes it: Block::prepare, then locked is cleared.
Prepare ==
  /\ At("prepare")
  /\ ring' = [ring EXCEPT ![ti] = [@ EXCEPT !.todo = ring[ti].steps, !.locked = FALSE]]
  /\ NextTrapezoid
  /\ word' = word /\ TrapezoidKeeps

\* Block::ready
Ready ==
  /\ At("ready")
  /\ ring' = [ring EXCEPT ![head_i].is_ready = TRUE]
  /\ Goto("qhb") /\ NoWrite /\ ThreadKeeps /\ MotionKept
  /\ UNCHANGED <<head_i, tail_i, nextId, ti, word>>

(* Conveyor::queue_head_block                                              *)

\* Mutant: waits for room without calling ON_IDLE.
QueueSpin ==
  /\ At("qhb") /\ Full /\ ~halted
  /\ Goto("qhb") /\ NoWrite
  /\ ThreadKeeps /\ RingKept /\ MotionKept

QueueWait ==
  /\ At("qhb") /\ Full /\ ~halted
  /\ Call("idle", "qhb") /\ NoWrite
  /\ ThreadKeeps /\ RingKept /\ MotionKept

QueueRefuse ==
  /\ At("qhb") /\ halted
  /\ ring' = [ring EXCEPT ![head_i] = Cleared]
  /\ Return /\ NoWrite /\ ThreadKeeps /\ MotionKept
  /\ UNCHANGED <<head_i, tail_i, nextId, ti, word>>

QueueRoom ==
  /\ At("qhb") /\ ~Full /\ ~halted
  /\ Goto("produce") /\ NoWrite
  /\ ThreadKeeps /\ RingKept /\ MotionKept

ProduceHead ==
  /\ At("produce") /\ ~Full
  /\ head_i' = NextIndex(head_i)
  /\ Goto("queued") /\ NoWrite /\ ThreadKeeps /\ MotionKept
  /\ UNCHANGED <<tail_i, ring, nextId, ti, word>>

QueueCheck ==
  /\ At("queued")
  /\ CheckQueue(FALSE) /\ Return
  /\ ThreadKeeps /\ RingKept /\ MotionKept

(* Conveyor::wait_for_idle                                                 *)

WaitStart ==
  /\ At("wfi")
  /\ Write(<<Set("running", 0)>>) /\ Goto("drain")
  /\ ThreadKeeps /\ RingKept /\ MotionKept

WaitQueue ==
  /\ At("drain")
  /\ IF Empty THEN Goto("still") /\ NoWrite
     ELSE CheckQueue(TRUE) /\ Call("idle", "drain")
  /\ ThreadKeeps /\ RingKept /\ MotionKept

\* Mutant: running is left cleared.
WaitMotorsNotRunning ==
  /\ At("still")
  /\ IF IsIdle THEN NoWrite /\ Return ELSE NoWrite /\ Call("idle", "still")
  /\ ThreadKeeps /\ RingKept /\ MotionKept

WaitMotors ==
  /\ At("still")
  /\ IF IsIdle THEN Write(<<Set("running", 1)>>) /\ Return
     ELSE NoWrite /\ Call("idle", "still")
  /\ ThreadKeeps /\ RingKept /\ MotionKept

(* SimpleShell::jog with -c.  Three blocks are queued while the queue is   *)
(* held; the second is then run again and again until ^Y or a halt.        *)

JogKeeps == ThreadKeeps /\ RingKept /\ MotionKept

JogHold ==
  /\ At("jogHold")
  /\ Write(<<Set("hold_queue", 1)>>) /\ Goto("jog1")
  /\ JogKeeps

JogNext == [jog1 |-> "jog2", jog2 |-> "jog3", jog3 |-> "jogMode"]

\* Robot::delta_move
JogMove ==
  /\ pc \in DOMAIN JogNext /\ ops = <<>>
  /\ ~halted /\ TickerSettled
  /\ \E mv \in MoveSet : PlanBlock(mv)
  /\ stack' = <<JogNext[pc]>> \o stack

JogRefused ==
  /\ pc \in DOMAIN JogNext /\ ops = <<>>
  /\ halted
  /\ Goto(JogNext[pc]) /\ NoWrite /\ JogKeeps

\* Conveyor::set_continuous_mode(true); when it refuses, jog returns at once.
JogMode ==
  /\ At("jogMode")
  /\ IF Empty \/ flags["hold_queue"] = 0
     THEN Return /\ NoWrite /\ saved' = saved
     ELSE /\ saved' = ring[NextIndex(tail_i)].todo
          /\ Write(<<Set("continuous_mode", 1), Set("hold_queue", 0)>>)
          /\ Goto("jogForce")
  /\ RingKept /\ MotionKept
  /\ UNCHANGED <<isr_tail_i, flags, current_block, reg>>

JogForce ==
  /\ At("jogForce")
  /\ CheckQueue(TRUE) /\ Goto("jogging")
  /\ JogKeeps

Jogging ==
  /\ At("jogging") /\ ~stop_request
  /\ Call("idle", "jogHalted") /\ NoWrite
  /\ JogKeeps

JogHalted ==
  /\ At("jogHalted")
  /\ Goto(IF halted THEN "jogEnd" ELSE "jogging") /\ NoWrite
  /\ JogKeeps

JogStopped ==
  /\ At("jogging") /\ stop_request
  /\ Goto("jogEnd") /\ NoWrite
  /\ JogKeeps

\* set_continuous_mode(false) clears the mode before it frees the saved info.
JogEnd ==
  /\ At("jogEnd")
  /\ Write(<<Set("continuous_mode", 0)>>) /\ Goto("jogFree")
  /\ JogKeeps

JogFree ==
  /\ At("jogFree")
  /\ saved' = NoSteps /\ stop_request' = FALSE
  /\ Call("wfi", "sync") /\ NoWrite
  /\ UNCHANGED <<isr_tail_i, flags, current_block, reg, halted, moving, owed, limit>>
  /\ RingKept

(* main(): ON_MAIN_LOOP, in which at most one command runs, and ON_IDLE.   *)

MainIdle ==
  /\ At("loop") /\ Call("idle", "loop") /\ NoWrite
  /\ JogKeeps

MainMove ==
  /\ At("loop") /\ "move" \in Commands
  /\ ~halted /\ TickerSettled
  /\ \E mv \in MoveSet : PlanBlock(mv)
  /\ stack' = <<"loop">>

\* M400 and every command that waits for the queue to drain.
MainWait ==
  /\ At("loop") /\ "wait" \in Commands
  /\ Call("wfi", "loop") /\ NoWrite
  /\ JogKeeps

\* Player::abort_command
MainAbort ==
  /\ At("loop") /\ "abort" \in Commands
  /\ Write(<<Set("allow_fetch", 0), Set("flush", 1)>>)
  /\ pc' = "wfi" /\ stack' = <<"sync", "loop">>
  /\ JogKeeps

\* M112, or a module that raises ON_HALT from a command.
MainHalt ==
  /\ At("loop") /\ "halt" \in Commands /\ ~halted
  /\ Call("halt", "loop") /\ NoWrite
  /\ JogKeeps

\* M999, sent once the halt has been reported (by ON_IDLE, for a limit).
MainUnhalt ==
  /\ At("loop") /\ halted /\ TickerSettled /\ ~limit.halt
  /\ Call("unhalt", "loop") /\ NoWrite
  /\ JogKeeps

\* Mutant: jog does not wait for the moves before it.
MainJogAtOnce ==
  /\ At("loop") /\ "jog" \in Commands
  /\ nextId + 2 <= MaxBlocks
  /\ stop_request' = FALSE
  /\ pc' = "jogHold" /\ stack' = <<"loop">>
  /\ NoWrite /\ ThreadKeeps /\ RingKept /\ UNCHANGED <<halted, moving, owed, limit>>

\* A ^Y that came before the command cancels it.
MainJog ==
  /\ At("loop") /\ "jog" \in Commands
  /\ nextId + 2 <= MaxBlocks
  /\ stop_request' = FALSE
  /\ IF stop_request THEN Goto("loop")
     ELSE pc' = "wfi" /\ stack' = <<"jogHold", "loop">>
  /\ NoWrite /\ ThreadKeeps /\ RingKept /\ UNCHANGED <<halted, moving, owed, limit>>

-----------------------------------------------------------------------------
Idle == IdleCheck \/ IdleCollect \/ IdleEnd \/ IdleHalt \/ IdleUnhalt
OnHalt == Halt \/ HaltMotors \/ Unhalt \/ SyncPosition
AppendBlock ==
  \/ ForwardPass \/ ForwardStore \/ Trapezoid \/ Lock \/ LockStore \/ Prepare
  \/ Ready \/ QueueWait \/ QueueRefuse \/ QueueRoom \/ ProduceHead \/ QueueCheck
Wait == WaitStart \/ WaitQueue \/ WaitMotors
Jog == \/ JogHold \/ JogMove \/ JogRefused \/ JogMode \/ JogForce
       \/ Jogging \/ JogHalted \/ JogStopped \/ JogEnd \/ JogFree
Main == MainIdle \/ MainMove \/ MainWait \/ MainAbort \/ MainHalt \/ MainUnhalt \/ MainJog

Thread == LoadFlags \/ StoreFlags \/ Idle \/ OnHalt \/ AppendBlock \/ Wait \/ Jog \/ Main
Interrupt == Tick \/ LimitHit \/ LimitClear \/ TimePasses \/ StopRequest

Next == Thread \/ Interrupt

Spec == Init /\ [][Next]_vars

\* The thread is never blocked (it polls), TIMER0 fires every 10us and time
\* passes.  A store may not be postponed either: it is a step of the thread.
Fairness == WF_vars(Thread) /\ WF_vars(Tick) /\ WF_vars(TimePasses)

FairSpec == Spec /\ Fairness

-----------------------------------------------------------------------------
(* Properties *)

Labels == {"loop", "idle", "gc", "others", "halt", "stop", "stopSync", "unhalt", "sync",
           "fwd", "fwdStore", "trap", "lock", "lockStore", "prepare", "ready", "qhb",
           "produce", "queued", "wfi", "drain", "still", "jogHold", "jog1", "jog2", "jog3",
           "jogMode", "jogForce", "jogging", "jogHalted", "jogEnd", "jogFree"}

RingType  == /\ head_i \in Index /\ tail_i \in Index /\ isr_tail_i \in Index
             /\ ring \in [Index -> Block]
FlagsType == /\ flags \in Byte /\ ops \in Seq(Op)
             /\ reg \in Seq(Byte) /\ (reg = <<>> \/ Len(reg) = 1)
MotorType == /\ current_block \in Index \cup {NoBlock}
             /\ moving \in [Motors -> BOOLEAN]
             /\ owed \in [Motors -> -MaxOwed .. MaxOwed]
WalkType  == ti \in Index /\ word \in Word
StackType == pc \in Labels /\ stack \in Seq(Labels)
ShellType == /\ halted \in BOOLEAN /\ elapsed \in BOOLEAN
             /\ nextId \in 1 .. MaxBlocks + 1
             /\ saved \in Steps /\ stop_request \in BOOLEAN
             /\ limit \in [triggered : BOOLEAN, halt : BOOLEAN]

\* The main loop is at the bottom of the stack, and nowhere else.
StackEnds ==
  /\ pc = "loop" <=> stack = <<>>
  /\ \A i \in 1 .. Len(stack) : stack[i] = "loop" <=> i = Len(stack)

TypeOK == RingType /\ FlagsType /\ MotorType /\ WalkType /\ StackType /\ ShellType /\ StackEnds
IndicesOrdered == Ordered(tail_i, isr_tail_i, head_i)

\* The three indices of the double ring keep their order: the interrupt's tail
\* stays between the tail and the head, whoever moves them and however flushes,
\* retirements and collection interleave.  And every variable has its type, and
\* every call returns to the main loop.
RingOrder == TypeOK /\ IndicesOrdered

\* The block being stepped is the one at the interrupt's tail and is queued, so
\* that neither the planner (head) nor the collector (tail up to the
\* interrupt's tail) can reuse it while it runs.
RunningBlockOwned ==
  current_block # NoBlock => current_block = isr_tail_i /\ isr_tail_i # head_i

\* The two __debugbreak() that "should never happen" do not: a block the
\* interrupt can take is ready, and the collector never finds an empty queue.
BreakNotReached ==
  /\ \A i \in Span(isr_tail_i, head_i) : ring[i].is_ready
  /\ pc = "gc" /\ tail_i # isr_tail_i => ~Empty

\* "if block is currently executing, don't touch anything!"  The interrupt can
\* take the block after that test: the code does not keep this.
TickingUntouched ==
  [][\A i \in Index : current_block = i /\ pc = "prepare" /\ pc' # pc => ring'[i] = ring[i]]_vars

\* The thread writes the trapezoid of no block that is being stepped, except one
\* that the interrupt took between the thread's test of is_ticking (or the load
\* of the byte it is in) and the store of locked: whatever else the two do, the
\* flag and the lock keep them off each other's block.
Untorn(i) == ~ring[i].torn
UntornUntouched ==
  [][\A i \in Index : current_block = i /\ Untorn(i) /\ pc = "prepare" /\ pc' # pc =>
       ring'[i] = ring[i]]_vars

\* Between commands, the difference between where the planner thinks a motor
\* will be and where it is equals the steps that are still in the queue.  A step
\* is named by its block and its number in it.
QueuedSteps(m) == UNION {{i} \X (1 .. ring[i].todo[m]) : i \in Span(isr_tail_i, head_i)}
PositionAccounted ==
  At("loop") /\ ~halted => \A m \in Motors : owed[m] = Sat(Cardinality(QueuedSteps(m)))

\* wait_for_idle returns only when the queue is empty and nothing moves.
WaitMeansStopped ==
  [][pc = "still" /\ pc' \notin {"still", "idle"} =>
       head_i = tail_i /\ current_block = NoBlock /\ \A m \in Motors : ~moving[m]]_vars

\* "do not use to hold the queue when it is running otherwise it will stop with
\* zero deceleration": the queue is held only when no block is being stepped.
HoldOnlyWhenStopped == flags["hold_queue"] = 1 => current_block = NoBlock

\* "in continuous mode we keep feeding the same block", the second of three.  A
\* store of the byte may undo the step to it: the code does not keep this.
ContinuousFeedsSecond ==
  flags["continuous_mode"] = 2 /\ ~halted => Dist(isr_tail_i, head_i) = 2

\* Whoever waits for room in the queue, or for it to drain, gets on.
QueueHeadReturns == pc = "qhb" ~> pc \in {"queued", "loop"}
WaitReturns == pc = "drain" ~> pc \in {"loop", "sync", "jogHold"}

\* Whatever has been queued is run (or flushed) and collected, even when the
\* queue is not full and nobody forces it.
QueueDrains == ~Empty ~> Empty

\* The refinement: the queue is what lies between the interrupt's tail and the
\* head, except after a halt has stopped a block half way: then all of it is
\* waiting to be flushed.
Abandoned ==
  current_block = NoBlock /\ isr_tail_i # head_i /\ ring[isr_tail_i].taken
IdAt(k) == LET i == isr_tail_i + k - 1 IN ring[IF i < Length THEN i ELSE i - Length].id
QueueIds == IF Abandoned THEN <<>>
            ELSE [k \in 1 .. Dist(isr_tail_i, head_i) |-> IdAt(k)]

Promise == INSTANCE MoveQueue WITH
  None <- 0,
  issued <- nextId - 1,
  pending <- ring[head_i].id,
  queue <- QueueIds,
  running <- IF current_block = NoBlock THEN 0 ELSE ring[current_block].id,
  drop <- halted \/ flags["flush"] = 1

\* Every block runs at most once, in order, and is lost only on request.
ImplementsMoveQueue == Promise!Spec
=============================================================================
