----------------------- MODULE MotionQueueRefinement -----------------------
(***************************************************************************)
(* What blocks contain and when: the locking of a block that is being      *)
(* written, the ticking of the block being stepped, the names and steps of *)
(* queued blocks, a continuous jog, a halt half way through a block.  With *)
(* these every step of MotionQueue is a step of MoveQueue, for every       *)
(* length of the ring, every set of motors and moves and every choice of   *)
(* commands, if TIMER0 does not fire while a trapezoid is calculated.      *)
(*                                                                         *)
(* The second half counts the steps left in the queue and proves that they *)
(* are what the planner has planned and the motors have not done.          *)
(***************************************************************************)
EXTENDS MotionQueueProofs, FiniteSetTheorems

\* The head block is being planned (before it can be queued).
WalkLabels == {"fwd", "fwdStore", "trap", "lock", "lockStore", "prepare", "ready"}

\* A step of the thread that is not about a block, or of an interrupt that is not TIMER0.
Quiet ==
  /\ UNCHANGED <<ringVars, nextId, ti, word, current_block>>
  /\ pc' = pc \/ {pc, pc'} \cap WalkLabels = {}
  /\ HeadReady' <=> HeadReady

\* All other steps.
Walk == ForwardPass \/ ForwardStore \/ Trapezoid \/ Lock \/ LockStore \/ Prepare
Plan(mv) == PlanBlock(mv) /\ {pc} \cap WalkLabels = {} /\ ~HeadReady /\ ~HeadReady'

\* A return from ON_IDLE to queue_head_block finds the head block as it was left.
LEMMA StepKinds ==
  ASSUME IInv, Frames, Next
  PROVE  \/ Tick \/ Walk \/ Ready \/ QueueRefuse \/ ProduceHead \/ IdleCollect
         \/ \E mv \in MoveSet : Plan(mv)
         \/ Quiet
<1>1. /\ pc \in Labels /\ stack \in Seq(Labels) /\ (pc = "loop" <=> stack = <<>>)
  BY DEF IInv, TypeOK, StackType, StackEnds
<1>2. ASSUME \/ LoadFlags \/ StoreFlags
             \/ LimitHit \/ LimitClear \/ TimePasses \/ StopRequest
      PROVE  Quiet
  BY <1>2 DEF LoadFlags, StoreFlags, LimitHit, LimitClear, TimePasses, StopRequest,
     ringVars, motorVars, threadVars, Quiet, HeadReady, OnTop
<1>3. CASE IdleCheck \/ IdleEnd \/ IdleHalt \/ IdleUnhalt \/ OnHalt
  <2>1. UNCHANGED <<ringVars, nextId, ti, word, current_block>>
    BY <1>3 DEF IdleCheck, IdleEnd, IdleHalt, IdleUnhalt,
       OnHalt, Halt, HaltMotors, Unhalt, SyncPosition, ThreadKeeps, RingKept, ringVars
  <2>2. CASE Goto("gc") \/ Goto("halt") \/ Goto("unhalt") \/ Goto("stop") \/ Goto("stopSync")
             \/ Goto("sync")
    <3>1. pc \in IdleLabels
      BY <1>3 DEF IdleCheck, IdleEnd, IdleHalt, IdleUnhalt, OnHalt, Halt, HaltMotors, Unhalt,
         SyncPosition, At, IdleLabels
    <3> QED BY <2>1, <2>2, <3>1 DEF Quiet, Goto, WalkLabels, IdleLabels, HeadReady, OnTop
  <2>3. CASE Return
    <3>1. pc \in IdleLabels /\ IdleStack(stack) /\ stack # <<>>
      BY <1>1, <1>3 DEF IdleCheck, IdleEnd, IdleHalt, IdleUnhalt, OnHalt, Halt, HaltMotors, Unhalt,
         SyncPosition, At, IdleLabels, Frames
    <3>2. pc' \notin WalkLabels /\ pc \notin WalkLabels
      BY <2>3, <3>1, Bottom DEF Return, IdleStack, WalkLabels, IdleLabels
    <3>3. HeadReady' <=> HeadReady
      BY <2>3, <3>1, Bottom DEF Return, IdleStack, IdleLabels, PlanStack, WaitStack,
         HeadReady, OnTop
    <3> QED BY <2>1, <3>2, <3>3 DEF Quiet
  <2> QED BY <1>3, <2>2, <2>3 DEF IdleCheck, IdleEnd, IdleHalt, IdleUnhalt,
      OnHalt, Halt, HaltMotors, Unhalt, SyncPosition
<1>4. CASE QueueWait \/ QueueRoom \/ QueueCheck
  <2>1. UNCHANGED <<ringVars, nextId, ti, word, current_block>>
    BY <1>4 DEF QueueWait, QueueRoom, QueueCheck, ThreadKeeps, RingKept, ringVars
  <2>2. CASE QueueWait
    BY <1>1, <2>1, <2>2, Push DEF QueueWait, At, Call, Quiet, HeadReady, OnTop, WalkLabels, Labels
  <2>3. CASE QueueRoom
    BY <2>1, <2>3 DEF QueueRoom, At, Goto, Quiet, HeadReady, OnTop, WalkLabels
  <2>4. CASE QueueCheck
    BY <1>1, <2>1, <2>4, Bottom DEF QueueCheck, At, Return, Quiet, HeadReady, OnTop, WalkLabels,
       Frames, PlanStack
  <2> QED BY <1>4, <2>2, <2>3, <2>4
<1>5. CASE Wait
  <2>1. UNCHANGED <<ringVars, nextId, ti, word, current_block>>
    BY <1>5 DEF Wait, WaitStart, WaitQueue, WaitMotors, ThreadKeeps, RingKept, ringVars
  <2>2. WaitStack(stack) /\ pc \in WaitLabels /\ stack # <<>>
    BY <1>1, <1>5 DEF Wait, WaitStart, WaitQueue, WaitMotors, At, Frames, WaitLabels
  <2>3. ASSUME NEW r \in {"drain", "still"}, Call("idle", r) PROVE Quiet
    BY <1>1, <2>1, <2>2, <2>3, Push, Bottom DEF Call, Quiet, HeadReady, OnTop, Labels, WaitLabels,
       WaitStack, WalkLabels
  <2>4. ASSUME Goto("drain") \/ Goto("still") \/ Return PROVE Quiet
    BY <1>1, <2>1, <2>2, <2>4, Bottom DEF Goto, Return, Quiet, HeadReady, OnTop, WaitStack,
       WaitLabels, WalkLabels
  <2> QED BY <1>5, <2>3, <2>4 DEF Wait, WaitStart, WaitQueue, WaitMotors
<1>6. CASE JogMove \/ MainMove
  <2>1. PICK mv \in MoveSet : PlanBlock(mv)
    BY <1>6 DEF JogMove, MainMove
  <2>2. PICK r \in {"loop", "jog2", "jog3", "jogMode"} : stack' = <<r>> \o stack
    <3>1. CASE JogMove
      BY <3>1 DEF JogMove, JogNext
    <3>2. CASE MainMove
      BY <1>1, <3>2 DEF MainMove, At
    <3> QED BY <1>6, <3>1, <3>2
  <2>3. ~HeadReady'
    BY <1>1, <2>1, <2>2, Push DEF PlanBlock, HeadReady, OnTop, Labels
  <2>4. pc \in {"jog1", "jog2", "jog3", "loop"}
    BY <1>6 DEF JogMove, MainMove, JogNext, At
  <2>5. ~HeadReady /\ {pc} \cap WalkLabels = {}
    BY <1>1, <2>4, Bottom DEF HeadReady, OnTop, Frames, JogLabels, WalkLabels
  <2> QED BY <2>1, <2>3, <2>5 DEF Plan
<1>7. CASE JogHold \/ JogRefused \/ JogMode \/ JogForce \/ Jogging \/ JogHalted \/ JogStopped
            \/ JogEnd \/ JogFree
  <2>1. UNCHANGED <<ringVars, nextId, ti, word, current_block>>
    BY <1>7 DEF JogHold, JogRefused, JogMode, JogForce, Jogging, JogHalted, JogStopped,
       JogEnd, JogFree, JogKeeps, ThreadKeeps, RingKept, ringVars
  <2>2. stack = <<"loop">> /\ pc \in JogLabels
        /\ \A l \in DOMAIN JogNext : JogNext[l] \in JogLabels
    <3>1. DOMAIN JogNext \subseteq JogLabels /\ \A l \in DOMAIN JogNext : JogNext[l] \in JogLabels
      BY DEF JogNext, JogLabels
    <3>2. pc \in JogLabels
      BY <1>7, <3>1 DEF JogHold, JogRefused, JogMode, JogForce, Jogging, JogHalted, JogStopped,
         JogEnd, JogFree, At, JogLabels
    <3> QED BY <3>1, <3>2 DEF Frames
  <2>3. ASSUME NEW l \in JogLabels, Goto(l) PROVE Quiet
    BY <2>1, <2>2, <2>3 DEF Goto, Quiet, HeadReady, OnTop, JogLabels, WalkLabels
  <2>4. ASSUME Call("idle", "jogHalted") \/ Call("wfi", "sync") PROVE Quiet
    BY <2>1, <2>2, <2>4, Bottom DEF Call, Quiet, HeadReady, OnTop, JogLabels, WalkLabels
  <2>5. ASSUME Return PROVE Quiet
    BY <2>1, <2>2, <2>5, Bottom DEF Return, Quiet, HeadReady, OnTop, JogLabels, WalkLabels
  <2>6. CASE JogRefused
    BY <2>2, <2>3, <2>6 DEF JogRefused
  <2>7. CASE ~JogRefused
    BY <1>7, <2>3, <2>4, <2>5, <2>7 DEF JogHold, JogMode, JogForce, Jogging, JogHalted, JogStopped,
       JogEnd, JogFree, JogLabels
  <2> QED BY <2>6, <2>7
<1>8. CASE MainIdle \/ MainWait \/ MainAbort \/ MainHalt \/ MainUnhalt \/ MainJog
  <2>1. UNCHANGED <<ringVars, nextId, ti, word, current_block>>
    BY <1>8 DEF MainIdle, MainWait, MainAbort, MainHalt, MainUnhalt, MainJog,
       JogKeeps, ThreadKeeps, RingKept, ringVars
  <2>2. stack = <<>> /\ <<"loop">> \o <<>> = <<"loop">> /\ pc = "loop"
    BY <1>1, <1>8 DEF MainIdle, MainWait, MainAbort, MainHalt, MainUnhalt, MainJog, At
  <2> QED BY <1>8, <2>1, <2>2, Bottom DEF MainIdle, MainWait, MainAbort, MainHalt, MainUnhalt,
      MainJog, Goto, Call, Quiet, HeadReady, OnTop, WalkLabels
<1> QED BY <1>2, <1>3, <1>4, <1>5, <1>6, <1>7, <1>8
        DEF Next, Thread, Idle, AppendBlock, Jog, Main, Interrupt, Walk
-----------------------------------------------------------------------------
(* TIMER0 once more, as functions of the state s.  Sound(s) is what a tick   *)
(* needs to know of blocks to tell what it does to the queue.               *)

Some(steps) == \E m \in Motors : steps[m] > 0

\* Blocks that have been taken are retired, or at the interrupt's tail.
TicksAt(s) == \A i \in Index :
  s.ring[i].taken => i \in Span(tail_i, s.isr) \/ (i = s.isr /\ i # head_i)

\* A queued block that has not been taken has steps to do.
StepsAt(s) == \A i \in Span(s.isr, head_i) : s.ring[i].taken \/ Some(s.ring[i].todo)

SavedAt(s) == s.flags["continuous_mode"] # 0 => Some(saved)

Sound(s) == InOrder(s) /\ TicksAt(s) /\ StepsAt(s) /\ SavedAt(s)

\* The block being stepped has been taken.
RunsTicking(s) == s.block # NoBlock => s.ring[s.block].taken

\* What a tick may do to the flags of blocks, todo and continuous_mode.
Ran(s, t) ==
  /\ \A i \in Index : s.ring[i].taken => t.ring[i].taken
  /\ \A i \in Index : t.ring[i].taken =>
       s.ring[i].taken \/ ~s.ring[i].locked \/ s.flags["continuous_mode"] # 0
  /\ \A i \in Index : ~t.ring[i].taken => t.ring[i].todo = s.ring[i].todo
  /\ \A i \in Index : s.ring[i].torn => t.ring[i].torn
  /\ \A i \in Index : t.ring[i].torn => s.ring[i].torn \/ t.ring[i].taken
  /\ \A i \in Index : t.ring[i].taken => s.ring[i].taken \/ t.ring[i].torn \/ ~InHand(i)
  /\ \A i \in Index : ~(t.ring[i].is_ticking /\ t.ring[i].taken) =>
       /\ (t.ring[i].is_ticking <=> s.ring[i].is_ticking)
       /\ (t.ring[i].taken <=> s.ring[i].taken)
  /\ t.flags["continuous_mode"] # 0 => s.flags["continuous_mode"] # 0

\* What two steps of the interrupt do, one after the other.
LEMMA RanTransitive ==
  ASSUME NEW s, NEW t, NEW u, Kept(s, t), Ran(s, t), Ran(t, u)
  PROVE  Ran(s, u)
BY DEF Ran, Kept

\* Soundness is kept by any change of this kind that moves no index.
LEMMA SoundStays ==
  ASSUME NEW s \in IsrStates, NEW t \in IsrStates, Sound(s), Kept(s, t), Ran(s, t), TicksAt(t), InOrder(t)
  PROVE  Sound(t)
BY DEF Sound, Ran, Kept, StepsAt, SavedAt, Span

\* After the interrupt's tail come blocks that do not tick.
LEMMA TailAdvances ==
  ASSUME NEW a \in Index, NEW b \in Index, NEW c \in Index, Ordered(a, b, c), b # c
  PROVE  /\ Span(a, NextIndex(b)) = Span(a, b) \cup {b}
         /\ NextIndex(b) \notin Span(a, NextIndex(b))
         /\ NextIndex(b) # b
<1>1. NextIndex(b) # a
  BY LengthAssumption DEF Index, Ordered, Dist, NextIndex
<1> QED BY <1>1, SpanProduce, SpanEnds, NextIndexType

\* block_finished
LEMMA FinishedRuns ==
  ASSUME RingTypes, NEW s \in IsrStates, Sound(s), s.isr # head_i
  PROVE  LET t == BlockFinished(s) IN
         /\ t \in IsrStates /\ Sound(t) /\ Kept(s, t) /\ Ran(s, t)
         /\ t.ring = s.ring /\ t.moving = s.moving /\ t.owed = s.owed
         /\ t.flags["flush"] = s.flags["flush"]
         /\ \/ s.flags["continuous_mode"] > 1 /\ t = s
            \/ /\ t.isr = NextIndex(s.isr)
               /\ t.isr # head_i => ~t.ring[t.isr].taken
<1> DEFINE t == BlockFinished(s)
<1>1. t \in IsrStates /\ InOrder(t) /\ Kept(s, t)
  BY BlockFinishedSafe, BlockFinishedKeeps DEF Sound
<1>2. CASE s.flags["continuous_mode"] > 1
  <2>1. t = s
    BY <1>2 DEF BlockFinished, IsrStates, Byte, Flag
  <2> QED BY <1>1, <1>2, <2>1 DEF Ran
<1>3. CASE ~(s.flags["continuous_mode"] > 1)
  <2> DEFINE c == IF s.flags["continuous_mode"] = 1 THEN 2
                  ELSE s.flags["continuous_mode"]
  <2>1. s.flags["continuous_mode"] \in 0 .. 2 /\ s.flags \in Byte
    BY DEF IsrStates, Byte, Flag
  <2>2. t = [s EXCEPT !.isr = NextIndex(s.isr),
                      !.flags = [s.flags EXCEPT !["continuous_mode"] = c]]
    BY <1>3, <2>1 DEF BlockFinished, IsrStates
  <2>3. c = 0 <=> s.flags["continuous_mode"] = 0
    BY <2>1
  <2> HIDE DEF c
  <2>4. /\ t.isr = NextIndex(s.isr) /\ t.ring = s.ring /\ t.moving = s.moving
        /\ t.owed = s.owed
        /\ t.flags = [s.flags EXCEPT !["continuous_mode"] = c]
    BY <2>2 DEF IsrStates
  <2>5. /\ t.flags["flush"] = s.flags["flush"] /\ t.flags["continuous_mode"] = c
    BY <2>1, <2>4 DEF Byte, Flag
  <2>6. Ran(s, t)
    BY <2>3, <2>4, <2>5 DEF Ran
  <2>7. /\ Span(tail_i, t.isr) = Span(tail_i, s.isr) \cup {s.isr}
        /\ t.isr \notin Span(tail_i, t.isr)
    BY <2>4, TailAdvances DEF Sound, InOrder, RingTypes, IsrStates
  <2>8. TicksAt(t)
    BY <2>4, <2>7 DEF Sound, TicksAt
  <2>9. Sound(t)
    BY <1>1, <2>6, <2>8, SoundStays
  <2>10. t.isr # head_i => ~t.ring[t.isr].taken
    <3>1. t.isr \in Index
      BY <1>1 DEF IsrStates
    <3> QED BY <2>4, <2>7, <3>1 DEF Sound, TicksAt
  <2> QED BY <1>1, <2>4, <2>5, <2>6, <2>9, <2>10
<1> QED BY <1>2, <1>3
\* The block the interrupt looks at has not been taken before, unless it is repeated.
Fresh(s) ==
  ~halted /\ s.isr # head_i =>
    s.flags["continuous_mode"] > 1 \/ ~s.ring[s.isr].taken

\* A block is taken: it ticks from now on, and has steps to do.
LEMMA TakenRuns ==
  ASSUME RingTypes, NEW s \in IsrStates, Sound(s), Fresh(s), MayFetch(s)
  PROVE  LET t == Taken(s) IN
         /\ t \in IsrStates /\ Sound(t) /\ Kept(s, t) /\ Ran(s, t)
         /\ t.isr = s.isr /\ t.flags = s.flags /\ t.ring[s.isr].taken
         /\ Active(t, s.isr) # {}
<1> DEFINE b == [s.ring[s.isr] EXCEPT !.is_ticking = TRUE, !.recalculate = FALSE,
                                      !.todo = TickInfo(s), !.taken = TRUE,
                                      !.torn = s.ring[s.isr].torn \/ InHand(s.isr)]
           t == Taken(s)
<1>1. s.isr \in Index /\ s.ring \in [Index -> Block] /\ s.ring[s.isr] \in Block
  BY DEF IsrStates
<1>2. Taken(s) = [s EXCEPT !.ring = [s.ring EXCEPT ![s.isr] = b]]
  BY DEF Taken, IsrStates
<1>3. t.isr = s.isr /\ t.flags = s.flags /\ t.ring = [s.ring EXCEPT ![s.isr] = b]
  BY <1>2 DEF IsrStates
<1>4. /\ b.taken /\ b.is_ticking /\ b.todo = TickInfo(s)
      /\ b.torn <=> s.ring[s.isr].torn \/ InHand(s.isr)
  BY <1>1 DEF Block
<1>5. t \in IsrStates /\ InOrder(t) /\ Kept(s, t)
  BY TakenSafe, TakenKeeps DEF Sound
<1>6. s.isr # head_i /\ (s.flags["continuous_mode"] # 0 \/ ~s.ring[s.isr].locked)
  BY DEF MayFetch
<1> HIDE DEF b
<1>7. t.ring[s.isr] = b /\ \A i \in Index \ {s.isr} : t.ring[i] = s.ring[i]
  BY <1>1, <1>3
<1>8. Ran(s, t)
  BY <1>1, <1>3, <1>4, <1>6, <1>7 DEF Ran
<1>9. TicksAt(t)
  BY <1>3, <1>6, <1>7 DEF Sound, TicksAt
<1>10. Sound(t)
  BY <1>5, <1>8, <1>9, SoundStays
<1>11. Active(t, s.isr) # {}
  <2>1. s.isr \in Span(s.isr, head_i)
    BY <1>1, <1>6, SpanRetire DEF RingTypes
  <2>2. t.ring[s.isr].todo = TickInfo(s)
    BY <1>4, <1>7
  <2>3. CASE s.flags["continuous_mode"] > 1
    <3>1. PICK m \in Motors : saved[m] > 0
      BY <2>3 DEF Sound, SavedAt, Some
    <3>2. TickInfo(s)[m] = saved[m]
      BY <2>3, <3>1 DEF TickInfo
    <3> QED BY <2>2, <3>1, <3>2 DEF Active
  <2>4. CASE ~(s.flags["continuous_mode"] > 1)
    <3>1. TickInfo(s) = s.ring[s.isr].todo
      BY <2>4 DEF TickInfo
    <3>2. Some(s.ring[s.isr].todo)
      BY <2>1, <2>4, <1>1, <1>6 DEF Sound, StepsAt, Fresh, MayFetch
    <3> QED BY <2>2, <3>1, <3>2 DEF Some, Active
  <2> QED BY <2>3, <2>4
<1> QED BY <1>3, <1>4, <1>5, <1>7, <1>8, <1>10, <1>11

\* What get_next_block and start_next_block come to.
Idles(s, t)   == t.isr = s.isr /\ t.block = NoBlock /\ t.ring = s.ring
Flushes(s, t) == s.flags["flush"] = 1 /\ t.isr = head_i /\ t.block = NoBlock
Starts(s, t)  == ~halted /\ s.isr # head_i /\ t.isr = s.isr /\ t.block = s.isr
                 /\ s.flags["flush"] # 1 /\ s.flags["hold_queue"] # 1

\* get_next_block flushes the queue, starts the next block or finds nothing to do.
LEMMA NextBlockRuns ==
  ASSUME RingTypes, NEW s \in IsrStates, Sound(s), Fresh(s)
  PROVE  LET t == NextBlock(s) IN
         /\ t \in IsrStates /\ Sound(t) /\ Kept(s, t) /\ Ran(s, t)
         /\ RunsTicking(t) /\ Owned(t)
         /\ \/ Flushes(s, t)
            \/ Idles(s, t) /\ t.flags = s.flags /\ (~MayFetch(s) \/ s.flags["hold_queue"] = 1)
            \/ Starts(s, t) /\ t.flags = s.flags
<1> DEFINE f == Flushed(s)
           k == Taken(s)
           t == NextBlock(s)
<1>1. t \in IsrStates /\ InOrder(t) /\ Owned(t) /\ Kept(s, t)
  BY NextBlockSafe, NextBlockKeeps DEF Sound
<1>2. ASSUME t.isr = s.isr, t.ring = s.ring, t.flags = s.flags
      PROVE  Ran(s, t) /\ Sound(t)
  <2>1. Ran(s, t) /\ TicksAt(t)
    BY <1>2 DEF Ran, Sound, TicksAt
  <2> QED BY <1>1, <2>1, SoundStays
<1>3. CASE s.flags["hold_queue"] = 1
  <2>1. t = [s EXCEPT !.block = NoBlock]
    BY <1>3 DEF NextBlock
  <2>2. t.isr = s.isr /\ t.ring = s.ring /\ t.flags = s.flags /\ t.block = NoBlock
    BY <2>1 DEF IsrStates
  <2>3. Ran(s, t) /\ Sound(t)
    BY <1>2, <2>2
  <2> QED BY <1>1, <1>3, <2>2, <2>3 DEF Idles, RunsTicking
<1>4. CASE s.flags["hold_queue"] # 1 /\ s.flags["flush"] = 1
  <2>1. f = [s EXCEPT !.isr = head_i, !.flags = [s.flags EXCEPT !["flush"] = 0]]
    BY <1>4 DEF Flushed, IsrStates
  <2>2. f.isr = head_i /\ f.ring = s.ring /\ f.flags = [s.flags EXCEPT !["flush"] = 0]
    BY <2>1 DEF IsrStates
  <2>3. t = [f EXCEPT !.block = NoBlock] /\ f \in IsrStates
    BY <1>4, <2>2, FlushedSafe DEF NextBlock, MayFetch, Sound
  <2>4. t.isr = head_i /\ t.ring = s.ring /\ t.flags = f.flags /\ t.block = NoBlock
    BY <2>2, <2>3 DEF IsrStates
  <2>5. t.flags["continuous_mode"] = s.flags["continuous_mode"]
    BY <2>2, <2>4 DEF IsrStates, Byte, Flag
  <2>6. Ran(s, t)
    BY <2>4, <2>5 DEF Ran
  <2>7. Span(tail_i, head_i) = Span(tail_i, s.isr) \cup Span(s.isr, head_i)
    BY SpanSplit DEF Sound, InOrder, RingTypes, IsrStates
  <2>8. s.isr # head_i => s.isr \in Span(s.isr, head_i)
    BY SpanRetire DEF RingTypes, IsrStates
  <2>9. TicksAt(t)
    BY <2>4, <2>7, <2>8 DEF Sound, TicksAt
  <2>10. Sound(t)
    BY <1>1, <2>6, <2>9, SoundStays
  <2> QED BY <1>1, <1>4, <2>4, <2>6, <2>10 DEF Flushes, RunsTicking
<1>5. CASE s.flags["hold_queue"] # 1 /\ s.flags["flush"] # 1 /\ ~MayFetch(s)
  <2>1. t = [s EXCEPT !.block = NoBlock]
    BY <1>5 DEF NextBlock, Flushed
  <2>2. t.isr = s.isr /\ t.ring = s.ring /\ t.flags = s.flags /\ t.block = NoBlock
    BY <2>1 DEF IsrStates
  <2>3. Ran(s, t) /\ Sound(t)
    BY <1>2, <2>2
  <2> QED BY <1>1, <1>5, <2>2, <2>3 DEF Idles, RunsTicking
<1>6. CASE s.flags["hold_queue"] # 1 /\ s.flags["flush"] # 1 /\ MayFetch(s)
  <2>1. /\ k \in IsrStates /\ Sound(k) /\ Ran(s, k)
        /\ k.isr = s.isr /\ k.flags = s.flags /\ k.ring[s.isr].taken
        /\ Active(k, s.isr) # {}
    BY <1>6, TakenRuns
  <2> DEFINE mv == [m \in Motors |-> m \in Active(k, s.isr) \/ k.moving[m]]
  <2>2. t = [k EXCEPT !.block = s.isr, !.moving = mv]
    BY <1>6, <2>1 DEF NextBlock, Flushed, StartNextBlock, IsrStates
  <2> HIDE DEF mv, k
  <2>3. t.isr = s.isr /\ t.ring = k.ring /\ t.flags = s.flags /\ t.block = s.isr
    BY <2>1, <2>2 DEF IsrStates
  <2>4. Ran(s, t)
    BY <2>1, <2>3 DEF Ran
  <2>5. Sound(t)
    BY <1>1, <2>1, <2>3 DEF Sound, TicksAt, StepsAt, SavedAt
  <2>6. RunsTicking(t)
    BY <2>1, <2>3 DEF RunsTicking
  <2>7. Starts(s, t)
    BY <1>6, <2>3 DEF Starts, MayFetch
  <2> HIDE DEF t
  <2> QED BY <1>1, <2>3, <2>4, <2>5, <2>6, <2>7 DEF t
<1> QED BY <1>3, <1>4, <1>5, <1>6

\* The steps of a tick.
LEMMA SteppedRuns ==
  ASSUME RingTypes, NEW s \in IsrStates, Sound(s), RunsTicking(s), s.block # NoBlock,
         NEW S, S \subseteq Active(s, s.block)
  PROVE  LET t == Stepped(s, S) IN
         /\ t \in IsrStates /\ Sound(t) /\ Kept(s, t) /\ Ran(s, t) /\ RunsTicking(t)
         /\ t.isr = s.isr /\ t.block = s.block /\ t.flags = s.flags
<1> DEFINE i == s.block
           last(m) == ~s.moving[m] \/ s.ring[i].todo[m] = 1
           todo == [m \in Motors |-> IF m \notin S THEN s.ring[i].todo[m]
                                     ELSE IF last(m) THEN 0 ELSE s.ring[i].todo[m] - 1]
           mv == [m \in Motors |-> s.moving[m] /\ ~(m \in S /\ last(m))]
           ow == [m \in Motors |-> IF m \in S THEN Sat(s.owed[m] - 1) ELSE s.owed[m]]
           b == [s.ring[i] EXCEPT !.todo = todo]
           t == Stepped(s, S)
<1>1. i \in Index /\ s.ring \in [Index -> Block] /\ s.ring[i] \in Block
  BY DEF IsrStates
<1>2. t = [s EXCEPT !.ring = [s.ring EXCEPT ![i] = b], !.moving = mv, !.owed = ow]
  BY <1>1 DEF Stepped, IsrStates
<1>3. b.taken = s.ring[i].taken /\ b.is_ticking = s.ring[i].is_ticking
      /\ b.torn = s.ring[i].torn
  BY <1>1 DEF Block
<1> HIDE DEF b, mv, ow
<1>4. /\ t.isr = s.isr /\ t.flags = s.flags /\ t.block = s.block
      /\ t.ring = [s.ring EXCEPT ![i] = b]
  BY <1>2 DEF IsrStates
<1>5. t \in IsrStates /\ InOrder(t) /\ Kept(s, t)
  BY <1>4, SteppedSafe, SteppedKeeps DEF Sound, InOrder
<1>6. /\ t.ring[i].taken = s.ring[i].taken /\ t.ring[i].is_ticking = s.ring[i].is_ticking
      /\ t.ring[i].torn = s.ring[i].torn
      /\ \A j \in Index \ {i} : t.ring[j] = s.ring[j]
  BY <1>1, <1>3, <1>4
<1>7. s.ring[i].taken
  BY DEF RunsTicking
<1>8. Ran(s, t) /\ RunsTicking(t)
  BY <1>1, <1>4, <1>6, <1>7 DEF Ran, RunsTicking
<1>9. TicksAt(t)
  BY <1>1, <1>4, <1>6 DEF Sound, TicksAt
<1>10. Sound(t)
  BY <1>5, <1>8, <1>9, SoundStays
<1> QED BY <1>4, <1>5, <1>8, <1>10

\* What a whole interrupt comes to, apart from a flush.
SameFlush(s, t) == t.flags["flush"] = s.flags["flush"]
Stays(s, t)   == /\ t.isr = s.isr /\ t.block = s.block /\ SameFlush(s, t)
                 /\ s.block = NoBlock => t.ring = s.ring
Halts(s, t)   == halted /\ s.block # NoBlock /\ t.isr = s.isr /\ t.block = NoBlock
                 /\ SameFlush(s, t)
Begins(s, t)  == ~halted /\ s.block = NoBlock /\ s.isr # head_i
                 /\ t.isr = s.isr /\ t.block = s.isr /\ SameFlush(s, t)
Retires(s, t) == /\ ~halted /\ s.isr # head_i /\ t.isr = NextIndex(s.isr) /\ SameFlush(s, t)
                 /\ t.block = NoBlock /\ t.isr # head_i => ~t.ring[t.isr].taken

Fits(t) == t \in IsrStates /\ Sound(t) /\ RunsTicking(t) /\ Owned(t)

\* A running block takes steps, and the next one may follow.
LEMMA RunBlockRuns ==
  ASSUME RingTypes, NEW s, Fits(s), s.block # NoBlock, ~halted, s.flags["hold_queue"] # 1,
         NEW S, S \subseteq Active(s, s.block)
  PROVE  LET t == RunBlock(s, S) IN
         /\ Fits(t) /\ Kept(s, t) /\ Ran(s, t)
         /\ Stays(s, t) \/ Flushes(s, t) \/ Retires(s, t)
<1> DEFINE u == Stepped(s, S)
           v == BlockFinished(u)
           n == NextBlock(v)
<1>1. /\ u \in IsrStates /\ Sound(u) /\ Kept(s, u) /\ Ran(s, u) /\ RunsTicking(u)
      /\ u.isr = s.isr /\ u.block = s.block /\ u.flags = s.flags
  BY SteppedRuns DEF Fits
<1>2. s.block = s.isr /\ s.isr # head_i /\ s \in IsrStates
  BY DEF Fits, Owned
<1> HIDE DEF u
<1>3. /\ v \in IsrStates /\ Sound(v) /\ Kept(u, v) /\ Ran(u, v)
      /\ v.flags["flush"] = s.flags["flush"]
      /\ \/ s.flags["continuous_mode"] > 1 /\ v = u
         \/ /\ v.isr = NextIndex(s.isr)
            /\ v.isr # head_i => ~v.ring[v.isr].taken
  BY <1>1, <1>2, FinishedRuns
<1> HIDE DEF v
<1>4. v.flags["hold_queue"] # 1
  BY <1>1, <1>3 DEF Kept, KeptFlags
<1>5. Fresh(v)
  BY <1>1, <1>3 DEF Fresh
<1>6. /\ n \in IsrStates /\ Sound(n) /\ Kept(v, n) /\ Ran(v, n)
      /\ RunsTicking(n) /\ Owned(n)
      /\ \/ Flushes(v, n)
         \/ Idles(v, n) /\ n.flags = v.flags /\ (~MayFetch(v) \/ v.flags["hold_queue"] = 1)
         \/ Starts(v, n) /\ n.flags = v.flags
  BY <1>3, <1>5, NextBlockRuns
<1> HIDE DEF n
<1>7. Fits(n) /\ Kept(s, n) /\ Ran(s, n)
  <2>1. Kept(s, v) /\ Ran(s, v)
    BY <1>1, <1>3, KeptTransitive, RanTransitive
  <2> QED BY <1>6, <2>1, KeptTransitive, RanTransitive DEF Fits
<1>8. Stays(s, n) \/ Flushes(s, n) \/ Retires(s, n)
  <2>1. CASE Flushes(v, n)
    BY <1>3, <2>1 DEF Flushes
  <2>2. CASE v = u /\ s.flags["continuous_mode"] > 1 /\ ~Flushes(v, n)
    <3>1. MayFetch(v)
      BY <1>1, <1>2, <2>2 DEF MayFetch
    <3>2. Starts(v, n) /\ n.flags = v.flags
      BY <1>4, <1>6, <2>2, <3>1
    <3>3. s.block # NoBlock
      OBVIOUS
    <3> QED BY <1>1, <1>2, <2>2, <3>2, <3>3 DEF Starts, Stays, SameFlush
  <2>3. CASE v.isr = NextIndex(s.isr) /\ (v.isr # head_i => ~v.ring[v.isr].taken)
             /\ ~Flushes(v, n)
    <3>1. n.isr = v.isr /\ n.flags = v.flags /\ (n.block = NoBlock => n.ring = v.ring)
      <4>1. v.isr \in Index
        BY <1>3 DEF IsrStates
      <4>2. v.isr # NoBlock
        BY <4>1 DEF Index, NoBlock
      <4> QED BY <1>6, <2>3, <4>2 DEF Idles, Starts
    <3> QED BY <1>2, <1>3, <2>3, <3>1 DEF Retires, SameFlush
  <2> QED BY <1>3, <2>1, <2>2, <2>3
<1>9. Fits(u) /\ Stays(s, u)
  BY <1>1, <1>2 DEF Fits, Owned, Stays, SameFlush
<1>10. RunBlock(s, S) = u \/ RunBlock(s, S) = n
  BY DEF RunBlock, n, v, u
<1> QED BY <1>1, <1>7, <1>8, <1>9, <1>10

\* step_tick: a block that runs is stepped or abandoned, an idle ticker looks for one.
LEMMA TickRuns ==
  ASSUME RingTypes, NEW s0, Fits(s0), s0.block = NoBlock => Fresh(s0),
         s0.flags["hold_queue"] = 1 => s0.block = NoBlock,
         NEW S, Due(Begun(s0), S)
  PROVE  LET t == StepTick(Begun(s0), S) IN
         /\ Fits(t) /\ Kept(s0, t) /\ Ran(s0, t)
         /\ \/ Stays(s0, t) \/ Flushes(s0, t) \/ Halts(s0, t) \/ Begins(s0, t)
            \/ Retires(s0, t)
<1> DEFINE s == Begun(s0)
           t == StepTick(s, S)
           n == NextBlock(s0)
           r == RunBlock(s, S)
<1>1. s.block # NoBlock => S \subseteq Active(s, s.block)
  BY DEF Due
<1>2. s0 \in IsrStates /\ s0.isr \in Index /\ s0.isr # NoBlock
  BY DEF Fits, IsrStates, Index, NoBlock
<1>3. CASE s0.block = NoBlock
  <2>1. s = n
    BY <1>3 DEF Begun
  <2>2. /\ Fits(n) /\ Kept(s0, n) /\ Ran(s0, n)
        /\ \/ Flushes(s0, n)
           \/ Idles(s0, n) /\ n.flags = s0.flags
           \/ Starts(s0, n) /\ n.flags = s0.flags
    BY <1>3, NextBlockRuns DEF Fits
  <2>3. CASE n.block = NoBlock
    <3>1. t = n
      BY <2>1, <2>3 DEF StepTick
    <3>2. ~Starts(s0, n)
      BY <1>2, <2>3 DEF Starts
    <3>3. Flushes(s0, n) \/ Stays(s0, n)
      BY <1>3, <2>2, <3>2 DEF Idles, Stays, SameFlush
    <3> HIDE DEF n, t
    <3> QED BY <2>2, <3>1, <3>3 DEF t
  <2>4. CASE n.block # NoBlock
    <3>1. Starts(s0, n) /\ n.flags = s0.flags
      BY <2>2, <2>4 DEF Flushes, Idles
    <3>2. ~halted /\ n.flags["hold_queue"] # 1 /\ n.flags["flush"] # 1
          /\ n.isr = s0.isr /\ n.block = s0.isr /\ s0.isr # head_i
      BY <3>1 DEF Starts
    <3>3. t = r
      BY <2>1, <2>4, <3>2 DEF StepTick
    <3>4. Fits(r) /\ Kept(n, r) /\ Ran(n, r)
          /\ (Stays(n, r) \/ Flushes(n, r) \/ Retires(n, r))
      BY <1>1, <2>1, <2>2, <2>4, <3>2, RunBlockRuns
    <3> HIDE DEF n, r, t
    <3>5. Kept(s0, r) /\ Ran(s0, r)
      BY <2>2, <3>4, KeptTransitive, RanTransitive
    <3>6. Begins(s0, r) \/ Retires(s0, r)
      BY <1>3, <3>1, <3>2, <3>4 DEF Stays, Flushes, Retires, Begins, SameFlush
    <3> QED BY <3>3, <3>4, <3>5, <3>6 DEF t
  <2> QED BY <2>3, <2>4
<1>4. CASE s0.block # NoBlock
  <2>1. s = s0
    BY <1>4 DEF Begun
  <2>2. CASE halted
    <3>1. t = [s0 EXCEPT !.block = NoBlock]
      BY <1>4, <2>1, <2>2 DEF StepTick
    <3>2. /\ t.isr = s0.isr /\ t.ring = s0.ring /\ t.flags = s0.flags /\ t.block = NoBlock
          /\ t \in IsrStates
      BY <1>2, <3>1 DEF IsrStates
    <3>3. Kept(s0, t) /\ Ran(s0, t) /\ TicksAt(t) /\ InOrder(t)
      BY <3>2 DEF Kept, Ran, Fits, Sound, TicksAt, InOrder
    <3>4. Sound(t)
      BY <1>2, <3>2, <3>3, SoundStays DEF Fits
    <3> HIDE DEF t
    <3>5. Fits(t)
      BY <3>2, <3>4 DEF Fits, RunsTicking, Owned
    <3>6. Halts(s0, t)
      BY <1>4, <2>2, <3>2 DEF Halts, SameFlush
    <3> QED BY <3>3, <3>5, <3>6 DEF t
  <2>3. CASE ~halted
    <3>1. t = r
      BY <1>4, <2>1, <2>3 DEF StepTick
    <3>2. /\ Fits(r) /\ Kept(s0, r) /\ Ran(s0, r)
          /\ Stays(s0, r) \/ Flushes(s0, r) \/ Retires(s0, r)
      BY <1>1, <1>4, <2>1, <2>3, RunBlockRuns
    <3> HIDE DEF r, t
    <3> QED BY <3>1, <3>2 DEF t
  <2> QED BY <2>2, <2>3
<1> QED BY <1>3, <1>4
-----------------------------------------------------------------------------
(* What is known of blocks, of a continuous jog and of a halt, part by part. *)

\* The head block is being filled (before it is queued); its trapezoid is done.
Planning == pc \in WalkLabels \/ HeadReady
Prepared == pc = "ready" \/ HeadReady

\* Only the block recalculate() has locked is locked.  While no interrupt has taken a
\* block out of the thread's hand, the block says truly whether it has been taken, the
\* byte the thread has loaded says so too, and what the thread writes has not been.
WordInv ==
  /\ ~word.locked
  /\ \A i \in Index : ring[i].locked => pc = "prepare" /\ i = ti
  /\ \A i \in Index : Untorn(i) => (ring[i].is_ticking <=> ring[i].taken)
  /\ \A i \in Index : ~Untorn(i) => ring[i].taken
  /\ pc = "fwdStore" /\ Untorn(NextIndex(ti)) =>
       (word.is_ticking <=> ring[NextIndex(ti)].taken)
  /\ pc \in {"lock", "lockStore", "prepare"} /\ Untorn(ti) => ~ring[ti].taken
  /\ pc = "lockStore" /\ Untorn(ti) => ~word.is_ticking
  /\ pc = "prepare" => ring[ti].locked

\* The block being stepped ticks, and so do the retired ones that are not collected.
TickingInv == RunsTicking(IsrState) /\ TicksAt(IsrState)

\* Every block outside the queue is cleared, and the planned one has the last number.
IdInv ==
  /\ \A i \in Index \ Span(tail_i, head_i) : i # head_i \/ ~Planning => ring[i].id = 0
  /\ Planning => ring[head_i].id = nextId - 1 /\ nextId > 1

\* A queued block has steps, and steps to do until it is taken.
StepsInv ==
  /\ \A i \in Span(isr_tail_i, head_i) : Some(ring[i].steps)
  /\ StepsAt(IsrState)
  /\ Planning => Some(ring[head_i].steps)
  /\ Prepared => Some(ring[head_i].todo)

\* Continuous mode is on, or about to be: the saved tick info is there.
JogRunning == \/ pc \in {"jogForce", "jogging", "jogHalted", "jogEnd"}
              \/ pc = "jogFree" /\ ops # <<>>
              \/ OnTop("jogHalted")
ContInv ==
  /\ \/ flags["continuous_mode"] # 0
     \/ reg # <<>> /\ Head(reg)["continuous_mode"] # 0
     => JogRunning /\ ops # <<C1, H0>>
  /\ JogRunning => Some(saved)


\* While jog queues its blocks in a held queue, exactly those are queued; a halt in
\* between releases the queue before anybody sees it.
Queueing == [jog1 |-> 0, jog2 |-> 1, jog3 |-> 2, jogMode |-> 3]
HeldWith(n) == isr_tail_i = tail_i /\ Dist(tail_i, head_i) = n
JogInv ==
  /\ flags["hold_queue"] = 1 =>
       /\ pc \in DOMAIN Queueing =>
            isr_tail_i = tail_i /\ IF halted THEN Empty ELSE HeldWith(Queueing[pc])
       /\ pc \in MoveLabels /\ Head(stack) \in DOMAIN Queueing =>
            ~halted /\ HeldWith(Queueing[Head(stack)] - 1)
       /\ pc = "queued" /\ Head(stack) \in DOMAIN Queueing =>
            ~halted /\ HeldWith(Queueing[Head(stack)])
       /\ pc \in IdleLabels /\ OnTop("qhb") /\ Head(Tail(stack)) \in DOMAIN Queueing =>
            /\ HeldWith(Queueing[Head(Tail(stack))] - 1)
            /\ halted => pc \in {"stop", "stopSync"}
  /\ pc \in {"stop", "stopSync"} /\ ops \in {<<>>, <<C0>>} => flags["hold_queue"] # 1
  /\ flags["hold_queue"] \in {0, 1}

\* A halt has stopped a block half way: the queue will be flushed, as the thread or
\* the byte it has loaded says, before the halt is cleared.
Doomed == /\ isr_tail_i # head_i /\ ring[isr_tail_i].taken
          /\ current_block = NoBlock \/ halted
Flushing == limit.halt \/ (pc \in {"stop", "stopSync"} /\ ops \in HaltsFlushing)
DoomInv ==
  /\ Doomed => /\ halted
               /\ flags["flush"] = 1 \/ pc = "halt" \/ Flushing
               /\ reg # <<>> => Head(reg)["flush"] = 1 \/ Flushing
  /\ pc = "unhalt" => halted /\ current_block = NoBlock /\ ~Doomed
  /\ flags["hold_queue"] = 1 => ~Doomed

BlockInv == WordInv /\ TickingInv /\ IdInv /\ StepsInv /\ ContInv /\ JogInv /\ DoomInv

\* TIMER0 with all of this known: five outcomes, and what each leaves of blocks.
LEMMA TickOutcomes ==
  ASSUME ThreadInv, BlockInv, Tick
  PROVE  LET s == IsrState
             t == IsrState'
         IN /\ Fits(t) /\ Kept(s, t) /\ Ran(s, t)
            /\ Stays(s, t) \/ Flushes(s, t) \/ Halts(s, t) \/ Begins(s, t) \/ Retires(s, t)
<1> DEFINE s == IsrState
<1>1. RingTypes /\ s \in IsrStates /\ InOrder(s) /\ Owned(s)
  BY DEF ThreadInv, IInv, IndicesOrdered, RunningBlockOwned, TypeOK, RingType, FlagsType, MotorType,
     ShellType, RingTypes, IsrState, IsrStates, InOrder, Owned
<1>2. /\ s.isr = isr_tail_i /\ s.ring = ring /\ s.flags = flags /\ s.block = current_block
  BY DEF IsrState
<1>3. SavedAt(s)
  BY <1>2 DEF BlockInv, ContInv, SavedAt
<1>4. Fits(s)
  BY <1>1, <1>3 DEF Fits, Sound, BlockInv, TickingInv, StepsInv
<1>5. s.block = NoBlock => Fresh(s)
  BY <1>2 DEF Fresh, BlockInv, DoomInv, Doomed
<1>6. s.flags["hold_queue"] = 1 => s.block = NoBlock
  BY <1>2 DEF ThreadInv, HoldInv, Holding
<1>7. PICK S \in SUBSET Motors :
        LET t == StepTick(Begun(s), S)
        IN /\ Due(Begun(s), S)
           /\ isr_tail_i' = t.isr /\ ring' = t.ring /\ flags' = t.flags
           /\ current_block' = t.block /\ moving' = t.moving /\ owed' = t.owed
  BY DEF Tick
<1> DEFINE t == StepTick(Begun(s), S)
<1> HIDE DEF s
<1>8. /\ Fits(t) /\ Kept(s, t) /\ Ran(s, t)
      /\ Stays(s, t) \/ Flushes(s, t) \/ Halts(s, t) \/ Begins(s, t) \/ Retires(s, t)
  BY <1>1, <1>4, <1>5, <1>6, <1>7, TickRuns
<1>9. IsrState' = t
  <2>1. t \in IsrStates
    BY <1>8 DEF Fits
  <2> HIDE DEF t
  <2> QED BY <1>7, <2>1 DEF IsrState, IsrStates, t
<1> HIDE DEF t
<1> QED BY <1>8, <1>9 DEF s
-----------------------------------------------------------------------------
(* Blocks.  One lemma says what recalculate() does to them, one what a new   *)
(* plan does; then each part of the invariant, by the kinds of steps.        *)

\* The types a step needs.
LEMMA Types ==
  ASSUME IInv
  PROVE  /\ head_i \in Index /\ tail_i \in Index /\ isr_tail_i \in Index /\ ti \in Index
         /\ NextIndex(ti) \in Index /\ ring \in [Index -> Block]
         /\ Ordered(tail_i, isr_tail_i, head_i)
         /\ current_block # NoBlock => current_block = isr_tail_i /\ isr_tail_i # head_i
         /\ pc \in Labels /\ stack \in Seq(Labels) /\ (pc = "loop" <=> stack = <<>>)
BY NextIndexType DEF IInv, TypeOK, RingType, WalkType, StackType, StackEnds, IndicesOrdered,
   RunningBlockOwned

\* The interrupt's part of the queue is in the queue, and the head is not.
LEMMA Queue ==
  ASSUME IInv
  PROVE  /\ Span(tail_i, head_i) = Span(tail_i, isr_tail_i) \cup Span(isr_tail_i, head_i)
         /\ Span(tail_i, isr_tail_i) \cap Span(isr_tail_i, head_i) = {}
         /\ head_i \notin Span(tail_i, head_i)
         /\ isr_tail_i \notin Span(tail_i, isr_tail_i)
         /\ isr_tail_i # head_i => isr_tail_i \in Span(isr_tail_i, head_i)
         /\ Span(tail_i, head_i) \subseteq Index
BY Types, SpanSplit, SpanEnds, SpanRetire DEF Span

\* A step of recalculate() changes the flags of the block it is at, and its todo.
LEMMA WalkBlocks ==
  ASSUME IInv, WordInv, Walk
  PROVE  /\ UNCHANGED <<head_i, tail_i, isr_tail_i, current_block, nextId, stack>>
         /\ \A i \in Index : /\ ring'[i].id = ring[i].id /\ ring'[i].steps = ring[i].steps
                             /\ ring'[i].taken = ring[i].taken
                             /\ ring'[i].torn = ring[i].torn
                             /\ \/ ring'[i].todo = ring[i].todo
                                \/ ring'[i].todo = ring[i].steps
         /\ pc \in WalkLabels /\ pc' \in WalkLabels
         /\ pc' = "ready" => /\ ti = head_i
                             /\ ring[ti].taken \/ ring'[ti].todo = ring[ti].steps
         /\ WordInv'
<1>1. /\ ti \in Index /\ NextIndex(ti) \in Index /\ ring \in [Index -> Block]
  BY Types
<1>2. UNCHANGED <<head_i, tail_i, isr_tail_i, current_block, nextId, stack>>
  BY DEF Walk, ForwardPass, ForwardStore, Trapezoid, Lock, LockStore, Prepare, TrapezoidKeeps,
     ThreadKeeps
<1>3. current_block # NoBlock => current_block \in Index
  BY Types
<1>4. CASE ForwardPass
  <2>1. ring' = ring /\ ti' = ti /\ pc = "fwd" /\ pc' \in {"fwdStore", "trap"}
        /\ \/ word' = WordOf(ring[NextIndex(ti)])
           \/ word' = word /\ pc' = "trap"
    BY <1>4 DEF ForwardPass, At
  <2>2. ~word'.locked
    BY <1>1, <2>1 DEF WordOf, WordInv
  <2>3. pc' = "fwdStore" => word'.is_ticking = ring[NextIndex(ti)].is_ticking
    BY <2>1 DEF WordOf
  <2> QED BY <1>1, <1>2, <2>1, <2>2, <2>3 DEF WordInv, WalkLabels, Untorn
<1>5. CASE Trapezoid
  <2>1. ring' = ring /\ word' = word /\ pc = "trap"
        /\ \/ pc' = "lock" /\ ~ring[ti].is_ticking /\ ti' = ti
           \/ pc' \in {"trap", "fwd"}
           \/ pc' = "ready" /\ ti = head_i /\ ring[ti].is_ticking
    BY <1>5 DEF Trapezoid, NextTrapezoid, At
  <2>2. ring[ti].is_ticking => ring[ti].taken
    BY <1>1 DEF WordInv
  <2> QED BY <1>1, <1>2, <2>1, <2>2 DEF WordInv, WalkLabels, Untorn
<1>6. CASE Lock
  <2>1. ring' = ring /\ word' = WordOf(ring[ti]) /\ pc = "lock" /\ pc' = "lockStore" /\ ti' = ti
    BY <1>6 DEF Lock, At
  <2>2. word'.locked = ring[ti].locked /\ word'.is_ticking = ring[ti].is_ticking
    BY <2>1 DEF WordOf
  <2> QED BY <1>1, <1>2, <2>1, <2>2 DEF WordInv, WalkLabels, Untorn
<1>7. ASSUME NEW i \in Index, NEW w, SetWord(i, w)
      PROVE  /\ \A j \in Index : /\ ring'[j].id = ring[j].id /\ ring'[j].steps = ring[j].steps
                                 /\ ring'[j].todo = ring[j].todo
                                 /\ ring'[j].taken = ring[j].taken
                                 /\ ring'[j].torn = ring[j].torn
             /\ ring'[i].is_ticking = w.is_ticking /\ ring'[i].locked = w.locked
             /\ \A j \in Index \ {i} : ring'[j] = ring[j]
  <2> DEFINE b == [ring[i] EXCEPT !.is_ticking = w.is_ticking, !.locked = w.locked,
                                  !.recalculate = w.recalculate]
  <2>1. /\ ring' = [ring EXCEPT ![i] = b] /\ b.id = ring[i].id /\ b.steps = ring[i].steps
        /\ b.todo = ring[i].todo /\ b.is_ticking = w.is_ticking /\ b.locked = w.locked
        /\ b.taken = ring[i].taken /\ b.torn = ring[i].torn
    BY <1>1, <1>7 DEF SetWord, Block
  <2> HIDE DEF b
  <2> QED BY <1>1, <2>1
<1>8. word \in Word
  BY DEF IInv, TypeOK, WalkType
<1>9. CASE ForwardStore
  <2> DEFINE w == [word EXCEPT !.recalculate = FALSE]
  <2>1. /\ SetWord(NextIndex(ti), w) /\ word' = NoWord /\ pc = "fwdStore" /\ pc' = "trap"
        /\ ti' = ti
    BY <1>9 DEF ForwardStore, At
  <2>2. w.is_ticking = word.is_ticking /\ w.locked = word.locked
    BY <1>8 DEF Word
  <2> HIDE DEF w
  <2>3. /\ \A j \in Index : /\ ring'[j].id = ring[j].id /\ ring'[j].steps = ring[j].steps
                            /\ ring'[j].todo = ring[j].todo
                            /\ ring'[j].taken = ring[j].taken /\ ~ring'[j].locked
                            /\ ring'[j].torn = ring[j].torn
                            /\ Untorn(j) => (ring'[j].is_ticking <=> ring[j].taken)
    BY <1>1, <1>7, <2>1, <2>2 DEF WordInv, Untorn
  <2> QED BY <1>1, <1>2, <1>3, <2>1, <2>3 DEF WordInv, WalkLabels, NoWord, Untorn
<1>10. CASE LockStore
  <2> DEFINE w == [word EXCEPT !.locked = TRUE]
  <2>1. /\ SetWord(ti, w) /\ word' = NoWord /\ pc = "lockStore" /\ pc' = "prepare"
        /\ ti' = ti
    BY <1>10 DEF LockStore, At
  <2>2. w.is_ticking = word.is_ticking /\ w.locked
    BY <1>8 DEF Word
  <2> HIDE DEF w
  <2>3. /\ \A j \in Index : /\ ring'[j].id = ring[j].id /\ ring'[j].steps = ring[j].steps
                            /\ ring'[j].todo = ring[j].todo
                            /\ ring'[j].taken = ring[j].taken
                            /\ ring'[j].torn = ring[j].torn
                            /\ Untorn(j) => (ring'[j].is_ticking <=> ring[j].taken)
                            /\ ring'[j].locked <=> j = ti
    <3>1. Untorn(ti) => (ring'[ti].is_ticking <=> ring[ti].taken)
      BY <1>1, <1>7, <1>8, <2>1, <2>2 DEF WordInv, Word, Block, Untorn
    <3> QED BY <1>1, <1>7, <2>1, <2>2, <3>1 DEF WordInv, Untorn
  <2> QED BY <1>1, <1>2, <1>3, <2>1, <2>3 DEF WordInv, WalkLabels, NoWord, Untorn
<1>11. CASE Prepare
  <2> DEFINE b == [ring[ti] EXCEPT !.todo = ring[ti].steps, !.locked = FALSE]
  <2>1. /\ ring' = [ring EXCEPT ![ti] = b] /\ b.id = ring[ti].id /\ b.steps = ring[ti].steps
        /\ b.todo = ring[ti].steps /\ b.taken = ring[ti].taken /\ ~b.locked
        /\ b.is_ticking = ring[ti].is_ticking /\ b.torn = ring[ti].torn
    BY <1>1, <1>11 DEF Prepare, Block
  <2>2. /\ word' = word /\ pc = "prepare"
        /\ \/ pc' \in {"trap", "fwd"}
           \/ pc' = "ready" /\ ti = head_i
    BY <1>11 DEF Prepare, NextTrapezoid, At
  <2> HIDE DEF b
  <2>3. \A j \in Index : /\ ring'[j].id = ring[j].id /\ ring'[j].steps = ring[j].steps
                         /\ ring'[j].taken = ring[j].taken
                         /\ ring'[j].is_ticking = ring[j].is_ticking
                         /\ ring'[j].torn = ring[j].torn
                         /\ ring'[j].todo = ring[j].todo \/ ring'[j].todo = ring[j].steps
    BY <1>1, <2>1
  <2>4. ring'[ti].todo = ring[ti].steps
    BY <1>1, <2>1
  <2>5. \A j \in Index : ~ring'[j].locked
    BY <1>1, <2>1, <2>2 DEF WordInv
  <2>6. WordInv'
    BY <1>1, <1>2, <1>3, <2>2, <2>3, <2>5 DEF WordInv, Untorn
  <2> QED BY <1>2, <2>2, <2>3, <2>4, <2>6 DEF WalkLabels
<1> QED BY <1>4, <1>5, <1>6, <1>9, <1>10, <1>11 DEF Walk

\* A new plan fills the head block.
LEMMA PlanBlocks ==
  ASSUME IInv, NEW mv \in MoveSet, PlanBlock(mv)
  PROVE  /\ UNCHANGED <<head_i, tail_i, isr_tail_i, current_block>>
         /\ \A i \in Index : /\ ring'[i].taken = ring[i].taken
                             /\ ring'[i].torn = ring[i].torn
                             /\ ring'[i].is_ticking = ring[i].is_ticking
                             /\ ring'[i].locked = ring[i].locked
                             /\ ring'[i].todo = ring[i].todo
         /\ \A i \in Index \ {head_i} : ring'[i] = ring[i]
         /\ ring'[head_i].id = nextId /\ ring'[head_i].steps = mv /\ Some(mv)
         /\ nextId' = nextId + 1 /\ word' = word /\ pc' \in {"trap", "fwd"}
<1> DEFINE b == [ring[head_i] EXCEPT !.id = nextId, !.steps = mv, !.recalculate = TRUE]
<1>1. head_i \in Index /\ ring \in [Index -> Block]
  BY Types
<1>2. /\ UNCHANGED <<head_i, tail_i, isr_tail_i, current_block, word>>
      /\ ring' = [ring EXCEPT ![head_i] = b] /\ nextId' = nextId + 1 /\ pc' \in {"trap", "fwd"}
  BY DEF PlanBlock, ThreadKeeps
<1>3. ring[head_i] \in Block
  BY <1>1
<1>4. /\ b.taken = ring[head_i].taken /\ b.locked = ring[head_i].locked
      /\ b.is_ticking = ring[head_i].is_ticking /\ b.torn = ring[head_i].torn
      /\ b.todo = ring[head_i].todo /\ b.id = nextId /\ b.steps = mv
  BY <1>3 DEF Block
<1>5. Some(mv)
  BY MotionAssumption DEF Some
<1> HIDE DEF b
<1> QED BY <1>1, <1>2, <1>4, <1>5

\* ready() changes nothing else of a block.
LEMMA ReadyBlocks ==
  ASSUME IInv, Ready
  PROVE  /\ UNCHANGED <<head_i, tail_i, isr_tail_i, current_block, nextId, ti, word>>
         /\ \A i \in Index : /\ ring'[i].id = ring[i].id /\ ring'[i].steps = ring[i].steps
                             /\ ring'[i].todo = ring[i].todo /\ ring'[i].locked = ring[i].locked
                             /\ ring'[i].taken = ring[i].taken
                             /\ ring'[i].torn = ring[i].torn
                             /\ ring'[i].is_ticking = ring[i].is_ticking
         /\ pc = "ready" /\ pc' = "qhb"
<1> DEFINE b == [ring[head_i] EXCEPT !.is_ready = TRUE]
<1>1. head_i \in Index /\ ring \in [Index -> Block] /\ ring[head_i] \in Block
  BY Types
<1>2. ring' = [ring EXCEPT ![head_i] = b]
  BY <1>1 DEF Ready
<1>3. /\ b.id = ring[head_i].id /\ b.steps = ring[head_i].steps
      /\ b.todo = ring[head_i].todo /\ b.locked = ring[head_i].locked
      /\ b.taken = ring[head_i].taken /\ b.torn = ring[head_i].torn
      /\ b.is_ticking = ring[head_i].is_ticking
  BY <1>1 DEF Block
<1> HIDE DEF b
<1> QED BY <1>1, <1>2, <1>3 DEF Ready, At, Goto, ThreadKeeps

\* A block that is given up is cleared, and queue_head_block returns.
LEMMA RefuseBlocks ==
  ASSUME IInv, Frames, QueueRefuse
  PROVE  /\ UNCHANGED <<head_i, tail_i, isr_tail_i, current_block, nextId, ti, word>>
         /\ ring' = [ring EXCEPT ![head_i] = Cleared] /\ halted
         /\ HeadReady /\ ~HeadReady' /\ {pc, pc'} \cap WalkLabels = {} /\ pc = "qhb"
<1>1. /\ UNCHANGED <<head_i, tail_i, isr_tail_i, current_block, nextId, ti, word>>
      /\ ring' = [ring EXCEPT ![head_i] = Cleared] /\ halted /\ pc = "qhb" /\ Return
  BY DEF QueueRefuse, At, ThreadKeeps
<1>2. PlanStack(stack) /\ stack # <<>>
  BY <1>1, Types DEF Frames, MoveLabels
<1>3. pc' \in {"loop", "jog2", "jog3", "jogMode"} /\ ~OnTop("qhb")'
  BY <1>1, <1>2, Bottom DEF Return, PlanStack, OnTop
<1> QED BY <1>1, <1>3 DEF HeadReady, WalkLabels

\* produce_head changes the head only; the block it queues is prepared.
LEMMA ProduceBlocks ==
  ASSUME IInv, Frames, ProduceHead
  PROVE  /\ UNCHANGED <<tail_i, isr_tail_i, current_block, nextId, ti, word, ring, stack>>
         /\ head_i' = NextIndex(head_i) /\ head_i' \in Index
         /\ Span(isr_tail_i, head_i') = Span(isr_tail_i, head_i) \cup {head_i}
         /\ Span(tail_i, head_i') = Span(tail_i, head_i) \cup {head_i}
         /\ isr_tail_i # head_i' /\ tail_i # head_i'
         /\ HeadReady /\ ~HeadReady' /\ {pc, pc'} \cap WalkLabels = {}
         /\ pc = "produce" /\ pc' = "queued"
<1>1. /\ UNCHANGED <<tail_i, isr_tail_i, current_block, nextId, ti, word, ring, stack>>
      /\ head_i' = NextIndex(head_i) /\ pc = "produce" /\ pc' = "queued" /\ ~Full
  BY DEF ProduceHead, At, Goto, ThreadKeeps
<1>2. tail_i # NextIndex(head_i) /\ head_i' \in Index
  BY <1>1, Types, NextIndexType DEF Full, IsFull
<1>3. Span(tail_i, head_i') = Span(tail_i, head_i) \cup {head_i}
  BY <1>1, <1>2, Types, SpanProduce
<1>4. /\ Span(isr_tail_i, head_i') = Span(isr_tail_i, head_i) \cup {head_i}
      /\ isr_tail_i # head_i'
  BY <1>1, ProducedIsQueued
<1>5. PlanStack(stack) /\ stack # <<>>
  BY <1>1, Types DEF Frames, MoveLabels
<1>6. ~HeadReady' /\ HeadReady
  BY <1>1, <1>5, Bottom DEF PlanStack, HeadReady, OnTop
<1> QED BY <1>1, <1>2, <1>3, <1>4, <1>6 DEF WalkLabels

\* The collector clears a block of the part that is done.
LEMMA CollectBlocks ==
  ASSUME IInv, IdleCollect
  PROVE  /\ UNCHANGED <<head_i, isr_tail_i, current_block, nextId, ti, word, stack>>
         /\ pc = "gc" /\ pc' = "others" /\ (HeadReady' <=> HeadReady)
         /\ \/ UNCHANGED <<tail_i, ring>>
            \/ /\ tail_i # isr_tail_i /\ tail_i # head_i
               /\ tail_i \notin Span(isr_tail_i, head_i)
               /\ tail_i' = NextIndex(tail_i) /\ ring' = [ring EXCEPT ![tail_i] = Cleared]
               /\ Span(tail_i', isr_tail_i) = Span(tail_i, isr_tail_i) \ {tail_i}
               /\ Span(tail_i', head_i) = Span(tail_i, head_i) \ {tail_i}
<1>1. /\ UNCHANGED <<head_i, isr_tail_i, current_block, nextId, ti, word, stack>>
      /\ pc = "gc" /\ pc' = "others"
  BY DEF IdleCollect, At, Goto, ThreadKeeps
<1>2. HeadReady' <=> HeadReady
  BY <1>1 DEF HeadReady, OnTop
<1>3. CASE tail_i = isr_tail_i
  BY <1>1, <1>2, <1>3 DEF IdleCollect
<1>4. CASE tail_i # isr_tail_i
  <2>1. tail_i' = NextIndex(tail_i) /\ ring' = [ring EXCEPT ![tail_i] = Cleared]
    BY <1>4 DEF IdleCollect
  <2>2. tail_i \notin Span(isr_tail_i, head_i) /\ tail_i # head_i
    BY <1>4, CollectedIsFree
  <2> QED BY <1>1, <1>2, <1>4, <2>1, <2>2, Types, SpanRetire
<1> QED BY <1>3, <1>4

\* A cleared block does nothing.
LEMMA ClearedBlock ==
  /\ Cleared.id = 0 /\ ~Cleared.taken /\ ~Cleared.locked /\ ~Cleared.is_ticking
  /\ ~Cleared.torn
BY DEF Cleared

\* Locking: TIMER0 does not take the locked block while it is written, and one it takes
\* out of the hand of forward_pass or calculate_trapezoid is torn.
LEMMA WordStep ==
  ASSUME ThreadInv, BlockInv, Next
  PROVE  WordInv'
<1> USE DEF ThreadInv, BlockInv
<1>1. CASE Tick
  <2>1. \A i \in Index :
          /\ ~ring'[i].torn => Untorn(i)
          /\ ring'[i].torn => ~Untorn(i) \/ ring'[i].taken
          /\ ring[i].taken => ring'[i].taken
          /\ ring'[i].taken => ring[i].taken \/ ring'[i].torn \/ ~InHand(i)
          /\ ~(ring'[i].is_ticking /\ ring'[i].taken) =>
               /\ (ring'[i].is_ticking <=> ring[i].is_ticking)
               /\ (ring'[i].taken <=> ring[i].taken)
    BY <1>1, TickOutcomes DEF Ran, IsrState, Untorn
  <2>2. /\ UNCHANGED <<pc, ti, word>> /\ \A i \in Index : ring'[i].locked = ring[i].locked
    BY <1>1, TickFrame
  <2>3. pc = "prepare" => flags["continuous_mode"] = 0
    BY Types, Bottom DEF ContInv, JogRunning, OnTop, Frames, MoveLabels, PlanStack
  <2>4. pc = "prepare" /\ ~ring'[ti].torn => ~ring'[ti].taken
    <3>1. ring'[ti].taken =>
            ring[ti].taken \/ ~ring[ti].locked \/ flags["continuous_mode"] # 0
      BY <1>1, TickOutcomes, Types DEF Ran, IsrState
    <3> QED BY <2>1, <2>3, <3>1, Types DEF WordInv
  <2>5. pc = "fwdStore" /\ ~ring'[NextIndex(ti)].torn =>
          (ring'[NextIndex(ti)].taken <=> ring[NextIndex(ti)].taken)
    <3>1. NextIndex(ti) \in Index /\ (pc = "fwdStore" => InHand(NextIndex(ti)))
      BY Types DEF InHand
    <3> QED BY <2>1, <3>1
  <2>6. pc \in {"lock", "lockStore"} /\ ~ring'[ti].torn => ~ring'[ti].taken
    BY <2>1, <2>2, Types DEF WordInv, InHand
  <2>7. \A i \in Index : /\ ~ring'[i].torn => (ring'[i].is_ticking <=> ring'[i].taken)
                         /\ ring'[i].torn => ring'[i].taken
    BY <2>1 DEF WordInv
  <2> QED BY <2>1, <2>2, <2>4, <2>5, <2>6, <2>7, Types DEF WordInv, Untorn
<1>2. CASE Walk
  BY <1>2, WalkBlocks
<1>3. CASE Ready
  BY <1>3, ReadyBlocks, Types DEF WordInv, Untorn
<1>4. CASE QueueRefuse
  BY <1>4, RefuseBlocks, Types, ClearedBlock DEF WordInv, WalkLabels, Untorn
<1>5. CASE ProduceHead
  BY <1>5, ProduceBlocks DEF WordInv, Untorn
<1>6. CASE IdleCollect
  <2>1. pc = "gc" /\ pc' = "others" /\ word' = word
    BY <1>6, CollectBlocks
  <2>2. \A i \in Index : ring'[i] = ring[i] \/ ring'[i] = Cleared
    BY <1>6, CollectBlocks, Types
  <2> QED BY <2>1, <2>2, ClearedBlock DEF WordInv, Untorn
<1>7. CASE \E mv \in MoveSet : Plan(mv)
  BY <1>7, PlanBlocks DEF Plan, WordInv, WalkLabels, Untorn
<1>8. CASE Quiet
  BY <1>8 DEF Quiet, ringVars, WordInv, WalkLabels, Untorn
<1> QED BY <1>1, <1>2, <1>3, <1>4, <1>5, <1>6, <1>7, <1>8, StepKinds

\* Ticking: a block that ticks is the one being stepped, or done and not collected.
LEMMA TickingStep ==
  ASSUME ThreadInv, BlockInv, Next
  PROVE  TickingInv'
<1> USE DEF ThreadInv, BlockInv
<1> DEFINE New ==
     /\ current_block' # NoBlock => ring'[current_block'].taken
     /\ \A i \in Index : ring'[i].taken =>
          i \in Span(tail_i', isr_tail_i') \/ (i = isr_tail_i' /\ i # head_i')
<1>1. New => TickingInv'
  BY DEF TickingInv, RunsTicking, TicksAt, IsrState
<1>2. /\ current_block # NoBlock => ring[current_block].taken
      /\ \A i \in Index : ring[i].taken =>
           i \in Span(tail_i, isr_tail_i) \/ (i = isr_tail_i /\ i # head_i)
  BY DEF TickingInv, RunsTicking, TicksAt, IsrState
<1>3. CASE Tick
  <2>1. Fits(IsrState') /\ UNCHANGED <<head_i, tail_i>>
    BY <1>3, TickOutcomes, TickFrame
  <2> QED BY <1>1, <2>1 DEF Fits, Sound, RunsTicking, TicksAt, IsrState
<1>4. CASE Walk
  BY <1>1, <1>2, <1>4, WalkBlocks, Types
<1>5. CASE Ready
  BY <1>1, <1>2, <1>5, ReadyBlocks, Types
<1>6. CASE QueueRefuse
  BY <1>1, <1>2, <1>6, RefuseBlocks, Types, ClearedBlock
<1>7. CASE ProduceHead
  BY <1>1, <1>2, <1>7, ProduceBlocks
<1>8. CASE IdleCollect
  BY <1>1, <1>2, <1>8, CollectBlocks, Types, ClearedBlock
<1>9. CASE \E mv \in MoveSet : Plan(mv)
  BY <1>1, <1>2, <1>9, PlanBlocks, Types DEF Plan
<1>10. CASE Quiet
  BY <1>1, <1>2, <1>10 DEF Quiet, ringVars
<1> QED BY <1>3, <1>4, <1>5, <1>6, <1>7, <1>8, <1>9, <1>10, StepKinds

\* While recalculate() runs, nobody waits for room.
LEMMA WalkingNotReady ==
  ASSUME IInv, Frames, pc \in WalkLabels
  PROVE  ~HeadReady
BY Types, Bottom DEF Frames, MoveLabels, WalkLabels, PlanStack, HeadReady, OnTop

\* Names: only a new plan gives one, only a cleared block loses it.
LEMMA IdStep ==
  ASSUME ThreadInv, BlockInv, Next
  PROVE  IdInv'
<1> USE DEF ThreadInv, BlockInv
<1>1. CASE Tick
  <2>1. UNCHANGED <<head_i, tail_i, pc, stack, nextId>>
        /\ \A i \in Index : ring'[i].id = ring[i].id
    BY <1>1, TickFrame
  <2>2. Planning' <=> Planning
    BY <2>1 DEF Planning, HeadReady, OnTop
  <2> QED BY <2>1, <2>2, Types DEF IdInv
<1>2. CASE Walk
  BY <1>2, WalkBlocks, Types DEF IdInv, Planning
<1>3. CASE Ready
  <2>1. Planning /\ Planning'
    BY <1>3, ReadyBlocks DEF Planning, HeadReady, WalkLabels
  <2> QED BY <1>3, <2>1, ReadyBlocks, Types DEF IdInv
<1>4. CASE QueueRefuse
  BY <1>4, RefuseBlocks, Types, ClearedBlock DEF IdInv, Planning
<1>5. CASE ProduceHead
  BY <1>5, ProduceBlocks, Types DEF IdInv, Planning
<1>6. CASE IdleCollect
  <2>1. Planning' <=> Planning
    BY <1>6, CollectBlocks DEF Planning, WalkLabels
  <2> QED BY <1>6, <2>1, CollectBlocks, Types, ClearedBlock DEF IdInv
<1>7. ASSUME NEW mv \in MoveSet, Plan(mv) PROVE IdInv'
  <2>1. Planning'
    BY <1>7, PlanBlocks DEF Plan, Planning, WalkLabels
  <2>2. nextId \in Nat \ {0}
    BY DEF IInv, TypeOK, ShellType
  <2> QED BY <1>7, <2>1, <2>2, PlanBlocks, Types DEF Plan, IdInv
<1>8. CASE Quiet
  <2>1. Planning' <=> Planning
    BY <1>8 DEF Quiet, Planning
  <2> QED BY <1>8, <2>1 DEF Quiet, ringVars, IdInv
<1> QED BY <1>1, <1>2, <1>3, <1>4, <1>5, <1>6, <1>7, <1>8, StepKinds

\* Steps: what is planned has some, and the trapezoid is there when it is queued.
LEMMA StepsStep ==
  ASSUME ThreadInv, BlockInv, Next
  PROVE  StepsInv'
<1> USE DEF ThreadInv, BlockInv
<1> DEFINE New ==
     /\ \A i \in Span(isr_tail_i', head_i') :
          Some(ring'[i].steps) /\ (ring'[i].taken \/ Some(ring'[i].todo))
     /\ Planning' => Some(ring'[head_i'].steps)
     /\ Prepared' => Some(ring'[head_i'].todo)
<1>1. New => StepsInv'
  BY DEF StepsInv, StepsAt, IsrState
<1>2. /\ \A i \in Span(isr_tail_i, head_i) :
           Some(ring[i].steps) /\ (ring[i].taken \/ Some(ring[i].todo))
      /\ Planning => Some(ring[head_i].steps)
      /\ Prepared => Some(ring[head_i].todo)
  BY DEF StepsInv, StepsAt, IsrState
<1>3. Span(isr_tail_i, head_i) \subseteq Index /\ head_i \notin Span(isr_tail_i, head_i)
  BY Types, Queue
<1>4. ~ring[head_i].taken
  BY Types, Queue DEF TickingInv, TicksAt, IsrState
<1> HIDE DEF New
<1>5. CASE Tick
  <2>1. /\ UNCHANGED <<head_i, tail_i, pc, stack>>
        /\ \A i \in Index : ring'[i].steps = ring[i].steps
        /\ Span(isr_tail_i', head_i) \subseteq Span(isr_tail_i, head_i)
    BY <1>5, TickFrame
  <2>2. (Planning' <=> Planning) /\ (Prepared' <=> Prepared)
    BY <2>1 DEF Planning, Prepared, HeadReady, OnTop
  <2>3. /\ \A i \in Span(isr_tail_i', head_i) : ring'[i].taken \/ Some(ring'[i].todo)
        /\ \A i \in Index : ~ring'[i].taken => ring'[i].todo = ring[i].todo
        /\ ring'[head_i].taken => head_i \in Span(tail_i, isr_tail_i')
        /\ isr_tail_i' \in Index /\ Ordered(tail_i, isr_tail_i', head_i)
    BY <1>5, TickOutcomes, Types
    DEF Fits, Sound, Ran, StepsAt, TicksAt, InOrder, IsrState, IsrStates
  <2>4. head_i \notin Span(tail_i, isr_tail_i')
    BY <2>3, Types, SpanSplit, SpanEnds
  <2> QED BY <1>1, <1>2, <1>3, <2>1, <2>2, <2>3, <2>4, Types DEF New
<1>6. CASE Walk
  <2>1. Planning /\ Planning' /\ (Prepared' => pc' = "ready")
    <3>1. ~HeadReady /\ stack' = stack /\ pc \in WalkLabels /\ pc' \in WalkLabels
      BY <1>6, WalkBlocks, WalkingNotReady
    <3>2. ~HeadReady'
      BY <3>1 DEF HeadReady, OnTop, WalkLabels
    <3> QED BY <3>1, <3>2 DEF Planning, Prepared
  <2>2. Prepared' => Some(ring'[head_i].todo)
    BY <1>2, <1>4, <1>6, <2>1, WalkBlocks, Types
  <2> QED BY <1>1, <1>2, <1>3, <1>6, <2>1, <2>2, WalkBlocks, Types DEF New
<1>7. CASE Ready
  <2>1. Planning /\ Prepared
    BY <1>7, ReadyBlocks DEF Planning, Prepared, WalkLabels
  <2> QED BY <1>1, <1>2, <1>3, <1>7, <2>1, ReadyBlocks, Types DEF New
<1>8. CASE QueueRefuse
  <2>1. ~Planning' /\ ~Prepared'
    BY <1>8, RefuseBlocks DEF Planning, Prepared, WalkLabels
  <2> QED BY <1>1, <1>2, <1>3, <1>8, <2>1, RefuseBlocks, Types DEF New
<1>9. CASE ProduceHead
  <2>1. ~Planning' /\ ~Prepared' /\ Planning /\ Prepared
    BY <1>9, ProduceBlocks DEF Planning, Prepared, WalkLabels
  <2> QED BY <1>1, <1>2, <1>9, <2>1, ProduceBlocks DEF New
<1>10. CASE IdleCollect
  <2>1. (Planning' <=> Planning) /\ (Prepared' <=> Prepared)
    BY <1>10, CollectBlocks DEF Planning, Prepared, WalkLabels
  <2> QED BY <1>1, <1>2, <1>3, <1>10, <2>1, CollectBlocks, Types DEF New
<1>11. ASSUME NEW mv \in MoveSet, Plan(mv) PROVE StepsInv'
  <2>1. ~Prepared'
    BY <1>11, PlanBlocks DEF Plan, Prepared
  <2> QED BY <1>1, <1>2, <1>3, <1>11, <2>1, PlanBlocks, Types DEF Plan, New
<1>12. CASE Quiet
  <2>1. (Planning' <=> Planning) /\ (Prepared' <=> Prepared)
    BY <1>12 DEF Quiet, Planning, Prepared, WalkLabels
  <2> QED BY <1>1, <1>2, <1>12, <2>1 DEF Quiet, ringVars, New
<1> QED BY <1>5, <1>6, <1>7, <1>8, <1>9, <1>10, <1>11, <1>12, StepKinds
-----------------------------------------------------------------------------
(* A continuous jog, a held queue, a halt: what the thread's place says of   *)
(* flags, by the groups of its steps.                                        *)

\* Most steps neither begin nor end a continuous jog.
LEMMA JogRunningStays ==
  ASSUME IInv, Frames, Next, ~StoreFlags, ~JogMode
  PROVE  JogRunning' <=> JogRunning
<1> USE Types, Bottom DEF JogRunning, OnTop
<1>1. CASE LoadFlags
  BY <1>1 DEF LoadFlags
<1>2. CASE Idle \/ OnHalt
  <2>1. pc \in IdleLabels /\ IdleStack(stack) /\ stack # <<>>
    BY <1>2 DEF Idle, IdleCheck, IdleCollect, IdleEnd, IdleHalt, IdleUnhalt,
       OnHalt, Halt, HaltMotors, Unhalt, SyncPosition, At, IdleLabels, Frames
  <2>2. CASE Return
    BY <2>1, <2>2 DEF Return, IdleLabels, IdleStack, PlanStack, WaitStack
  <2>3. CASE stack' = stack /\ pc' \in IdleLabels
    BY <2>1, <2>3 DEF IdleLabels
  <2> QED BY <1>2, <2>2, <2>3 DEF Idle, IdleCheck, IdleCollect, IdleEnd, IdleHalt, IdleUnhalt,
      OnHalt, Halt, HaltMotors, Unhalt, SyncPosition, Goto, IdleLabels
<1>3. CASE AppendBlock
  <2>1. pc \in MoveLabels \cup {"queued"} /\ PlanStack(stack) /\ stack # <<>>
    BY <1>3 DEF AppendBlock, ForwardPass, ForwardStore, Trapezoid, Lock, LockStore, Prepare,
       Ready, QueueWait, QueueRefuse, QueueRoom, ProduceHead, QueueCheck, At, Frames, MoveLabels
  <2>2. ~JogRunning
    BY <2>1 DEF MoveLabels, PlanStack
  <2>3. CASE stack' = stack /\ pc' \in MoveLabels \cup {"queued"}
    BY <2>1, <2>2, <2>3 DEF MoveLabels, PlanStack
  <2>4. CASE Return
    BY <2>1, <2>2, <2>4 DEF Return, PlanStack
  <2>5. CASE Call("idle", "qhb")
    <3>1. pc' = "idle" /\ Head(stack') = "qhb"
      BY <2>5, Push DEF Call, Labels
    <3> QED BY <2>2, <3>1
  <2> QED BY <1>3, <2>3, <2>4, <2>5
      DEF AppendBlock, ForwardPass, ForwardStore, Trapezoid, Lock, LockStore, Prepare,
      Ready, QueueWait, QueueRefuse, QueueRoom, ProduceHead, QueueCheck, NextTrapezoid,
      TrapezoidKeeps, Goto, MoveLabels
<1>4. CASE Wait
  <2>1. pc \in WaitLabels /\ WaitStack(stack) /\ stack # <<>>
    BY <1>4 DEF Wait, WaitStart, WaitQueue, WaitMotors, At, WaitLabels, Frames
  <2>2. ~JogRunning
    BY <2>1 DEF WaitLabels, WaitStack
  <2>3. CASE Goto("drain") \/ Goto("still")
    BY <2>1, <2>2, <2>3 DEF Goto, WaitStack
  <2>4. CASE Return
    BY <2>1, <2>2, <2>4 DEF Return, WaitStack
  <2>5. ASSUME NEW r \in {"drain", "still"}, Call("idle", r) PROVE ~JogRunning'
    <3>1. pc' = "idle" /\ Head(stack') = r
      BY <2>5, Push DEF Call, Labels
    <3> QED BY <3>1
  <2> QED BY <1>4, <2>2, <2>3, <2>4, <2>5 DEF Wait, WaitStart, WaitQueue, WaitMotors
<1>5. CASE JogMove \/ MainMove
  <2>1. PICK mv \in MoveSet : PlanBlock(mv)
    BY <1>5 DEF JogMove, MainMove
  <2>2. PICK r \in {"loop", "jog2", "jog3", "jogMode"} : stack' = <<r>> \o stack
    <3>1. CASE JogMove
      BY <3>1 DEF JogMove, JogNext
    <3>2. CASE MainMove
      BY <3>2 DEF MainMove, At
    <3> QED BY <1>5, <3>1, <3>2
  <2>3. pc' \in {"trap", "fwd"} /\ Head(stack') = r
    BY <2>1, <2>2, Push DEF PlanBlock, Labels
  <2>4. pc \in {"jog1", "jog2", "jog3", "loop"}
    BY <1>5 DEF JogMove, MainMove, JogNext, At
  <2>5. ~JogRunning
    BY <2>4 DEF Frames, JogLabels
  <2> QED BY <2>2, <2>3, <2>5
<1>6. CASE JogHold \/ JogRefused
  <2>1. pc \in {"jogHold", "jog1", "jog2", "jog3"} /\ pc' \in {"jog1", "jog2", "jog3", "jogMode"}
        /\ stack' = stack
    <3>1. /\ DOMAIN JogNext = {"jog1", "jog2", "jog3"}
          /\ \A l \in DOMAIN JogNext : JogNext[l] \in {"jog2", "jog3", "jogMode"}
      BY DEF JogNext
    <3> QED BY <1>6, <3>1 DEF JogHold, JogRefused, At, Goto
  <2> QED BY <2>1 DEF Frames, JogLabels
<1>7. CASE JogForce \/ Jogging \/ JogHalted \/ JogStopped \/ JogEnd
  <2>1. JogRunning
    BY <1>7 DEF JogForce, Jogging, JogHalted, JogStopped, JogEnd, At
  <2>2. Call("idle", "jogHalted") => Head(stack') = "jogHalted" /\ stack' # <<>>
    BY Push DEF Call, Labels
  <2>3. JogForce \/ JogHalted \/ JogStopped => pc' \in {"jogging", "jogEnd"}
    BY DEF JogForce, JogHalted, JogStopped, Goto
  <2>4. JogEnd => pc' = "jogFree" /\ ops' # <<>>
    BY DEF JogEnd, Goto, Write
  <2>5. Jogging => JogRunning'
    BY <2>2 DEF Jogging
  <2> QED BY <1>7, <2>1, <2>3, <2>4, <2>5
<1>8. CASE JogFree
  <2>1. pc = "jogFree" /\ ops = <<>> /\ stack = <<"loop">>
    BY <1>8 DEF JogFree, At, Frames, JogLabels
  <2>2. pc' = "wfi" /\ Head(stack') = "sync"
    BY <1>8, Push DEF JogFree, Call, Labels
  <2> QED BY <2>1, <2>2
<1>9. CASE MainIdle \/ MainWait \/ MainAbort \/ MainHalt \/ MainUnhalt \/ MainJog
  <2>1. pc = "loop" /\ stack = <<>> /\ <<"loop">> \o <<>> = <<"loop">>
    BY <1>9 DEF MainIdle, MainWait, MainAbort, MainHalt, MainUnhalt, MainJog, At
  <2> QED BY <1>9, <2>1 DEF MainIdle, MainWait, MainAbort, MainHalt, MainUnhalt, MainJog,
      Call, Goto
<1>10. CASE Interrupt
  BY <1>10 DEF Interrupt, Tick, LimitHit, LimitClear, TimePasses, StopRequest, threadVars
<1> QED BY <1>1, <1>2, <1>3, <1>4, <1>5, <1>6, <1>7, <1>8, <1>9, <1>10
        DEF Next, Thread, Jog, Main

\* Which steps change flags, the byte that is loaded, or the saved tick info.
LEMMA FlagWriters ==
  ASSUME Next, ~LoadFlags, ~StoreFlags
  PROVE  /\ reg' = reg
         /\ Tick \/ LimitHit \/ flags' = flags
         /\ JogMode \/ JogFree \/ saved' = saved
BY DEF Next, Thread, Interrupt, Tick, LimitHit, LimitClear, TimePasses, StopRequest,
   Idle, IdleCheck, IdleCollect, IdleEnd, IdleHalt, IdleUnhalt,
   OnHalt, Halt, HaltMotors, Unhalt, SyncPosition,
   AppendBlock, ForwardPass, ForwardStore, Trapezoid, Lock, LockStore, Prepare, TrapezoidKeeps,
   Ready, QueueWait, QueueRefuse, QueueRoom, ProduceHead, QueueCheck,
   Wait, WaitStart, WaitQueue, WaitMotors,
   Jog, JogHold, JogMove, JogRefused, JogMode, JogForce, Jogging, JogHalted, JogStopped, JogEnd,
   JogFree, Main, MainIdle, MainMove, MainWait, MainAbort, MainHalt, MainUnhalt, MainJog,
   PlanBlock, JogKeeps, ThreadKeeps, threadVars, shellVars

\* Continuous mode is asked for by set_continuous_mode(true) only.
LEMMA NewWrites ==
  ASSUME Next, ~StoreFlags, ~JogMode, ops' = <<C1, H0>>
  PROVE  ops = <<C1, H0>>
<1>1. \A a, b : /\ <<C1, H0>> # <<>> /\ <<C1, H0>> # <<a>>
                /\ a # C1 => <<C1, H0>> # <<a, b>>
                /\ \A c, d : <<C1, H0>> # <<a, b, c, d>>
  OBVIOUS
<1>2. A0 # C1
  BY DEF A0, C1, Set
<1> HIDE DEF C1, H0
<1>3. \A force \in BOOLEAN : ~CheckQueue(force)
  BY <1>1 DEF CheckQueue
<1>4. \A a : ~Write(<<a>>)
  BY <1>1 DEF Write
<1>5. \A b : ~Write(<<A0, b>>)
  BY <1>1, <1>2 DEF Write
<1>6. \A a, b, c, d : ~Write(<<a, b, c, d>>)
  BY <1>1 DEF Write
<1>7. NoWrite => ops' = ops
  BY DEF NoWrite
<1> QED
  BY <1>3, <1>4, <1>5, <1>6, <1>7
  DEF Next, Thread, Interrupt, Tick, LimitHit, LimitClear, TimePasses, StopRequest, LoadFlags,
   Idle, IdleCheck, IdleCollect, IdleEnd, IdleHalt, IdleUnhalt,
   OnHalt, Halt, HaltMotors, Unhalt, SyncPosition,
   AppendBlock, ForwardPass, ForwardStore, Trapezoid, Lock, LockStore, Prepare, TrapezoidKeeps,
   Ready, QueueWait, QueueRefuse, QueueRoom, ProduceHead, QueueCheck,
   Wait, WaitStart, WaitQueue, WaitMotors,
   Jog, JogHold, JogMove, JogRefused, JogForce, Jogging, JogHalted, JogStopped, JogEnd,
   JogFree, Main, MainIdle, MainMove, MainWait, MainAbort, MainHalt, MainUnhalt, MainJog,
   PlanBlock, threadVars, A0

\* What a store can do, by the write it completes.
LEMMA StoreCases ==
  ASSUME IInv, Writes, StoreFlags
  PROVE  /\ reg # <<>> /\ Head(reg) \in Byte /\ reg' = <<>>
         /\ UNCHANGED <<ringVars, halted, motorVars, pc, stack, saved, limit>>
         /\ Head(ops) = C1 => pc = "jogForce" /\ ops' = <<H0>> /\ flags'["continuous_mode"] = 1
         /\ Head(ops) = C0 => flags'["continuous_mode"] = 0
         /\ Head(ops) \notin {C0, C1} =>
              flags'["continuous_mode"] = Head(reg)["continuous_mode"]
         /\ Head(ops) = H1 => pc = "jog1" /\ flags'["hold_queue"] = 1
         /\ Head(ops) = H0 => flags'["hold_queue"] = 0
         /\ Head(ops) \notin {H0, H1} => flags'["hold_queue"] = Head(reg)["hold_queue"]
         /\ Head(ops) = F1 => flags'["flush"] = 1
         /\ Head(ops) # F1 => flags'["flush"] = Head(reg)["flush"]
         /\ pc = "jogFree" => Head(ops) = C0
         /\ ops # <<>> /\ ops' # <<C1, H0>>
         /\ pc \in {"stop", "stopSync"} =>
              \/ Head(ops) = A0 /\ ops' \in HaltsFlushing
              \/ Head(ops) = F1 /\ ops' \in HaltsFlushed
              \/ Head(ops) = H0 /\ ops' = <<C0>>
              \/ Head(ops) = C0 /\ ops = <<C0>> /\ ops' = <<>>
<1>1. /\ reg # <<>> /\ reg' = <<>> /\ ops # <<>> /\ ops' = Tail(ops)
      /\ flags' = [Head(reg) EXCEPT ![Head(ops).f] = Head(ops).v]
      /\ UNCHANGED <<ringVars, halted, motorVars, pc, stack, saved, limit>>
  BY DEF StoreFlags, shellVars
<1>2. Head(reg) \in Byte /\ Head(ops) \in Op
  BY <1>1, HeadTailProperties DEF IInv, TypeOK, FlagsType
<1>3. /\ A0 # A1 /\ F1 \notin {A0, A1} /\ H0 \notin {A0, A1, F1, H1} /\ H1 \notin {A0, A1, F1}
      /\ {C0, C1} \cap {A0, A1, F1, H0, H1, R0, R1} = {} /\ C0 # C1
      /\ {F1, H0, H1} \cap {R0, R1} = {}
  BY DEF Set, A0, A1, F1, H0, H1, C0, C1, R0, R1
<1>4. /\ Head(ops) = C1 => flags'["continuous_mode"] = 1
      /\ Head(ops) = C0 => flags'["continuous_mode"] = 0
      /\ Head(ops) = H0 => flags'["hold_queue"] = 0
      /\ Head(ops) = H1 => flags'["hold_queue"] = 1
      /\ Head(ops) = F1 => flags'["flush"] = 1
  BY <1>1, <1>2 DEF Byte, Flag, Set, C0, C1, H0, H1, F1
<1>5. \A f \in Flag : Head(ops).f # f => flags'[f] = Head(reg)[f]
  BY <1>1, <1>2 DEF Byte
<1>6. /\ \A a \in {A0, A1} : a.f = "allow_fetch"
      /\ \A a \in {R0, R1} : a.f = "running"
      /\ \A a \in {H0, H1} : a.f = "hold_queue"
      /\ \A a \in {C0, C1} : a.f = "continuous_mode"
      /\ F1.f = "flush"
  BY DEF Set, A0, A1, F1, H0, H1, C0, C1, R0, R1
<1> HIDE DEF A0, A1, F1, H0, H1, C0, C1, R0, R1
<1> DEFINE Single ==
     \/ pc \in {"gc", "idle", "loop", "jog2", "jog3", "jogMode", "jogging"}
        /\ Head(ops) \in {A0, A1}
     \/ pc \in {"loop", "sync", "jogHold"} /\ Head(ops) = R1
     \/ pc = "drain" /\ Head(ops) = R0
     \/ pc = "jog1" /\ Head(ops) = H1
     \/ pc = "jogForce" /\ Head(ops) = H0
     \/ pc \in {"jogFree", "stop", "stopSync"} /\ Head(ops) = C0
     \/ pc = "wfi" /\ Head(ops) = F1
<1> DEFINE Several ==
     \/ pc = "jogForce" /\ Head(ops) = C1 /\ ops' = <<H0>>
     \/ pc \in {"stop", "stopSync"} /\ Head(ops) = A0 /\ ops' = <<F1, H0, C0>>
     \/ pc \in {"stop", "stopSync"} /\ Head(ops) = F1 /\ ops' = <<H0, C0>>
     \/ pc \in {"stop", "stopSync"} /\ Head(ops) = H0 /\ ops' = <<C0>>
     \/ pc = "wfi" /\ Head(ops) = A0 /\ ops' = <<F1>>
<1>12. (Single /\ ops = <<Head(ops)>> /\ ops' = <<>>) \/ Several
  <2>1. CASE \E a : ops = <<a>>
    <3>1. PICK a : ops = <<a>>
      BY <2>1
    <3>2. Head(ops) = a /\ ops' = <<>>
      BY <1>1, <3>1, Pop
    <3>3. \A b, c, d, e : <<a>> # <<b, c>> /\ <<a>> # <<b, c, d>> /\ <<a>> # <<b, c, d, e>>
      OBVIOUS
    <3>4. \A b : <<a>> = <<b>> => a = b
      OBVIOUS
    <3> QED BY <1>1, <3>1, <3>2, <3>3, <3>4 DEF Writes, HaltsFlushing, HaltsFlushed
  <2>2. CASE pc \in {"stop", "stopSync"} /\ ops = <<A0, F1, H0, C0>>
    BY <1>1, <2>2, Pop
  <2>3. CASE pc \in {"stop", "stopSync"} /\ ops = <<F1, H0, C0>>
    BY <1>1, <2>3, Pop
  <2>4. CASE pc \in {"stop", "stopSync"} /\ ops = <<H0, C0>>
    BY <1>1, <2>4, Pop
  <2>5. CASE pc = "jogForce" /\ ops = <<C1, H0>>
    BY <1>1, <2>5, Pop
  <2>6. CASE pc = "wfi" /\ ops = <<A0, F1>>
    BY <1>1, <2>6, Pop
  <2> QED BY <1>1, <2>1, <2>2, <2>3, <2>4, <2>5, <2>6 DEF Writes, HaltsFlushing, HaltsFlushed
<1>7. Head(ops) \in {A0, A1, F1, H0, H1, C0, C1, R0, R1}
  BY <1>12
<1>8. /\ Head(ops) \notin {C0, C1} => flags'["continuous_mode"] = Head(reg)["continuous_mode"]
      /\ Head(ops) \notin {H0, H1} => flags'["hold_queue"] = Head(reg)["hold_queue"]
      /\ Head(ops) # F1 => flags'["flush"] = Head(reg)["flush"]
  BY <1>5, <1>6, <1>7 DEF Flag
<1>9. /\ Head(ops) = C1 => pc = "jogForce" /\ ops' = <<H0>>
      /\ Head(ops) = H1 => pc = "jog1"
      /\ pc = "jogFree" => Head(ops) = C0
  BY <1>3, <1>12
<1>10. pc \in {"stop", "stopSync"} =>
              \/ Head(ops) = A0 /\ ops' \in HaltsFlushing
              \/ Head(ops) = F1 /\ ops' \in HaltsFlushed
              \/ Head(ops) = H0 /\ ops' = <<C0>>
              \/ Head(ops) = C0 /\ ops = <<C0>> /\ ops' = <<>>
  BY <1>12 DEF HaltsFlushing, HaltsFlushed
<1>11. ops' # <<C1, H0>>
  <2>1. /\ \A a : <<C1, H0>> # <<a>>
        /\ \A a, b, c : <<C1, H0>> # <<a, b, c>>
        /\ <<C1, H0>> # <<H0, C0>> /\ <<C1, H0>> # <<>>
    BY <1>3
  <2> QED BY <1>12, <2>1
<1> QED BY <1>1, <1>2, <1>4, <1>8, <1>9, <1>10, <1>11

\* The block set_continuous_mode(true) saves the tick info of has steps to do.
LEMMA SecondBlock ==
  ASSUME ThreadInv, BlockInv, pc = "jogMode", ~Empty, flags["hold_queue"] # 0
  PROVE  Some(ring[NextIndex(tail_i)].todo)
<1> DEFINE i == NextIndex(tail_i)
<1>1. isr_tail_i = tail_i /\ Dist(tail_i, head_i) = 3
  BY DEF BlockInv, JogInv, Queueing, HeldWith
<1>2. i \in Span(tail_i, head_i) /\ i # tail_i /\ i \notin Span(tail_i, tail_i) /\ i \in Index
  <2>1. tail_i \in Index /\ head_i \in Index
    BY Types DEF ThreadInv
  <2> QED BY <1>1, <2>1, LengthAssumption DEF Index, Span, Dist, NextIndex
<1>3. ~ring[i].taken
  BY <1>1, <1>2 DEF BlockInv, TickingInv, TicksAt, IsrState
<1> QED BY <1>1, <1>2, <1>3 DEF BlockInv, StepsInv, StepsAt, IsrState

\* Continuous mode is on only while jog runs, with saved tick info that moves something.
LEMMA ContStep ==
  ASSUME ThreadInv, BlockInv, Next
  PROVE  ContInv'
<1> USE DEF ThreadInv, BlockInv
<1>1. CASE LoadFlags
  <2>1. UNCHANGED <<pc, stack, ops, flags, saved>> /\ reg' = <<flags>> /\ Head(reg') = flags
    BY <1>1 DEF LoadFlags, shellVars
  <2> QED BY <2>1 DEF ContInv, JogRunning, OnTop
<1>2. CASE StoreFlags
  <2>1. /\ UNCHANGED <<pc, stack, saved>> /\ reg' = <<>> /\ ops' # <<C1, H0>> /\ reg # <<>>
        /\ ops # <<>>
    BY <1>2, StoreCases
  <2>2. /\ JogRunning' => JogRunning
        /\ JogRunning /\ (pc = "jogFree" => ops' # <<>>) => JogRunning'
    BY <2>1 DEF JogRunning, OnTop
  <2>3. CASE Head(ops) = C0
    BY <1>2, <2>1, <2>2, <2>3, StoreCases DEF ContInv
  <2>4. CASE Head(ops) = C1
    <3>1. JogRunning /\ JogRunning'
      BY <1>2, <2>1, <2>4, StoreCases DEF JogRunning
    <3> QED BY <2>1, <3>1 DEF ContInv
  <2>5. CASE Head(ops) \notin {C0, C1}
    BY <1>2, <2>1, <2>2, <2>5, StoreCases DEF ContInv
  <2> QED BY <2>3, <2>4, <2>5
<1>3. CASE JogMode
  <2>1. pc = "jogMode" /\ ops = <<>> /\ flags' = flags /\ reg' = reg /\ stack = <<"loop">>
    BY <1>3 DEF JogMode, At, Frames, JogLabels
  <2>2. ~JogRunning /\ reg = <<>> /\ flags["continuous_mode"] = 0
    BY <2>1, Bottom DEF JogRunning, OnTop, ContInv, Loading
  <2>3. CASE pc' = "loop" /\ stack' = <<>> /\ saved' = saved
    BY <2>1, <2>2, <2>3 DEF ContInv, JogRunning, OnTop
  <2>4. CASE saved' = ring[NextIndex(tail_i)].todo /\ ~Empty /\ flags["hold_queue"] # 0
    BY <2>1, <2>2, <2>4, SecondBlock DEF ContInv
  <2> QED BY <1>3, <2>1, <2>3, <2>4, Bottom DEF JogMode, Return
<1>4. CASE JogFree
  <2>1. ops = <<>> /\ flags' = flags /\ reg' = reg /\ ~JogRunning' /\ pc = "jogFree"
        /\ stack = <<"loop">>
    <3>1. pc' = "wfi" /\ Head(stack') = "sync"
      BY <1>4, Types, Push DEF JogFree, Call, Labels
    <3> QED BY <1>4, <3>1 DEF JogFree, At, Frames, JogLabels, JogRunning, OnTop
  <2>2. ~JogRunning /\ reg = <<>>
    BY <2>1, Bottom DEF JogRunning, OnTop, Loading
  <2> QED BY <2>1, <2>2 DEF ContInv
<1>5. ASSUME ~LoadFlags, ~StoreFlags, ~JogMode, ~JogFree PROVE ContInv'
  <2>1. /\ JogRunning' <=> JogRunning
        /\ reg' = reg /\ saved' = saved /\ (ops' = <<C1, H0>> => ops = <<C1, H0>>)
    BY <1>5, JogRunningStays, FlagWriters, NewWrites
  <2>2. flags'["continuous_mode"] # 0 => flags["continuous_mode"] # 0
    <3>1. CASE Tick
      BY <3>1, TickOutcomes DEF Ran, IsrState
    <3>2. CASE LimitHit
      BY <3>2 DEF LimitHit, IInv, TypeOK, FlagsType, Byte, Flag
    <3> QED BY <1>5, <3>1, <3>2, FlagWriters
  <2> QED BY <2>1, <2>2 DEF ContInv
<1> QED BY <1>1, <1>2, <1>3, <1>4, <1>5

\* The blocks a jog has queued so far.
LEMMA QueueingValues ==
  /\ DOMAIN Queueing = {"jog1", "jog2", "jog3", "jogMode"}
  /\ DOMAIN JogNext = {"jog1", "jog2", "jog3"}
  /\ \A l \in DOMAIN JogNext : JogNext[l] \in DOMAIN Queueing
                               /\ JogNext[l] # "jog1"
                               /\ Queueing[JogNext[l]] - 1 = Queueing[l]
  /\ Queueing["jog1"] = 0
  /\ \A l \in DOMAIN Queueing : Queueing[l] \in Int
BY DEF Queueing, JogNext

\* An empty ring is at the index of the interrupt too.
LEMMA EmptyIsDone ==
  ASSUME IInv, Empty
  PROVE  isr_tail_i = tail_i /\ isr_tail_i = head_i /\ HeldWith(0)
BY Types, LengthAssumption DEF Empty, IsEmpty, Index, Ordered, Dist, HeldWith

\* A held queue holds the blocks of the jog that holds it.
LEMMA JogStep ==
  ASSUME ThreadInv, BlockInv, Next
  PROVE  JogInv'
<1> USE DEF ThreadInv, BlockInv
<1>1. CASE LoadFlags \/ LimitClear \/ TimePasses \/ StopRequest
  <2>1. UNCHANGED <<flags, halted, head_i, tail_i, isr_tail_i, pc, stack, ops>>
    BY <1>1 DEF LoadFlags, LimitClear, TimePasses, StopRequest, ringVars, threadVars
  <2> QED BY <2>1 DEF JogInv, HeldWith, OnTop, Empty
<1>2. CASE LimitHit
  <2>1. flags["hold_queue"] # 1
    BY <1>2 DEF LimitHit, HoldInv, Holding
  <2>2. flags'["hold_queue"] = flags["hold_queue"]
    BY <1>2 DEF LimitHit, IInv, TypeOK, FlagsType, Byte, Flag
  <2> QED BY <1>2, <2>1, <2>2 DEF LimitHit, threadVars, JogInv
<1>3. CASE Tick
  <2>1. UNCHANGED <<head_i, tail_i, halted, pc, stack, ops>>
        /\ flags'["hold_queue"] = flags["hold_queue"]
    BY <1>3, TickFrame DEF KeptFlags
  <2>2. flags["hold_queue"] = 1 => UNCHANGED isr_tail_i
    BY <1>3, TickStill DEF HoldInv, Holding
  <2> QED BY <2>1, <2>2 DEF JogInv, HeldWith, OnTop, Empty
<1>4. CASE StoreFlags
  <2>1. /\ UNCHANGED <<head_i, tail_i, isr_tail_i, halted, pc, stack>>
        /\ reg # <<>> /\ ops # <<>>
    BY <1>4, StoreCases DEF ringVars
  <2>2. Head(reg)["hold_queue"] = flags["hold_queue"]
    BY <2>1 DEF HoldInv
  <2>3. flags'["hold_queue"] \in {0, 1}
    BY <1>4, <2>2, StoreCases DEF JogInv
  <2>4. pc \in {"stop", "stopSync"} /\ ops' \in {<<>>, <<C0>>} => flags'["hold_queue"] # 1
    <3>1. /\ A0 \notin {H0, H1, C0, F1} /\ F1 \notin {H0, H1, C0} /\ C0 \notin {H0, H1}
      BY DEF A0, F1, H0, H1, C0, Set
    <3>2. HaltsFlushing \cap {<<>>, <<C0>>} = {}
      BY DEF HaltsFlushing
    <3>3. CASE Head(ops) = F1 /\ ops' = <<C0>> /\ pc \in {"stop", "stopSync"}
      <4>1. ops \in HaltsFlushing \cup HaltsFlushed /\ ops' = Tail(ops)
        <5>1. ops # <<>> /\ ops' = Tail(ops)
          BY <1>4 DEF StoreFlags
        <5> QED BY <3>3, <5>1 DEF Writes
      <4> HIDE DEF A0, F1, H0, C0
      <4>2. CASE ops = <<A0, F1, H0, C0>>
        BY <3>1, <3>3, <4>2, Pop
      <4>3. CASE ops = <<F1, H0, C0>>
        <5>1. ops' = <<H0, C0>> /\ <<H0, C0>> # <<C0>>
          BY <4>1, <4>3, Pop
        <5> QED BY <3>3, <5>1
      <4>4. CASE ops = <<H0, C0>>
        BY <3>1, <3>3, <4>4, Pop
      <4>5. CASE ops = <<C0>>
        BY <3>1, <3>3, <4>5, Pop
      <4> QED BY <4>1, <4>2, <4>3, <4>4, <4>5 DEF HaltsFlushing, HaltsFlushed
    <3>4. HaltsFlushed \cap {<<>>, <<C0>>} \subseteq {<<C0>>}
      BY DEF HaltsFlushed
    <3> HIDE DEF A0, F1, H0, H1, C0
    <3>5. CASE pc \in {"stop", "stopSync"} /\ Head(ops) = C0 /\ ops = <<C0>>
      BY <1>4, <2>2, <3>1, <3>5, StoreCases DEF JogInv
    <3> QED BY <1>4, <3>1, <3>2, <3>3, <3>4, <3>5, StoreCases
  <2>5. CASE flags'["hold_queue"] = 1 /\ Head(ops) = H1
    <3>1. pc = "jog1" /\ Empty
      BY <1>4, <2>1, <2>5, StoreCases DEF HoldInv
    <3> QED BY <2>1, <2>3, <2>4, <3>1, EmptyIsDone, QueueingValues
        DEF JogInv, HeldWith, Empty, MoveLabels, IdleLabels
  <2>6. CASE flags'["hold_queue"] = 1 /\ Head(ops) # H1
    <3>1. flags["hold_queue"] = 1
      BY <1>4, <2>2, <2>6, StoreCases
    <3> QED BY <2>1, <2>3, <2>4, <3>1 DEF JogInv, HeldWith, OnTop, Empty
  <2> QED BY <2>1, <2>3, <2>4, <2>5, <2>6 DEF JogInv
<1>6. CASE Idle \/ OnHalt
  <2>1. pc \in IdleLabels /\ IdleStack(stack) /\ stack # <<>> /\ UNCHANGED <<isr_tail_i, flags, head_i>>
    BY <1>6, Types DEF Idle, IdleCheck, IdleCollect, IdleEnd, IdleHalt, IdleUnhalt, ThreadKeeps,
       RingKept, OnHalt, Halt, HaltMotors, Unhalt, SyncPosition, At, IdleLabels, Frames
  <2>2. flags["hold_queue"] \in {0, 1}
    BY DEF JogInv
  <2>3. CASE flags["hold_queue"] # 1
    BY <2>1, <2>2, <2>3 DEF JogInv
  <2>4. CASE flags["hold_queue"] = 1
    <3>1. ~HaltMotors
      BY <2>4 DEF HaltMotors, At, JogInv
    <3>2. pc \notin {"stop", "stopSync"}
      BY <1>6, <3>1 DEF Idle, IdleCheck, IdleCollect, IdleEnd, IdleHalt, IdleUnhalt,
         OnHalt, Halt, Unhalt, SyncPosition, At
    <3> DEFINE Jogs == OnTop("qhb") /\ Head(Tail(stack)) \in DOMAIN Queueing
    <3>3. Jogs => HeldWith(Queueing[Head(Tail(stack))] - 1) /\ ~halted
      BY <2>1, <2>4, <3>2 DEF JogInv
    <3>4. Jogs => UNCHANGED tail_i /\ ~Unhalt /\ ~IdleUnhalt
      <4>1. Jogs => isr_tail_i = tail_i
        BY <3>3 DEF HeldWith
      <4>2. ~halted => ~Unhalt /\ ~IdleUnhalt
        BY DEF Unhalt, IdleUnhalt, At, DoomInv
      <4> HIDE DEF Jogs
      <4> QED BY <1>6, <3>1, <3>3, <4>1, <4>2 DEF Idle, IdleCheck, IdleCollect, IdleEnd, IdleHalt,
          IdleUnhalt, OnHalt, Halt, HaltMotors, SyncPosition, RingKept
    <3>5. CASE IdleEnd \/ SyncPosition
      <4>1. pc' = Head(stack) /\ stack' = Tail(stack) /\ UNCHANGED <<halted, tail_i>>
        BY <3>5 DEF IdleEnd, SyncPosition, Return, RingKept, MotionKept
      <4>2. \/ pc' \in {"loop", "jogHalted", "drain", "still"}
            \/ pc' = "qhb" /\ OnTop("qhb") /\ Head(stack') = Head(Tail(stack))
        BY <2>1, <4>1, Bottom DEF IdleStack, OnTop
      <4> QED BY <2>1, <2>2, <3>3, <4>1, <4>2, QueueingValues
          DEF JogInv, HeldWith, MoveLabels, IdleLabels
    <3>6. CASE IdleCheck \/ IdleCollect \/ IdleHalt \/ IdleUnhalt \/ Unhalt
      <4>1. pc' \in {"gc", "others", "halt", "unhalt", "sync"} /\ stack' = stack
        BY <3>6 DEF IdleCheck, IdleCollect, IdleHalt, IdleUnhalt, Unhalt, Goto
      <4>2. halted' = halted \/ Unhalt
        BY <3>6 DEF IdleCheck, IdleCollect, IdleHalt, IdleUnhalt, MotionKept
      <4>3. pc' \in IdleLabels /\ pc' \notin MoveLabels \cup {"queued", "stop", "stopSync"}
            /\ pc' \notin DOMAIN Queueing
        BY <4>1, QueueingValues DEF IdleLabels, MoveLabels
      <4>4. Jogs => ~halted' /\ tail_i' = tail_i /\ isr_tail_i' = isr_tail_i /\ head_i' = head_i
        BY <2>1, <3>3, <3>4, <4>2
      <4>5. OnTop("qhb")' = OnTop("qhb")
        BY <4>1 DEF OnTop
      <4> QED BY <2>1, <2>2, <3>3, <4>1, <4>3, <4>4, <4>5 DEF JogInv, HeldWith
    <3>7. CASE Halt
      <4>1. pc' \in {"stop", "stopSync"} /\ stack' = stack /\ ops' \notin {<<>>, <<C0>>}
        <5>1. \A a, b, c, d : <<a, b, c, d>> # <<>> /\ <<a, b, c, d>> # <<C0>>
          OBVIOUS
        <5> QED BY <3>7, <5>1 DEF Halt, Goto, Write
      <4> QED BY <2>1, <2>2, <3>3, <3>4, <4>1, QueueingValues
          DEF JogInv, HeldWith, MoveLabels, IdleLabels, OnTop
    <3> QED BY <1>6, <3>1, <3>5, <3>6, <3>7 DEF Idle, OnHalt
  <2> QED BY <2>3, <2>4
<1>7. CASE AppendBlock
  <2>1. /\ pc \in MoveLabels \cup {"queued"} /\ PlanStack(stack) /\ stack # <<>>
        /\ UNCHANGED <<isr_tail_i, flags, tail_i, halted>>
    BY <1>7, Types DEF AppendBlock, ForwardPass, ForwardStore, Trapezoid, Lock, LockStore, Prepare,
       TrapezoidKeeps, Ready, QueueWait, QueueRefuse, QueueRoom, ProduceHead, QueueCheck,
       ThreadKeeps, RingKept, MotionKept, At, MoveLabels, Frames
  <2>2. flags["hold_queue"] \in {0, 1}
    BY DEF JogInv
  <2> DEFINE Jogs == flags["hold_queue"] = 1 /\ Head(stack) \in DOMAIN Queueing
  <2>3. Jogs => ~halted /\ HeldWith(Queueing[Head(stack)] - IF pc = "queued" THEN 0 ELSE 1)
    BY <2>1, QueueingValues DEF JogInv, HeldWith, MoveLabels
  <2>4. CASE stack' = stack /\ head_i' = head_i /\ pc \in MoveLabels /\ pc' \in MoveLabels
    BY <2>1, <2>2, <2>4 DEF JogInv, HeldWith, MoveLabels, IdleLabels, Queueing
  <2>5. CASE ProduceHead
    <3>1. tail_i \in Index /\ head_i \in Index /\ ~Full /\ head_i' = NextIndex(head_i)
          /\ pc = "produce" /\ pc' = "queued" /\ stack' = stack
      BY <2>5, Types DEF ProduceHead, At, Goto
    <3>2. Dist(tail_i, head_i') = Dist(tail_i, head_i) + 1
      BY <3>1, LengthAssumption DEF Full, IsFull, Index, Dist, NextIndex
    <3> QED BY <2>1, <2>2, <2>3, <3>1, <3>2, QueueingValues
        DEF JogInv, HeldWith, MoveLabels, IdleLabels
  <2>6. CASE QueueWait
    <3>1. pc = "qhb" /\ pc' = "idle" /\ head_i' = head_i /\ Head(stack') = "qhb"
          /\ Tail(stack') = stack
      BY <2>6, Types, Push DEF QueueWait, At, Call, RingKept, Labels
    <3> QED BY <2>1, <2>2, <2>3, <3>1, QueueingValues DEF JogInv, HeldWith, MoveLabels, IdleLabels
  <2>7. CASE QueueRefuse \/ QueueCheck
    <3>1. pc' = Head(stack) /\ stack' = Tail(stack) /\ head_i' = head_i
          /\ (QueueRefuse => halted) /\ (QueueCheck => pc = "queued")
      BY <2>7 DEF QueueRefuse, QueueCheck, Return, RingKept, At
    <3>2. pc' \in {"loop", "jog2", "jog3", "jogMode"}
      BY <2>1, <3>1, Bottom DEF PlanStack
    <3> QED BY <2>1, <2>2, <2>3, <2>7, <3>1, <3>2, QueueingValues
        DEF JogInv, HeldWith, MoveLabels, IdleLabels
  <2>8. ForwardPass \/ ForwardStore \/ Trapezoid \/ Lock \/ LockStore \/ Prepare \/ Ready \/ QueueRoom
        => stack' = stack /\ head_i' = head_i /\ pc \in MoveLabels /\ pc' \in MoveLabels
    BY DEF ForwardPass, ForwardStore, Trapezoid, Lock, LockStore, Prepare, Ready, QueueRoom,
       TrapezoidKeeps, NextTrapezoid, RingKept, At, Goto, MoveLabels
  <2> QED BY <1>7, <2>4, <2>5, <2>6, <2>7, <2>8 DEF AppendBlock
<1>8. CASE Wait
  <2>1. UNCHANGED flags /\ WaitStack(stack) /\ stack # <<>>
    BY <1>8, Types DEF Wait, WaitStart, WaitQueue, WaitMotors, ThreadKeeps, At, Frames, WaitLabels
  <2>2. \/ pc' \in {"drain", "still", "loop", "jogHold"}
        \/ pc' \in {"idle", "sync"} /\ ~OnTop("qhb")'
    <3>1. Return => pc' \in {"loop", "jogHold"} \/ (pc' = "sync" /\ stack' = <<"loop">>)
      BY <2>1, Bottom DEF Return, WaitStack
    <3>2. \A r \in {"drain", "still"} : Call("idle", r) => pc' = "idle" /\ Head(stack') # "qhb"
      BY Types, Push DEF Call, Labels
    <3> QED BY <1>8, <3>1, <3>2, Bottom DEF Wait, WaitStart, WaitQueue, WaitMotors, Goto, OnTop
  <2> QED BY <2>1, <2>2, QueueingValues DEF JogInv, MoveLabels, IdleLabels
<1>9. CASE JogMove
  <2>1. PICK mv \in MoveSet : PlanBlock(mv)
    BY <1>9 DEF JogMove
  <2>2. pc \in DOMAIN JogNext /\ ~halted /\ stack' = <<JogNext[pc]>> \o stack
    BY <1>9 DEF JogMove
  <2>3. UNCHANGED <<flags, head_i, tail_i, isr_tail_i, halted>> /\ pc' \in {"trap", "fwd"}
    BY <2>1 DEF PlanBlock, ThreadKeeps
  <2>4. Head(stack') = JogNext[pc] /\ JogNext[pc] \in Labels
    <3>1. JogNext[pc] \in Labels
      BY <2>2 DEF JogNext, Labels
    <3> QED BY <2>2, <3>1, Types, Push
  <2>5. flags["hold_queue"] = 1 => HeldWith(Queueing[pc])
    BY <2>2, QueueingValues DEF JogInv
  <2> QED BY <2>2, <2>3, <2>4, <2>5, QueueingValues DEF JogInv, HeldWith, MoveLabels, IdleLabels
<1>10. CASE JogRefused
  <2>1. pc \in DOMAIN JogNext /\ halted /\ pc' = JogNext[pc]
        /\ UNCHANGED <<flags, head_i, tail_i, isr_tail_i, halted>>
    BY <1>10 DEF JogRefused, Goto, JogKeeps, ThreadKeeps, RingKept, MotionKept
  <2>2. pc' \in DOMAIN Queueing /\ pc' \in {"jog2", "jog3", "jogMode"} /\ pc \in DOMAIN Queueing
    BY <2>1, QueueingValues
  <2> QED BY <2>1, <2>2 DEF JogInv, Empty, MoveLabels, IdleLabels
<1>11. CASE JogHold
  <2>1. pc' = "jog1" /\ Empty /\ UNCHANGED <<flags, head_i, tail_i, isr_tail_i, halted>>
    BY <1>11 DEF JogHold, At, Goto, JogKeeps, ThreadKeeps, RingKept, MotionKept, HoldInv
  <2> QED BY <2>1, EmptyIsDone, QueueingValues DEF JogInv, HeldWith, Empty, MoveLabels, IdleLabels
<1>12. CASE JogMode \/ JogForce \/ Jogging \/ JogHalted \/ JogStopped \/ JogEnd \/ JogFree
  <2>1. UNCHANGED flags /\ stack = <<"loop">>
    BY <1>12 DEF JogMode, JogForce, Jogging, JogHalted, JogStopped, JogEnd, JogFree,
       JogKeeps, ThreadKeeps, At, Frames, JogLabels
  <2>2. \/ pc' \in {"loop", "jogForce", "jogging", "jogEnd", "jogFree", "wfi"}
        \/ pc' = "idle" /\ Head(stack') = "jogHalted"
    <3>1. Call("idle", "jogHalted") => pc' = "idle" /\ Head(stack') = "jogHalted"
      BY Types, Push DEF Call, Labels
    <3>2. Return => pc' = "loop"
      BY <2>1, Bottom DEF Return
    <3>3. Call("wfi", "sync") => pc' = "wfi"
      BY DEF Call
    <3> QED BY <1>12, <3>1, <3>2, <3>3 DEF JogMode, JogForce, Jogging, JogHalted, JogStopped,
        JogEnd, JogFree, Goto
  <2> QED BY <2>1, <2>2, QueueingValues DEF JogInv, MoveLabels, IdleLabels, OnTop
<1>13. CASE Main
  <2>1. UNCHANGED flags /\ pc = "loop" /\ stack = <<>> /\ <<"loop">> \o <<>> = <<"loop">>
    <3>1. pc = "loop"
      BY <1>13 DEF Main, MainIdle, MainMove, MainWait, MainAbort, MainHalt, MainUnhalt, MainJog, At
    <3>2. UNCHANGED flags
      BY <1>13 DEF Main, MainIdle, MainMove, MainWait, MainAbort, MainHalt, MainUnhalt, MainJog,
         PlanBlock, JogKeeps, ThreadKeeps
    <3> QED BY <3>1, <3>2, Types
  <2>2. \/ pc' \in {"loop", "wfi"}
        \/ pc' \in {"trap", "fwd", "idle", "halt", "unhalt"} /\ stack' = <<"loop">>
    BY <1>13, <2>1 DEF Main, MainIdle, MainMove, MainWait, MainAbort, MainHalt, MainUnhalt, MainJog,
       PlanBlock, Call, Goto
  <2> QED BY <2>1, <2>2, QueueingValues, Bottom DEF JogInv, MoveLabels, IdleLabels, OnTop
<1> QED BY <1>1, <1>2, <1>3, <1>4, <1>6, <1>7, <1>8, <1>9, <1>10, <1>11, <1>12, <1>13
        DEF Next, Thread, Jog, Interrupt

\* What the steps of the thread that neither load nor store a byte of flags leave alone.
LEMMA ThreadEffects ==
  ASSUME IInv, Frames, Writes, Loading, Thread, ~LoadFlags, ~StoreFlags
  PROVE  /\ ops = <<>> /\ reg = <<>> /\ reg' = <<>> /\ flags' = flags
         /\ UNCHANGED <<current_block, isr_tail_i>>
         /\ Halt \/ Unhalt \/ halted' = halted
         /\ IdleHalt \/ limit' = limit
         /\ pc = "halt" => Halt
         /\ pc' = "unhalt" => IdleUnhalt \/ MainUnhalt
<1>1. ops = <<>>
  BY DEF Thread,
   Idle, IdleCheck, IdleCollect, IdleEnd, IdleHalt, IdleUnhalt,
   OnHalt, Halt, HaltMotors, Unhalt, SyncPosition,
   AppendBlock, ForwardPass, ForwardStore, Trapezoid, Lock, LockStore, Prepare,
   Ready, QueueWait, QueueRefuse, QueueRoom, ProduceHead, QueueCheck,
   Wait, WaitStart, WaitQueue, WaitMotors,
   Jog, JogHold, JogMove, JogRefused, JogMode, JogForce, Jogging, JogHalted, JogStopped, JogEnd,
   JogFree, Main, MainIdle, MainMove, MainWait, MainAbort, MainHalt, MainUnhalt, MainJog, At
<1>2. reg = <<>>
  BY <1>1 DEF Loading
<1>3. UNCHANGED <<flags, reg, current_block, isr_tail_i>>
  BY DEF Thread,
   Idle, IdleCheck, IdleCollect, IdleEnd, IdleHalt, IdleUnhalt,
   OnHalt, Halt, HaltMotors, Unhalt, SyncPosition,
   AppendBlock, ForwardPass, ForwardStore, Trapezoid, Lock, LockStore, Prepare, TrapezoidKeeps,
   Ready, QueueWait, QueueRefuse, QueueRoom, ProduceHead, QueueCheck,
   Wait, WaitStart, WaitQueue, WaitMotors,
   Jog, JogHold, JogMove, JogRefused, JogMode, JogForce, Jogging, JogHalted, JogStopped, JogEnd,
   JogFree, Main, MainIdle, MainMove, MainWait, MainAbort, MainHalt, MainUnhalt, MainJog,
   PlanBlock, JogKeeps, ThreadKeeps
<1>4. /\ Halt \/ Unhalt \/ halted' = halted
      /\ IdleHalt \/ limit' = limit
  BY DEF Thread,
   Idle, IdleCheck, IdleCollect, IdleEnd, IdleHalt, IdleUnhalt,
   OnHalt, Halt, HaltMotors, Unhalt, SyncPosition,
   AppendBlock, ForwardPass, ForwardStore, Trapezoid, Lock, LockStore, Prepare, TrapezoidKeeps,
   Ready, QueueWait, QueueRefuse, QueueRoom, ProduceHead, QueueCheck,
   Wait, WaitStart, WaitQueue, WaitMotors,
   Jog, JogHold, JogMove, JogRefused, JogMode, JogForce, Jogging, JogHalted, JogStopped, JogEnd,
   JogFree, Main, MainIdle, MainMove, MainWait, MainAbort, MainHalt, MainUnhalt, MainJog,
   PlanBlock, JogKeeps, MotionKept
<1>5. pc = "halt" => Halt
  <2>1. "halt" \notin DOMAIN JogNext
    BY DEF JogNext
  <2> QED BY <2>1 DEF Thread,
   Idle, IdleCheck, IdleCollect, IdleEnd, IdleHalt, IdleUnhalt,
   OnHalt, HaltMotors, Unhalt, SyncPosition,
   AppendBlock, ForwardPass, ForwardStore, Trapezoid, Lock, LockStore, Prepare,
   Ready, QueueWait, QueueRefuse, QueueRoom, ProduceHead, QueueCheck,
   Wait, WaitStart, WaitQueue, WaitMotors,
   Jog, JogHold, JogMove, JogRefused, JogMode, JogForce, Jogging, JogHalted, JogStopped, JogEnd,
   JogFree, Main, MainIdle, MainMove, MainWait, MainAbort, MainHalt, MainUnhalt, MainJog, At
<1>6. pc' = "unhalt" => IdleUnhalt \/ MainUnhalt
  <2> DEFINE PlanBlocking == \E mv \in MoveSet : PlanBlock(mv)
  <2>1. \A l \in DOMAIN JogNext : JogNext[l] # "unhalt"
    BY DEF JogNext
  <2>2. IdleEnd \/ HaltMotors \/ SyncPosition => pc' # "unhalt"
    <3>1. IdleEnd \/ HaltMotors \/ SyncPosition => IdleStack(stack) /\ Return
      BY DEF IdleEnd, HaltMotors, SyncPosition, At, Frames, IdleLabels
    <3> QED BY <3>1, Bottom DEF IdleStack, Return
  <2>3. QueueRefuse \/ QueueCheck => pc' # "unhalt"
    <3>1. QueueRefuse \/ QueueCheck => PlanStack(stack) /\ Return
      BY DEF QueueRefuse, QueueCheck, At, Frames, MoveLabels
    <3> QED BY <3>1, Bottom DEF PlanStack, Return
  <2>4. WaitMotors => pc' # "unhalt"
    <3>1. WaitMotors => WaitStack(stack) /\ (Return \/ pc' = "idle")
      BY DEF WaitMotors, At, Frames, WaitLabels, Call
    <3> QED BY <3>1, Bottom DEF WaitStack, Return
  <2>5. JogMode => pc' # "unhalt"
    <3>1. JogMode => stack = <<"loop">> /\ (Return \/ pc' = "jogForce")
      BY DEF JogMode, At, Frames, JogLabels, Goto
    <3> QED BY <3>1, Bottom DEF Return
  <2>6. Idle \/ OnHalt => pc' # "unhalt" \/ IdleUnhalt
    <3>1. IdleCheck \/ IdleCollect \/ IdleHalt => pc' # "unhalt"
      BY DEF IdleCheck, IdleCollect, IdleHalt, Goto
    <3>2. Halt \/ Unhalt => pc' # "unhalt"
      BY DEF Halt, Unhalt, Goto
    <3> QED BY <2>2, <3>1, <3>2 DEF Idle, OnHalt
  <2>7. AppendBlock \/ Wait => pc' # "unhalt"
    BY <2>3, <2>4 DEF AppendBlock, ForwardPass, ForwardStore, Trapezoid, Lock, LockStore, Prepare,
       NextTrapezoid, Ready, QueueWait, QueueRoom, ProduceHead, Wait, WaitStart, WaitQueue,
       Goto, Call
  <2>8. PlanBlocking => pc' # "unhalt"
    BY DEF PlanBlocking, PlanBlock
  <2>9. Jog => pc' # "unhalt"
    BY <2>1, <2>5, <2>8 DEF Jog, JogHold, JogMove, JogRefused, JogForce, Jogging, JogHalted,
       JogStopped, JogEnd, JogFree, Goto, Call, PlanBlocking
  <2>10. Main => pc' # "unhalt" \/ MainUnhalt
    BY <1>1, <2>8 DEF Main, MainIdle, MainMove, MainWait, MainAbort, MainHalt, MainJog,
       Goto, Call, PlanBlocking, At
  <2> QED BY <2>6, <2>7, <2>9, <2>10 DEF Thread
<1> QED BY <1>1, <1>2, <1>3, <1>4, <1>5, <1>6

\* Nothing but TIMER0 makes the block at the interrupt's tail tick.
LEMMA OnlyTickTakes ==
  ASSUME ThreadInv, BlockInv, Next, ~Tick, isr_tail_i' # head_i', ring'[isr_tail_i'].taken
  PROVE  /\ isr_tail_i # head_i /\ ring[isr_tail_i].taken
         /\ isr_tail_i' = isr_tail_i /\ current_block' = current_block
<1> USE DEF ThreadInv, BlockInv
<1>1. ring[isr_tail_i].taken => isr_tail_i # head_i
  BY Types, Queue DEF TickingInv, TicksAt, IsrState
<1>2. isr_tail_i' = isr_tail_i /\ current_block' = current_block
  BY StepKinds, WalkBlocks, ReadyBlocks, RefuseBlocks, ProduceBlocks, CollectBlocks, PlanBlocks
  DEF Plan, Quiet, ringVars
<1>3. ring[isr_tail_i].taken
  <2>1. CASE Walk
    BY <1>2, <2>1, WalkBlocks, Types
  <2>2. CASE Ready
    BY <1>2, <2>2, ReadyBlocks, Types
  <2>3. CASE QueueRefuse
    BY <1>2, <2>3, RefuseBlocks, Types, ClearedBlock
  <2>4. CASE ProduceHead
    BY <1>2, <2>4, ProduceBlocks
  <2>5. CASE IdleCollect
    BY <1>2, <2>5, CollectBlocks, Types, ClearedBlock
  <2>6. CASE \E mv \in MoveSet : Plan(mv)
    BY <1>2, <2>6, PlanBlocks, Types DEF Plan
  <2>7. CASE Quiet
    BY <2>7 DEF Quiet, ringVars
  <2> QED BY <2>1, <2>2, <2>3, <2>4, <2>5, <2>6, <2>7, StepKinds
<1> QED BY <1>1, <1>2, <1>3

\* A halt half way through a block: the flush is on its way until it is done.
LEMMA DoomStep ==
  ASSUME ThreadInv, BlockInv, Next
  PROVE  DoomInv'
<1> USE DEF ThreadInv, BlockInv
<1>1. CASE Tick
  <2>1. /\ UNCHANGED <<head_i, halted, pc, ops, reg, limit>>
        /\ flags'["hold_queue"] = flags["hold_queue"]
    BY <1>1, TickFrame DEF KeptFlags, Tick, threadVars, shellVars
  <2>2. current_block # NoBlock =>
          ring[isr_tail_i].taken /\ isr_tail_i # head_i /\ current_block = isr_tail_i
    BY Types DEF TickingInv, RunsTicking, IsrState
  <2>3. isr_tail_i # NoBlock
    BY Types DEF Index, NoBlock
  <2>4. Doomed' => Doomed /\ flags'["flush"] = flags["flush"]
    BY <1>1, <2>1, <2>2, <2>3, TickOutcomes
    DEF Doomed, IsrState, Stays, Flushes, Halts, Begins, Retires, SameFlush
  <2>5. halted /\ current_block = NoBlock => current_block' = NoBlock
    BY <1>1, TickOutcomes DEF IsrState, Stays, Flushes, Halts, Begins, Retires
  <2> QED BY <2>1, <2>4, <2>5 DEF DoomInv, Flushing
<1>2. CASE LimitHit
  <2>1. flags["hold_queue"] # 1
    BY <1>2 DEF LimitHit, HoldInv, Holding
  <2>2. flags'["hold_queue"] = flags["hold_queue"] /\ flags'["flush"] = 1
    BY <1>2 DEF LimitHit, IInv, TypeOK, FlagsType, Byte, Flag
  <2>3. halted' /\ limit'.halt /\ UNCHANGED <<ringVars, current_block, pc>>
    BY <1>2 DEF LimitHit, threadVars
  <2> QED BY <2>1, <2>2, <2>3 DEF DoomInv, Flushing, Doomed, ringVars
<1>3. CASE LimitClear \/ TimePasses \/ StopRequest
  <2>1. UNCHANGED <<flags, halted, ringVars, current_block, pc, ops, reg>>
    BY <1>3 DEF LimitClear, TimePasses, StopRequest, threadVars, motorVars
  <2>2. limit'.halt = limit.halt
    BY <1>3 DEF LimitClear, TimePasses, StopRequest, shellVars, IInv, TypeOK, ShellType
  <2> QED BY <2>1, <2>2 DEF DoomInv, Flushing, Doomed, ringVars
<1>4. CASE LoadFlags
  <2>1. UNCHANGED <<flags, halted, ringVars, current_block, pc, ops, limit>>
        /\ Head(reg') = flags /\ ops # <<>>
    <3>1. reg' = <<flags>>
      BY <1>4 DEF LoadFlags
    <3>2. Head(<<flags>>) = flags
      OBVIOUS
    <3> QED BY <1>4, <3>1, <3>2 DEF LoadFlags, motorVars, shellVars
  <2>2. pc # "halt"
    BY <2>1 DEF Writes
  <2> QED BY <2>1, <2>2 DEF DoomInv, Flushing, Doomed, ringVars
<1>5. CASE StoreFlags
  <2>1. /\ UNCHANGED <<ringVars, halted, current_block, pc, limit>>
        /\ reg # <<>> /\ reg' = <<>> /\ ops # <<>>
    BY <1>5, StoreCases DEF motorVars
  <2>2. Doomed' <=> Doomed
    BY <2>1 DEF Doomed, ringVars
  <2>3. Doomed => flags'["flush"] = 1 \/ Flushing'
    <3>1. CASE Head(ops) = F1
      BY <1>5, <3>1, StoreCases
    <3>2. CASE limit.halt
      BY <2>1, <3>2 DEF Flushing
    <3>3. CASE Head(ops) # F1 /\ Head(reg)["flush"] = 1
      BY <1>5, <3>3, StoreCases
    <3>4. CASE Head(ops) # F1 /\ pc \in {"stop", "stopSync"} /\ ops \in HaltsFlushing
      <4>1. Head(ops) \in {A0, F1} /\ A0 \notin {H0, C0}
        <5>1. A0 \notin {H0, C0}
          BY DEF A0, H0, C0, Set
        <5> HIDE DEF A0, F1, H0, C0
        <5> QED BY <3>4, <5>1, Pop DEF HaltsFlushing
      <4>2. ops' \in HaltsFlushing
        BY <1>5, <3>4, <4>1, StoreCases
      <4> QED BY <2>1, <3>4, <4>2 DEF Flushing
    <3> QED BY <2>1, <3>1, <3>2, <3>3, <3>4 DEF DoomInv, Flushing
  <2>4. flags'["hold_queue"] = 1 => ~Doomed
    <3>1. Head(ops) = H1 => ~Doomed
      <4>1. Head(ops) = H1 => Empty
        BY <1>5, <2>1, StoreCases DEF HoldInv
      <4> QED BY <4>1, EmptyIsDone DEF Doomed
    <3>2. Head(ops) # H1 => flags'["hold_queue"] \in {0, flags["hold_queue"]}
      BY <1>5, <2>1, StoreCases DEF HoldInv
    <3> QED BY <3>1, <3>2 DEF DoomInv
  <2> QED BY <2>1, <2>2, <2>3, <2>4 DEF DoomInv
<1>6. CASE Thread /\ ~Tick /\ ~LoadFlags /\ ~StoreFlags
  <2>1. /\ ops = <<>> /\ reg = <<>> /\ reg' = <<>> /\ flags' = flags
        /\ UNCHANGED <<current_block, isr_tail_i>>
        /\ Halt \/ Unhalt \/ halted' = halted
        /\ IdleHalt \/ limit' = limit
        /\ pc = "halt" => Halt
        /\ pc' = "unhalt" => IdleUnhalt \/ MainUnhalt
    BY <1>6, ThreadEffects
  <2>2. ~Flushing \/ limit.halt
    BY <2>1, Pop DEF Flushing, HaltsFlushing
  <2>3. Doomed' => Doomed \/ (~halted /\ halted' /\ current_block # NoBlock)
    BY <1>6, OnlyTickTakes DEF Doomed, IInv, TypeOK, ShellType
  <2>4. CASE Halt
    <3>1. halted' /\ pc' \in {"stop", "stopSync"} /\ ops' = <<A0, F1, H0, C0>>
      BY <2>4 DEF Halt, Goto, Write, A0, F1, H0, C0
    <3>2. Flushing'
      BY <3>1 DEF Flushing, HaltsFlushing
    <3>3. flags["hold_queue"] = 1 => current_block = NoBlock
      BY DEF HoldInv, Holding
    <3> QED BY <2>1, <2>3, <3>1, <3>2, <3>3 DEF DoomInv
  <2>5. CASE Unhalt
    <3>1. ~halted' /\ pc = "unhalt" /\ pc' = "sync"
      BY <2>5 DEF Unhalt, At, Goto
    <3>2. ~Doomed'
      BY <2>3, <3>1 DEF DoomInv
    <3> QED BY <3>1, <3>2 DEF DoomInv
  <2>6. CASE ~Halt /\ ~Unhalt
    <3>1. halted' = halted /\ pc # "halt"
      BY <2>1, <2>6
    <3>2. Doomed' => Doomed
      BY <2>3, <3>1
    <3>3. Doomed => flags["flush"] = 1 \/ limit.halt
      BY <2>2, <3>1 DEF DoomInv
    <3>4. limit.halt => limit'.halt \/ pc' = "halt"
      BY <2>1 DEF IdleHalt, Goto
    <3>5. pc' = "unhalt" => halted /\ current_block = NoBlock /\ ~Doomed
      <4>1. pc' = "unhalt" => ~limit.halt /\ halted /\ TickerSettled
        BY <2>1 DEF IdleUnhalt, MainUnhalt
      <4> QED BY <3>3, <4>1 DEF DoomInv, JogInv, TickerSettled
    <3> QED BY <2>1, <3>1, <3>2, <3>3, <3>4, <3>5 DEF DoomInv, Flushing
  <2> QED BY <2>4, <2>5, <2>6
<1> QED BY <1>1, <1>2, <1>3, <1>4, <1>5, <1>6 DEF Next, Interrupt
-----------------------------------------------------------------------------
(* The invariant, and what it gives.                                         *)

\* At first every block is cleared and nothing is under way.
LEMMA InitBlocks == Init => BlockInv
<1> SUFFICES ASSUME Init PROVE BlockInv
  OBVIOUS
<1>1. IInv /\ Span(tail_i, head_i) = {} /\ Span(isr_tail_i, head_i) = {}
  BY InitSafe, SpanEnds DEF Init, IInv, TypeOK, RingType
<1>2. /\ \A i \in Index : ring[i] = Cleared
      /\ pc = "loop" /\ stack = <<>> /\ ops = <<>> /\ reg = <<>> /\ word = NoWord
      /\ current_block = NoBlock /\ head_i = 0 /\ isr_tail_i = 0
  BY DEF Init
<1>3. flags["continuous_mode"] = 0 /\ flags["hold_queue"] = 0
  BY DEF Init, Flag
<1>4. ~HeadReady /\ ~JogRunning /\ ~Planning /\ ~Prepared
  BY <1>2 DEF HeadReady, OnTop, JogRunning, Planning, Prepared, WalkLabels
<1>5. WordInv /\ TickingInv /\ IdInv
  BY <1>1, <1>2, <1>4, Types, ClearedBlock
  DEF WordInv, TickingInv, RunsTicking, TicksAt, IsrState, IdInv, NoWord, Untorn
<1>6. StepsInv /\ ContInv /\ JogInv
  BY <1>1, <1>2, <1>3, <1>4 DEF StepsInv, StepsAt, IsrState, ContInv, JogInv
<1>7. DoomInv
  BY <1>2, <1>3 DEF DoomInv, Doomed
<1> QED BY <1>5, <1>6, <1>7 DEF BlockInv

\* The parts of BlockInv support one another: continuous mode says which blocks can be
\* repeated, a hold which are queued, a halt which have been begun.
THEOREM BlockInvariant == Spec => [](ThreadInv /\ BlockInv)
<1>1. ThreadInv /\ BlockInv /\ [Next]_vars => BlockInv'
  <2> SUFFICES ASSUME ThreadInv, BlockInv, [Next]_vars PROVE BlockInv'
    OBVIOUS
  <2>1. CASE Next
    BY <2>1, WordStep, TickingStep, IdStep, StepsStep, ContStep, JogStep, DoomStep DEF BlockInv
  <2>2. CASE UNCHANGED vars
    <3>1. UNCHANGED <<head_i, tail_i, isr_tail_i, ring, flags, halted, current_block, moving, owed,
                      pc, stack, ops, reg, ti, word, nextId, saved, limit>>
      BY <2>2 DEF vars, ringVars, motorVars, threadVars, shellVars
    <3>2. WordInv' /\ IdInv'
      BY <3>1 DEF BlockInv, WordInv, Untorn, IdInv, Planning, HeadReady, OnTop
    <3>3. TickingInv' /\ StepsInv'
      BY <3>1 DEF BlockInv, TickingInv, RunsTicking, TicksAt, IsrState, StepsInv, StepsAt,
         Planning, Prepared, HeadReady, OnTop
    <3>4. ContInv' /\ JogInv'
      <4>1. ContInv'
        BY <3>1 DEF BlockInv, ContInv, JogRunning, OnTop
      <4>2. JogInv'
        BY <3>1 DEF BlockInv, JogInv, JogRunning, HeldWith, Empty, OnTop
      <4> QED BY <4>1, <4>2
    <3>5. DoomInv'
      BY <3>1 DEF BlockInv, DoomInv, Doomed, Flushing
    <3> QED BY <3>2, <3>3, <3>4, <3>5 DEF BlockInv
  <2> QED BY <2>1, <2>2
<1> QED BY <1>1, InitBlocks, ThreadInvariant, PTL DEF Spec

\* calculate_trapezoid rewrites no block that is being stepped, except one that the ticker
\* took between the test of is_ticking and the store of locked.
THEOREM TickingIsUntouched == Spec => UntornUntouched
<1> DEFINE Untouched == \A i \in Index :
      current_block = i /\ Untorn(i) /\ pc = "prepare" /\ pc' # pc => ring'[i] = ring[i]
<1>1. ThreadInv /\ BlockInv /\ [Next]_vars => [Untouched]_vars
  <2> SUFFICES ASSUME ThreadInv, BlockInv, Next, NEW i \in Index,
                      current_block = i, Untorn(i), pc = "prepare", pc' # pc
               PROVE  ring'[i] = ring[i]
    OBVIOUS
  <2> USE DEF ThreadInv, BlockInv
  <2>1. ring[i].taken /\ (Untorn(ti) => ~ring[ti].taken)
    BY DEF WordInv, TickingInv, RunsTicking, IsrState, Index, NoBlock
  <2>2. CASE Walk
    <3>1. Prepare
      BY <2>2 DEF Walk, ForwardPass, ForwardStore, Trapezoid, Lock, LockStore, At
    <3> QED BY <2>1, <3>1, Types DEF Prepare
  <2>3. ~Tick /\ ~Ready /\ ~QueueRefuse /\ ~ProduceHead /\ ~IdleCollect
        /\ ~(\E mv \in MoveSet : Plan(mv)) /\ ~Quiet
    BY DEF Tick, threadVars, Ready, QueueRefuse, ProduceHead, IdleCollect, At, Plan, Quiet,
       WalkLabels
  <2> QED BY <2>2, <2>3, StepKinds
<1> QED BY <1>1, BlockInvariant, PTL DEF Spec, UntornUntouched
-----------------------------------------------------------------------------
(* The refinement: every step is a step of MoveQueue, or changes nothing there. *)

\* The k-th index from a on, as IdAt counts.
Nth(a, k) == LET i == a + k - 1 IN IF i < Length THEN i ELSE i - Length

\* The indices the queue occupies, counted from the interrupt's tail.
LEMMA NthType ==
  ASSUME NEW a \in Index, NEW b \in Index
  PROVE  /\ Dist(a, b) \in Nat
         /\ \A k \in 1 .. Dist(a, b) : Nth(a, k) \in Span(a, b) /\ Nth(a, k) \in Index
         /\ Nth(a, 1) = a /\ Nth(a, Dist(a, b) + 1) = b
         /\ \A k \in 1 .. Dist(a, b) - 1 : Nth(NextIndex(a), k) = Nth(a, k + 1)
         /\ a # b => Dist(NextIndex(a), b) = Dist(a, b) - 1
         /\ a # NextIndex(b) => Dist(a, NextIndex(b)) = Dist(a, b) + 1
         /\ Dist(a, b) = 0 <=> a = b
BY LengthAssumption DEF Index, Dist, Span, Nth, NextIndex

\* The k-th block of the interrupt's part of the queue.
LEMMA IdOfNth == \A k : IdAt(k) = ring[Nth(isr_tail_i, k)].id
BY Zenon DEF IdAt, Nth

\* The same after a step.
LEMMA IdOfNthNext == \A k : IdAt(k)' = ring'[Nth(isr_tail_i', k)].id
BY Zenon DEF IdAt, Nth

\* The queue of MoveQueue, read off the ring.
LEMMA QueueOfRing ==
  ASSUME IInv
  PROVE  LET n == Dist(isr_tail_i, head_i) IN
         /\ Abandoned \/ isr_tail_i = head_i => QueueIds = <<>>
         /\ ~Abandoned => QueueIds = [k \in 1 .. n |-> ring[Nth(isr_tail_i, k)].id]
         /\ QueueIds \in Seq(Nat)
         /\ ~Abandoned /\ isr_tail_i # head_i =>
              QueueIds # <<>> /\ Head(QueueIds) = ring[isr_tail_i].id
<1> DEFINE n == Dist(isr_tail_i, head_i)
           q == [k \in 1 .. n |-> ring[Nth(isr_tail_i, k)].id]
<1>1. \A k \in 1 .. n : IdAt(k) = ring[Nth(isr_tail_i, k)].id
  BY IdOfNth
<1>2. QueueIds = IF Abandoned THEN <<>> ELSE q
  BY <1>1 DEF QueueIds
<1>3. /\ n \in Nat /\ \A k \in 1 .. n : Nth(isr_tail_i, k) \in Index
      /\ n = 0 <=> isr_tail_i = head_i
      /\ Nth(isr_tail_i, 1) = isr_tail_i
  BY Types, NthType
<1> HIDE DEF n
<1>4. \A k \in 1 .. n : ring[Nth(isr_tail_i, k)].id \in Nat
  BY <1>3, Types DEF Block
<1>5. q \in Seq(Nat) /\ Len(q) = n
  BY <1>3, <1>4
<1>6. isr_tail_i = head_i => q = <<>>
  BY <1>3, <1>5, EmptySeq
<1>7. isr_tail_i # head_i => q # <<>> /\ Head(q) = ring[isr_tail_i].id
  BY <1>3, <1>5, EmptySeq
<1> QED BY <1>2, <1>5, <1>6, <1>7 DEF n

\* What is queued stays queued while its blocks keep their names.
LEMMA QueueStays ==
  ASSUME IInv, IInv', UNCHANGED <<isr_tail_i, head_i>>, Abandoned' <=> Abandoned,
         \A i \in Span(isr_tail_i, head_i) : ring'[i].id = ring[i].id
  PROVE  QueueIds' = QueueIds
<1> DEFINE n == Dist(isr_tail_i, head_i)
<1>1. \A k \in 1 .. n : Nth(isr_tail_i, k) \in Span(isr_tail_i, head_i)
  BY Types, NthType
<1>2. \A k \in 1 .. n : IdAt(k)' = IdAt(k)
  BY <1>1, IdOfNth, IdOfNthNext
<1> QED BY <1>2 DEF QueueIds

\* A retirement takes the first block off the queue.
LEMMA QueueRetires ==
  ASSUME IInv, IInv', ~Abandoned, ~Abandoned', isr_tail_i # head_i, head_i' = head_i,
         isr_tail_i' = NextIndex(isr_tail_i), \A i \in Index : ring'[i].id = ring[i].id
  PROVE  QueueIds' = Tail(QueueIds)
<1> DEFINE n == Dist(isr_tail_i, head_i)
           q == [k \in 1 .. n |-> ring[Nth(isr_tail_i, k)].id]
           r == [k \in 1 .. n - 1 |-> ring'[Nth(isr_tail_i', k)].id]
<1>1. /\ n \in Nat /\ n > 0 /\ Dist(isr_tail_i', head_i) = n - 1
      /\ \A k \in 1 .. n : Nth(isr_tail_i, k) \in Index
      /\ \A k \in 1 .. n - 1 : Nth(isr_tail_i', k) = Nth(isr_tail_i, k + 1)
  <2>1. isr_tail_i \in Index /\ head_i \in Index
    BY Types
  <2>2. /\ n \in Nat /\ n # 0 /\ Dist(NextIndex(isr_tail_i), head_i) = n - 1
        /\ \A k \in 1 .. n : Nth(isr_tail_i, k) \in Index
        /\ \A k \in 1 .. n - 1 : Nth(NextIndex(isr_tail_i), k) = Nth(isr_tail_i, k + 1)
    BY <2>1, NthType
  <2> HIDE DEF n
  <2> QED BY <2>2
<1>2. QueueIds = q /\ QueueIds \in Seq(Nat)
  BY QueueOfRing
<1>3. QueueIds' = r /\ QueueIds' \in Seq(Nat)
  <2>1. IdAt(0)' = IdAt(0)'
    OBVIOUS
  <2>2. QueueIds' = [k \in 1 .. Dist(isr_tail_i', head_i') |-> IdAt(k)']
    BY DEF QueueIds
  <2>3. \A k \in 1 .. n - 1 : IdAt(k)' = ring'[Nth(isr_tail_i', k)].id
    BY IdOfNthNext
  <2>4. QueueIds' = r
    BY <1>1, <2>2, <2>3
  <2>5. \A k \in 1 .. n - 1 : ring'[Nth(isr_tail_i', k)].id \in Nat
    <3>1. \A i \in Index : ring[i].id \in Nat
      BY Types DEF Block
    <3> HIDE DEF n
    <3> QED BY <1>1, <3>1
  <2> HIDE DEF n
  <2>6. r \in Seq(Nat)
    BY <1>1, <2>5
  <2> QED BY <2>4, <2>6
<1> HIDE DEF n
<1>4. /\ Len(q) = n /\ Len(r) = n - 1 /\ q \in Seq(Nat) /\ q # <<>>
      /\ \A k \in 1 .. n - 1 : r[k] = q[k + 1]
  <2>1. Len(q) = n /\ q \in Seq(Nat) /\ q # <<>>
    BY <1>1, <1>2, EmptySeq
  <2>2. Len(r) = n - 1
    BY <1>1, <1>3
  <2>3. \A k \in 1 .. n - 1 : r[k] = q[k + 1]
    BY <1>1
  <2> QED BY <2>1, <2>2, <2>3
<1> HIDE DEF q, r
<1>5. Tail(q) \in Seq(Nat) /\ Len(Tail(q)) = n - 1 /\ \A k \in 1 .. n - 1 : Tail(q)[k] = q[k + 1]
  BY <1>1, <1>4
<1>6. r \in Seq(Nat)
  BY <1>3
<1>7. r = Tail(q)
  BY <1>4, <1>5, <1>6, SeqEqual
<1> QED BY <1>2, <1>3, <1>7

\* queue_head_block puts the planned block behind the others.
LEMMA QueueGrows ==
  ASSUME IInv, IInv', ~Abandoned, ~Abandoned', isr_tail_i' = isr_tail_i, ring' = ring,
         head_i' = NextIndex(head_i), isr_tail_i # NextIndex(head_i)
  PROVE  QueueIds' = Append(QueueIds, ring[head_i].id)
<1> DEFINE n == Dist(isr_tail_i, head_i)
           q == [k \in 1 .. n |-> ring[Nth(isr_tail_i, k)].id]
           r == [k \in 1 .. n + 1 |-> ring[Nth(isr_tail_i, k)].id]
           a == Append(q, ring[head_i].id)
<1>1. /\ n \in Nat /\ Dist(isr_tail_i, head_i') = n + 1
      /\ \A k \in 1 .. n : Nth(isr_tail_i, k) \in Index
      /\ Nth(isr_tail_i, n + 1) = head_i
  BY Types, NthType
<1>2. QueueIds = q /\ q \in Seq(Nat) /\ ring[head_i].id \in Nat
  BY QueueOfRing, Types DEF Block
<1>3. QueueIds' = r
  <2>1. QueueIds' = [k \in 1 .. Dist(isr_tail_i', head_i') |-> IdAt(k)']
    BY DEF QueueIds
  <2>2. \A k \in 1 .. n + 1 : IdAt(k)' = ring[Nth(isr_tail_i, k)].id
    BY IdOfNthNext
  <2> QED BY <1>1, <2>1, <2>2
<1> HIDE DEF n
<1>4. \A k \in 1 .. n + 1 : Nth(isr_tail_i, k) \in Index
  BY <1>1, Types
<1>5. \A k \in 1 .. n + 1 : ring[Nth(isr_tail_i, k)].id \in Nat
  BY <1>4, Types DEF Block
<1>6. r \in Seq(Nat) /\ Len(r) = n + 1
  BY <1>1, <1>5
<1>7. Len(q) = n
  BY <1>1, <1>2
<1>8. a \in Seq(Nat) /\ Len(a) = n + 1 /\ a[n + 1] = ring[head_i].id
      /\ \A k \in 1 .. n : a[k] = q[k]
  <2> HIDE DEF q
  <2> QED BY <1>1, <1>2, <1>7
<1>9. r[n + 1] = ring[head_i].id /\ \A k \in 1 .. n : r[k] = q[k]
  BY <1>1
<1> HIDE DEF q, r, a
<1>10. \A k \in 1 .. n + 1 : r[k] = a[k]
  BY <1>1, <1>8, <1>9
<1>11. r = a
  BY <1>6, <1>8, <1>10, SeqEqual
<1> QED BY <1>2, <1>3, <1>11 DEF a

\* The other parts of the mapping.
Pending == ring[head_i].id
RunningId == IF current_block = NoBlock THEN 0 ELSE ring[current_block].id
Dropping == halted \/ flags["flush"] = 1

\* A step that changes at most whether a halt or a flush is asked for.
LEMMA Requests ==
  ASSUME IInv', UNCHANGED <<nextId, Pending, QueueIds, RunningId>>
  PROVE  Promise!Next
<1>1. Dropping' \in BOOLEAN
  BY DEF IInv, TypeOK, ShellType, Dropping
<1>2. Promise!Request
  BY <1>1 DEF Promise!Request, Pending, RunningId, Dropping
<1> QED BY <1>2 DEF Promise!Next

\* A step that leaves the queued blocks, the planned one and their names alone.
LEMMA QueueUntouched ==
  ASSUME IInv, IInv', UNCHANGED <<nextId, head_i, isr_tail_i, current_block>>,
         \A i \in Span(isr_tail_i, head_i) \cup {head_i} : ring'[i].id = ring[i].id,
         Abandoned' <=> Abandoned
  PROVE  Promise!Next
<1>1. QueueIds' = QueueIds
  BY QueueStays
<1>2. Pending' = Pending
  BY DEF Pending
<1>3. RunningId' = RunningId
  <2>1. current_block # NoBlock => current_block \in Span(isr_tail_i, head_i)
    BY Types, Queue
  <2> QED BY <2>1 DEF RunningId
<1> QED BY <1>1, <1>2, <1>3, Requests

\* A planned block has a name.
LEMMA PlannedHasName ==
  ASSUME IInv, IdInv
  PROVE  /\ Planning => Pending = nextId - 1 /\ Pending # 0
         /\ ~Planning => Pending = 0
BY Types, Queue DEF IdInv, Pending, IInv, TypeOK, ShellType

\* The block at the interrupt's tail is the first of the queue.
FirstQueued ==
  ~Abandoned /\ isr_tail_i # head_i => QueueIds # <<>> /\ Head(QueueIds) = ring[isr_tail_i].id

\* And it is so after a step.
LEMMA QueueOfRingNext == IInv' => FirstQueued'
<1>1. IInv => FirstQueued
  BY QueueOfRing DEF FirstQueued
<1> QED BY <1>1, PTL

\* TIMER0 starts the first block, or retires it, or drops the whole queue.
LEMMA TickImplements ==
  ASSUME ThreadInv, ThreadInv', BlockInv, Tick
  PROVE  Promise!Next
<1> USE DEF ThreadInv, BlockInv
<1>1. /\ UNCHANGED <<head_i, tail_i, halted, nextId>>
      /\ \A i \in Index : ring'[i].id = ring[i].id
  BY TickFrame DEF Tick
<1>2. Pending' = Pending
  BY <1>1, Types DEF Pending
<1>3. /\ current_block # NoBlock =>
           ring[isr_tail_i].taken /\ isr_tail_i # head_i /\ current_block = isr_tail_i
      /\ isr_tail_i # NoBlock
  BY Types DEF TickingInv, RunsTicking, IsrState, Index, NoBlock
<1>4. ~halted => ~Abandoned
  BY DEF Abandoned, DoomInv, Doomed
<1>5. /\ current_block' # NoBlock => current_block' = isr_tail_i' /\ isr_tail_i' # head_i'
      /\ Dropping' \in BOOLEAN
  BY DEF IInv, RunningBlockOwned, TypeOK, ShellType, Dropping
<1>6. CASE Stays(IsrState, IsrState')
  <2>1. UNCHANGED <<isr_tail_i, current_block>> /\ (current_block = NoBlock => ring' = ring)
    BY <1>6 DEF Stays, IsrState
  <2>2. Abandoned' <=> Abandoned
    BY <1>1, <2>1 DEF Abandoned
  <2>3. Span(isr_tail_i, head_i) \cup {head_i} \subseteq Index
    BY Types, Queue
  <2> QED BY <1>1, <2>1, <2>2, <2>3, QueueUntouched
<1>7. CASE Flushes(IsrState, IsrState') \/ Halts(IsrState, IsrState')
  <2>1. Dropping /\ current_block' = NoBlock
    BY <1>7 DEF Flushes, Halts, IsrState, Dropping
  <2>2. isr_tail_i' = head_i' \/ Abandoned'
    <3>1. CASE Flushes(IsrState, IsrState')
      BY <1>1, <3>1 DEF Flushes, IsrState
    <3>2. CASE Halts(IsrState, IsrState')
      <4>1. isr_tail_i' = isr_tail_i /\ current_block # NoBlock
        BY <3>2 DEF Halts, IsrState
      <4>2. ring'[isr_tail_i].taken
        BY <1>3, <4>1, TickOutcomes, Types DEF Ran, IsrState
      <4> QED BY <1>1, <1>3, <2>1, <4>1, <4>2 DEF Abandoned
    <3> QED BY <1>7, <3>1, <3>2
  <2>3. QueueIds' = <<>>
    <3>1. CASE Abandoned'
      BY <3>1 DEF QueueIds
    <3>2. CASE isr_tail_i' = head_i' /\ ~Abandoned'
      <4>1. Dist(isr_tail_i', head_i') = 0
        BY <3>2, Types, <1>1, NthType
      <4>2. QueueIds' = [k \in 1 .. 0 |-> IdAt(k)']
        BY <3>2, <4>1 DEF QueueIds
      <4> QED BY <4>2
    <3> QED BY <2>2, <3>1, <3>2
  <2>4. Promise!Drop
    BY <1>1, <1>2, <1>5, <2>1, <2>3 DEF Promise!Drop, Pending, Dropping
  <2> QED BY <2>4 DEF Promise!Next
<1>8. CASE Begins(IsrState, IsrState')
  <2>1. /\ ~halted /\ current_block = NoBlock /\ isr_tail_i # head_i
        /\ isr_tail_i' = isr_tail_i /\ current_block' = isr_tail_i
        /\ flags'["flush"] = flags["flush"]
    BY <1>8 DEF Begins, SameFlush, IsrState
  <2>2. ~Abandoned /\ ~Abandoned'
    BY <1>3, <1>4, <2>1 DEF Abandoned
  <2>3. QueueIds # <<>> /\ Head(QueueIds) = ring[isr_tail_i].id
    BY <2>1, <2>2, QueueOfRing
  <2>4. QueueIds' = QueueIds
    BY <1>1, <2>1, <2>2, QueueStays, Types, Queue
  <2>5. Promise!Start
    BY <1>1, <1>2, <1>3, <2>1, <2>3, <2>4, Types DEF Promise!Start, Pending
  <2> QED BY <2>5 DEF Promise!Next
<1>9. CASE Retires(IsrState, IsrState')
  <2>1. /\ ~halted /\ isr_tail_i # head_i /\ isr_tail_i' = NextIndex(isr_tail_i)
        /\ flags'["flush"] = flags["flush"]
        /\ current_block' = NoBlock /\ isr_tail_i' # head_i => ~ring'[isr_tail_i'].taken
    BY <1>9 DEF Retires, SameFlush, IsrState
  <2>2. ~Abandoned /\ ~Abandoned'
    BY <1>1, <1>4, <2>1 DEF Abandoned
  <2>3. QueueIds # <<>>
    BY <2>1, <2>2, QueueOfRing
  <2>4. QueueIds' = Tail(QueueIds)
    BY <1>1, <2>1, <2>2, QueueRetires
  <2>5. current_block' # NoBlock => QueueIds' # <<>> /\ Head(QueueIds') = ring'[isr_tail_i'].id
    BY <1>5, <2>2, QueueOfRingNext DEF FirstQueued
  <2>6. Promise!Retire
    BY <1>1, <1>2, <1>5, <2>1, <2>3, <2>4, <2>5 DEF Promise!Retire, Pending
  <2> QED BY <2>6 DEF Promise!Next
<1> QED BY <1>6, <1>7, <1>8, <1>9, TickOutcomes

\* Every step of MotionQueue is one of MoveQueue.
LEMMA Implements ==
  ASSUME ThreadInv, ThreadInv', BlockInv, Next
  PROVE  Promise!Next
<1> USE DEF ThreadInv, BlockInv
<1>1. Span(isr_tail_i, head_i) \cup {head_i} \subseteq Index /\ head_i \notin Span(isr_tail_i, head_i)
      /\ isr_tail_i \in Index
  BY Types, Queue
<1>2. CASE Walk
  BY <1>1, <1>2, WalkBlocks, QueueUntouched DEF Abandoned
<1>3. CASE Ready
  BY <1>1, <1>3, ReadyBlocks, QueueUntouched DEF Abandoned
<1>4. CASE QueueRefuse
  <2>1. /\ UNCHANGED <<head_i, tail_i, isr_tail_i, current_block, nextId>>
        /\ ring' = [ring EXCEPT ![head_i] = Cleared] /\ halted /\ Planning
    BY <1>4, RefuseBlocks DEF Planning
  <2>2. /\ \A i \in Span(isr_tail_i, head_i) : ring'[i] = ring[i]
        /\ Pending' = 0
    BY <1>1, <2>1, Types, ClearedBlock DEF Pending
  <2>3. Abandoned' <=> Abandoned
    BY <2>1, <2>2, Types, Queue DEF Abandoned
  <2>4. QueueIds' = QueueIds
    BY <2>1, <2>2, <2>3, QueueStays
  <2>5. RunningId' = RunningId
    BY <2>1, <2>2, Types, Queue DEF RunningId
  <2>6. flags' = flags /\ halted' = halted
    BY <1>4 DEF QueueRefuse, ThreadKeeps, MotionKept
  <2>7. Promise!Refuse
    BY <2>1, <2>2, <2>4, <2>5, <2>6, PlannedHasName
    DEF Promise!Refuse, Pending, RunningId
  <2> QED BY <2>7 DEF Promise!Next
<1>5. CASE ProduceHead
  <2>1. /\ UNCHANGED <<tail_i, isr_tail_i, current_block, nextId, ring>>
        /\ head_i' = NextIndex(head_i) /\ isr_tail_i # NextIndex(head_i)
        /\ Planning /\ ~Planning'
    BY <1>5, ProduceBlocks DEF Planning, WalkLabels
  <2>2. flags' = flags /\ halted' = halted
    BY <1>5 DEF ProduceHead, ThreadKeeps, MotionKept
  <2>3. Pending # 0 /\ Pending' = 0
    <3>1. /\ Span(tail_i, head_i') = Span(tail_i, head_i) \cup {head_i}
          /\ head_i' \in Index
      BY <1>5, ProduceBlocks
    <3>2. head_i' \notin Span(tail_i, head_i')
      BY <3>1, Types, SpanEnds
    <3>3. ring[head_i'].id = 0
      BY <3>1, <3>2 DEF IdInv
    <3> QED BY <2>1, <3>3, PlannedHasName DEF Pending
  <2>4. Abandoned' <=> Abandoned
    BY <2>1, Types, Queue DEF Abandoned, TickingInv, TicksAt, IsrState
  <2>5. RunningId' = RunningId
    BY <2>1 DEF RunningId
  <2>6. CASE ~Abandoned
    <3>1. QueueIds' = Append(QueueIds, Pending)
      BY <2>1, <2>4, <2>6, QueueGrows DEF Pending
    <3>2. Promise!Enqueue
      BY <2>1, <2>2, <2>3, <2>5, <3>1 DEF Promise!Enqueue, Pending, RunningId
    <3> QED BY <3>2 DEF Promise!Next
  <2>7. CASE Abandoned
    <3>1. QueueIds = <<>> /\ QueueIds' = <<>> /\ halted
      BY <2>4, <2>7 DEF QueueIds, Abandoned, DoomInv, Doomed
    <3>2. Promise!Refuse
      BY <2>1, <2>2, <2>3, <2>5, <3>1 DEF Promise!Refuse, Pending, RunningId
    <3> QED BY <3>2 DEF Promise!Next
  <2> QED BY <2>6, <2>7
<1>6. CASE IdleCollect
  <2>1. UNCHANGED <<head_i, isr_tail_i, current_block, nextId>>
        /\ \A i \in Span(isr_tail_i, head_i) \cup {head_i} : ring'[i] = ring[i]
    BY <1>1, <1>6, CollectBlocks, Types
  <2>2. Abandoned' <=> Abandoned
    BY <2>1, Types, Queue DEF Abandoned
  <2> QED BY <2>1, <2>2, QueueUntouched
<1>7. ASSUME NEW mv \in MoveSet, Plan(mv) PROVE Promise!Next
  <2>1. /\ UNCHANGED <<head_i, isr_tail_i, current_block>> /\ nextId' = nextId + 1
        /\ \A i \in Index \ {head_i} : ring'[i] = ring[i]
        /\ ring'[head_i].id = nextId /\ ~Planning
        /\ \A i \in Index : ring'[i].taken = ring[i].taken
    BY <1>7, PlanBlocks DEF Plan, Planning, HeadReady, WalkLabels
  <2>2. flags' = flags /\ halted' = halted
    BY <1>7 DEF Plan, PlanBlock, ThreadKeeps
  <2>3. Abandoned' <=> Abandoned
    BY <1>1, <2>1 DEF Abandoned
  <2>4. QueueIds' = QueueIds
    BY <1>1, <2>1, <2>3, QueueStays
  <2>5. RunningId' = RunningId
    BY <2>1, Types, Queue DEF RunningId
  <2>6. nextId \in Nat
    BY DEF IInv, TypeOK, ShellType
  <2>7. Promise!Plan
    BY <2>1, <2>2, <2>4, <2>5, <2>6, PlannedHasName DEF Promise!Plan, Pending, RunningId
  <2> QED BY <2>7 DEF Promise!Next
<1>8. CASE Quiet
  BY <1>8, QueueUntouched DEF Quiet, ringVars, Abandoned
<1> QED BY <1>2, <1>3, <1>4, <1>5, <1>6, <1>7, <1>8, StepKinds, TickImplements

\* Every planned block is run at most once, in the order of planning, and is lost only on
\* request: MotionQueue implements MoveQueue.
THEOREM MotionQueueImplements == Spec => ImplementsMoveQueue
<1>1. Init => Promise!Init
  <2> SUFFICES ASSUME Init PROVE Promise!Init
    OBVIOUS
  <2>1. /\ nextId = 1 /\ ring[head_i].id = 0 /\ current_block = NoBlock /\ isr_tail_i = head_i
        /\ ~halted /\ flags["flush"] = 0
    BY LengthAssumption DEF Init, Index, Cleared, Flag
  <2>2. QueueIds = <<>>
    BY <2>1, InitSafe, QueueOfRing DEF IInv
  <2> QED BY <2>1, <2>2 DEF Promise!Init
<1>2. ThreadInv /\ ThreadInv' /\ BlockInv /\ [Next]_vars => [Promise!Next]_(Promise!mqVars)
  <2> SUFFICES ASSUME ThreadInv, ThreadInv', BlockInv, [Next]_vars
               PROVE  [Promise!Next]_(Promise!mqVars)
    OBVIOUS
  <2>1. CASE Next
    BY <2>1, Implements
  <2>2. CASE UNCHANGED vars
    <3>1. UNCHANGED <<nextId, Pending, QueueIds, RunningId, Dropping>>
      BY <2>2 DEF vars, ringVars, motorVars, Pending, QueueIds, RunningId, Dropping, Abandoned,
         IdAt
    <3> QED BY <3>1 DEF Promise!mqVars, Pending, RunningId, Dropping
  <2> QED BY <2>1, <2>2
<1> QED BY <1>1, <1>2, ThreadInvariant, BlockInvariant, PTL
        DEF Spec, ImplementsMoveQueue, Promise!Spec

-----------------------------------------------------------------------------

(***************************************************************************)
(* Counting steps.  The steps left in the blocks of Q, n[i] in block i, are *)
(* a set: each step is a block and its number in it.                       *)
(***************************************************************************)

Cells(Q, n) == UNION {{i} \X (1 .. n[i]) : i \in Q}

\* A step is a block of Q and a number up to those the block has.
LEMMA CellsMember ==
  ASSUME NEW Q, NEW n
  PROVE  \A c : c \in Cells(Q, n) <=> \E i \in Q : \E k \in 1 .. n[i] : c = <<i, k>>
BY DEF Cells

\* They are finitely many.
LEMMA CellsFinite ==
  ASSUME NEW Q \in SUBSET Index, NEW n \in [Index -> Nat]
  PROVE  IsFiniteSet(Cells(Q, n)) /\ Cardinality(Cells(Q, n)) \in Nat
<1> DEFINE cell(i) == {i} \X (1 .. n[i])
           parts == {cell(i) : i \in Q}
<1>1. IsFiniteSet(Index)
  BY FS_Interval, LengthAssumption DEF Index
<1>2. IsFiniteSet(Q)
  BY <1>1, FS_Subset
<1>3. IsFiniteSet(parts)
  <2>1. [i \in Q |-> cell(i)] \in Surjection(Q, parts)
    BY DEF Surjection
  <2> QED BY <1>2, <2>1, FS_Surjection
<1>4. \A i \in Q : IsFiniteSet(cell(i))
  <2> TAKE i \in Q
  <2>1. IsFiniteSet(1 .. n[i])
    BY FS_Interval
  <2>2. IsFiniteSet({i})
    BY FS_Singleton
  <2> QED BY <2>1, <2>2, FS_Product
<1>5. IsFiniteSet(UNION parts)
  BY <1>3, <1>4, FS_UNION
<1> QED BY <1>5, FS_CardinalityType DEF Cells

\* Only the numbers of steps of these blocks count, and blocks without steps do not.
LEMMA CellsSame ==
  ASSUME NEW Q, NEW n, NEW R, NEW p,
         \A i \in R : i \in Q /\ n[i] = p[i], \A i \in Q \ R : n[i] = 0
  PROVE  Cells(R, p) = Cells(Q, n)
<1>1. \A i \in Q : i \in R \/ 1 .. n[i] = {}
  <2> TAKE i \in Q
  <2>1. CASE i \notin R
    BY <2>1
  <2> QED BY <2>1
<1>2. \A c : c \in Cells(R, p) <=> \E i \in R : \E k \in 1 .. p[i] : c = <<i, k>>
  BY CellsMember
<1>3. \A c : c \in Cells(Q, n) <=> \E i \in Q : \E k \in 1 .. n[i] : c = <<i, k>>
  BY CellsMember
<1> QED BY <1>1, <1>2, <1>3

\* A step that is done leaves one less.
LEMMA CellsStep ==
  ASSUME NEW Q \in SUBSET Index, NEW n \in [Index -> Nat], NEW p \in [Index -> Nat],
         NEW i \in Q, n[i] > 0, p[i] = n[i] - 1, \A j \in Q \ {i} : p[j] = n[j]
  PROVE  /\ Cardinality(Cells(Q, n)) > 0
         /\ Cardinality(Cells(Q, p)) = Cardinality(Cells(Q, n)) - 1
<1> DEFINE last == <<i, n[i]>>
<1>1. \A c : c \in Cells(Q, p) <=> \E j \in Q : \E k \in 1 .. p[j] : c = <<j, k>>
  BY CellsMember
<1>2. \A c : c \in Cells(Q, n) <=> \E j \in Q : \E k \in 1 .. n[j] : c = <<j, k>>
  BY CellsMember
<1>3. n[i] \in Nat /\ p[i] \in Nat
  OBVIOUS
<1>4. last \in Cells(Q, n)
  BY <1>2, <1>3
<1>5. Cells(Q, p) = Cells(Q, n) \ {last}
  <2>1. ASSUME NEW c, c \in Cells(Q, p) PROVE c \in Cells(Q, n) \ {last}
    <3>0. PICK j \in Q : \E k \in 1 .. p[j] : c = <<j, k>>
      BY <1>1, <2>1
    <3>1. PICK k \in 1 .. p[j] : c = <<j, k>>
      BY <3>0
    <3>2. CASE j = i
      BY <1>2, <1>3, <3>1, <3>2
    <3>3. CASE j # i
      BY <1>2, <3>1, <3>3
    <3> QED BY <3>2, <3>3
  <2>2. ASSUME NEW c, c \in Cells(Q, n) \ {last} PROVE c \in Cells(Q, p)
    <3>0. PICK j \in Q : \E k \in 1 .. n[j] : c = <<j, k>>
      BY <1>2, <2>2
    <3>1. PICK k \in 1 .. n[j] : c = <<j, k>>
      BY <3>0
    <3>2. CASE j = i
      <4>1. k # n[i]
        BY <2>2, <3>1, <3>2
      <4>2. k \in 1 .. p[i]
        BY <1>3, <3>1, <3>2, <4>1
      <4> QED BY <1>1, <3>1, <3>2, <4>2
    <3>3. CASE j # i
      BY <1>1, <3>1, <3>3
    <3> QED BY <3>2, <3>3
  <2> QED BY <2>1, <2>2
<1>6. IsFiniteSet(Cells(Q, n)) /\ Cardinality(Cells(Q, n)) \in Nat
  BY CellsFinite
<1>7. Cardinality(Cells(Q, p)) = Cardinality(Cells(Q, n)) - 1
  <2>1. Cardinality(Cells(Q, n) \ {last}) = Cardinality(Cells(Q, n)) - 1
    BY <1>4, <1>6, FS_RemoveElement
  <2> QED BY <1>5, <2>1
<1>8. Cardinality(Cells(Q, n)) # 0
  BY <1>4, <1>6, FS_EmptySet
<1> QED BY <1>6, <1>7, <1>8

\* A block more adds its steps.
LEMMA CellsAdd ==
  ASSUME NEW Q \in SUBSET Index, NEW n \in [Index -> Nat], NEW h \in Index \ Q
  PROVE  Cardinality(Cells(Q \cup {h}, n)) = Cardinality(Cells(Q, n)) + n[h]
<1> DEFINE A == Cells(Q, n)
           B == {h} \X (1 .. n[h])
<1>1. Cells(Q \cup {h}, n) = A \cup B
  BY DEF Cells
<1>2. A \cap B = {}
  BY CellsMember
<1>3. IsFiniteSet(A) /\ Cardinality(A) \in Nat
  BY CellsFinite
<1>4. n[h] \in Nat
  OBVIOUS
<1>5. IsFiniteSet(1 .. n[h]) /\ Cardinality(1 .. n[h]) = n[h]
  BY <1>4, FS_Interval
<1>6. IsFiniteSet({h}) /\ Cardinality({h}) = 1
  BY FS_Singleton
<1>7. IsFiniteSet(B) /\ Cardinality(B) = n[h]
  <2>1. IsFiniteSet(B) /\ Cardinality(B) = Cardinality({h}) * Cardinality(1 .. n[h])
    BY <1>5, <1>6, FS_Product
  <2> QED BY <1>4, <1>5, <1>6, <2>1
<1>8. Cardinality(A \cap B) = 0
  BY <1>2, FS_EmptySet
<1> HIDE DEF A, B
<1>9. Cardinality(A \cup B) = Cardinality(A) + Cardinality(B) - Cardinality(A \cap B)
  BY <1>3, <1>7, FS_Union
<1>10. Cardinality(A \cup B) = Cardinality(A) + n[h]
  BY <1>3, <1>4, <1>7, <1>8, <1>9
<1> QED BY <1>1, <1>10 DEF A

\* A ring of blocks of at most max steps holds at most Length * max.
LEMMA CellsBound ==
  ASSUME NEW Q \in SUBSET Index, NEW n \in [Index -> Nat], NEW max \in Nat,
         \A i \in Q : n[i] <= max
  PROVE  Cardinality(Cells(Q, n)) <= Length * max
<1> DEFINE all == Index \X (1 .. max)
<1>1. IsFiniteSet(Index) /\ Cardinality(Index) = Length
  BY FS_Interval, LengthAssumption DEF Index
<1>2. IsFiniteSet(1 .. max) /\ Cardinality(1 .. max) = max
  BY FS_Interval
<1>3. IsFiniteSet(all) /\ Cardinality(all) = Length * max
  BY <1>1, <1>2, FS_Product
<1>4. Cells(Q, n) \subseteq all
  <2> SUFFICES ASSUME NEW i \in Q, NEW k \in 1 .. n[i] PROVE <<i, k>> \in all
    BY CellsMember
  <2>1. n[i] \in Nat /\ n[i] <= max
    OBVIOUS
  <2>2. k \in 1 .. max
    BY <2>1
  <2> QED BY <2>2
<1> HIDE DEF all
<1> QED BY <1>3, <1>4, FS_Subset

-----------------------------------------------------------------------------
(* TIMER0 counts.  Counted(s, p) says that every motor owes the steps left in *)
(* the queue and p steps that are planned but not queued, that no motor has   *)
(* been stopped in the middle of the running block, and that no block has     *)
(* more steps left than it was given.                                         *)

Todo(s, m) == [i \in Index |-> s.ring[i].todo[m]]
Left(s, m) == Cardinality(Cells(Span(s.isr, head_i), Todo(s, m)))

Whole(s) == \A i \in Span(s.isr, head_i) : \A m \in Motors :
              s.ring[i].todo[m] <= s.ring[i].steps[m]
Counted(s, p) ==
  /\ s.block # NoBlock => \A m \in Motors : s.ring[s.block].todo[m] > 0 => s.moving[m]
  /\ Whole(s)
  /\ \A m \in Motors : s.owed[m] = Left(s, m) + p[m]

\* The types of what is counted.
LEMMA LeftType ==
  ASSUME RingTypes, NEW s \in IsrStates, NEW m \in Motors
  PROVE  /\ Span(s.isr, head_i) \in SUBSET Index
         /\ Todo(s, m) \in [Index -> Nat]
         /\ Left(s, m) \in Nat
         /\ s.owed[m] \in -MaxOwed .. MaxOwed
         /\ \A i \in Index : s.ring[i] \in Block
<1>1. Span(s.isr, head_i) \in SUBSET Index
  BY DEF Span
<1>2. \A i \in Index : s.ring[i] \in Block
  BY DEF IsrStates
<1>3. Todo(s, m) \in [Index -> Nat]
  BY <1>2 DEF Todo, Block, Steps
<1> QED BY <1>1, <1>2, <1>3, CellsFinite DEF Left, IsrStates

\* What is left is what is left of the blocks of the queue that have steps.
LEMMA LeftSame ==
  ASSUME RingTypes, NEW s \in IsrStates, NEW t \in IsrStates, NEW m \in Motors,
         Span(t.isr, head_i) \subseteq Span(s.isr, head_i),
         \A i \in Span(t.isr, head_i) : t.ring[i].todo = s.ring[i].todo,
         \A i \in Span(s.isr, head_i) \ Span(t.isr, head_i) : s.ring[i].todo[m] = 0
  PROVE  Left(t, m) = Left(s, m)
<1> DEFINE Q == Span(s.isr, head_i)
           R == Span(t.isr, head_i)
<1>1. Q \subseteq Index /\ R \subseteq Index
  BY DEF Span
<1>2. /\ \A i \in R : i \in Q /\ Todo(s, m)[i] = Todo(t, m)[i]
      /\ \A i \in Q \ R : Todo(s, m)[i] = 0
  BY <1>1 DEF Todo
<1> HIDE DEF Q, R
<1>3. Cells(R, Todo(t, m)) = Cells(Q, Todo(s, m))
  BY <1>2, CellsSame
<1> QED BY <1>3 DEF Left, Q, R

\* A change that keeps what is left, what is owed and the blocks keeps the count.
LEMMA CountedSame ==
  ASSUME RingTypes, NEW s \in IsrStates, NEW t \in IsrStates, NEW p,
         Counted(s, p), t.owed = s.owed,
         Span(t.isr, head_i) \subseteq Span(s.isr, head_i),
         \A i \in Span(t.isr, head_i) : /\ t.ring[i].todo = s.ring[i].todo
                                        /\ t.ring[i].steps = s.ring[i].steps,
         \A i \in Span(s.isr, head_i) \ Span(t.isr, head_i) :
           \A m \in Motors : s.ring[i].todo[m] = 0,
         t.block # NoBlock => \A m \in Motors : t.ring[t.block].todo[m] > 0 => t.moving[m]
  PROVE  Counted(t, p)
<1>1. \A m \in Motors : Left(t, m) = Left(s, m)
  BY LeftSame
<1> QED BY <1>1 DEF Counted, Whole

\* The motors that step owe one step less each, and only the last step stops a motor.
LEMMA SteppedCounts ==
  ASSUME RingTypes, NEW s \in IsrStates, InOrder(s), Owned(s), s.block # NoBlock,
         NEW p \in [Motors -> Nat], Counted(s, p),
         NEW S, S \subseteq Active(s, s.block)
  PROVE  /\ Counted(Stepped(s, S), p)
         /\ \A m \in Active(s, s.block) :
              ~Stepped(s, S).moving[m] => Stepped(s, S).ring[s.block].todo[m] = 0
         /\ \A m \in Motors \ Active(s, s.block) : Stepped(s, S).ring[s.block].todo[m] = 0
<1> DEFINE i == s.block
           last(m) == ~s.moving[m] \/ s.ring[i].todo[m] = 1
           todo == [m \in Motors |-> IF m \notin S THEN s.ring[i].todo[m]
                                     ELSE IF last(m) THEN 0 ELSE s.ring[i].todo[m] - 1]
           mv == [m \in Motors |-> s.moving[m] /\ ~(m \in S /\ last(m))]
           ow == [m \in Motors |-> IF m \in S THEN Sat(s.owed[m] - 1) ELSE s.owed[m]]
           b == [s.ring[i] EXCEPT !.todo = todo]
           t == Stepped(s, S)
<1>1. i \in Index /\ s.ring \in [Index -> Block] /\ s.ring[i] \in Block
  BY DEF IsrStates
<1>2. t = [s EXCEPT !.ring = [s.ring EXCEPT ![i] = b], !.moving = mv, !.owed = ow]
  BY <1>1 DEF Stepped, IsrStates
<1>3. b.todo = todo /\ b.steps = s.ring[i].steps
  BY <1>1 DEF Block
<1>4. t \in IsrStates /\ t.isr = s.isr /\ t.block = s.block
  BY SteppedSafe
<1>5. \A m \in S : m \in Motors /\ s.ring[i].todo[m] > 0 /\ s.moving[m]
  BY DEF Active, Counted
<1>6. \A m \in Motors : s.ring[i].todo[m] \in Nat
  BY <1>1 DEF Block, Steps
<1>7. \A m \in Motors :
        /\ todo[m] = IF m \in S THEN s.ring[i].todo[m] - 1 ELSE s.ring[i].todo[m]
        /\ mv[m] <=> s.moving[m] /\ ~(m \in S /\ s.ring[i].todo[m] = 1)
  <2>1. \A m \in S : last(m) <=> s.ring[i].todo[m] = 1
    BY <1>5
  <2>2. \A m \in Motors : mv[m] <=> s.moving[m] /\ ~(m \in S /\ s.ring[i].todo[m] = 1)
    <3> HIDE DEF last
    <3> QED BY <2>1, Zenon
  <2>3. \A m \in Motors : todo[m] = IF m \in S THEN s.ring[i].todo[m] - 1
                                    ELSE s.ring[i].todo[m]
    <3> HIDE DEF last
    <3> QED BY <1>5, <1>6, <2>1
  <2> HIDE DEF todo, mv
  <2> QED BY <2>2, <2>3
<1>8. t.moving = mv /\ t.owed = ow /\ t.ring = [s.ring EXCEPT ![i] = b]
  <2> HIDE DEF b, mv, ow, i, t
  <2> QED BY <1>2 DEF IsrStates
<1>9. /\ t.ring[i].todo = todo /\ t.ring[i].steps = s.ring[i].steps
      /\ \A j \in Index \ {i} : t.ring[j] = s.ring[j]
  <2> HIDE DEF b, todo, t
  <2> QED BY <1>1, <1>3, <1>8
<1>10. i = s.isr /\ i \in Span(s.isr, head_i) /\ Span(s.isr, head_i) \subseteq Index
  BY SpanRetire DEF Owned, RingTypes, IsrStates, Span
<1> HIDE DEF t, todo, mv, b
<1>11. ASSUME NEW m \in Motors PROVE t.owed[m] = Left(t, m) + p[m]
  <2>1. s.owed[m] = Left(s, m) + p[m] /\ p[m] \in Nat
    BY DEF Counted
  <2>2. /\ Left(s, m) \in Nat /\ s.owed[m] \in -MaxOwed .. MaxOwed /\ MaxOwed \in Nat
        /\ Todo(s, m) \in [Index -> Nat] /\ Todo(t, m) \in [Index -> Nat]
    BY <1>4, LeftType, MotionAssumption
  <2>3. \A j \in Index : /\ Todo(s, m)[j] = s.ring[j].todo[m]
                         /\ Todo(t, m)[j] = t.ring[j].todo[m]
    BY DEF Todo
  <2>4. CASE m \in S
    <3>1. /\ Todo(s, m)[i] > 0 /\ Todo(t, m)[i] = Todo(s, m)[i] - 1
          /\ \A j \in Span(s.isr, head_i) \ {i} : Todo(t, m)[j] = Todo(s, m)[j]
      BY <1>1, <1>5, <1>7, <1>9, <1>10, <2>3, <2>4
    <3>2. Left(s, m) > 0 /\ Left(t, m) = Left(s, m) - 1
      BY <1>4, <1>10, <2>2, <3>1, CellsStep DEF Left
    <3>3. t.owed[m] = Sat(s.owed[m] - 1)
      BY <1>8, <2>4
    <3>4. s.owed[m] - 1 \in -MaxOwed .. MaxOwed
      BY <2>1, <2>2, <3>2
    <3>5. t.owed[m] = s.owed[m] - 1
      BY <2>2, <3>3, <3>4 DEF Sat
    <3> QED BY <2>1, <2>2, <3>2, <3>5
  <2>5. CASE m \notin S
    <3>1. \A j \in Span(s.isr, head_i) : Todo(t, m)[j] = Todo(s, m)[j]
      BY <1>7, <1>9, <1>10, <2>3, <2>5
    <3>2. Left(t, m) = Left(s, m)
      BY <1>4, <3>1, CellsSame DEF Left
    <3>3. t.owed[m] = s.owed[m]
      BY <1>8, <2>5
    <3> QED BY <2>1, <3>2, <3>3
  <2> QED BY <2>4, <2>5
<1>12. Whole(t)
  <2> SUFFICES ASSUME NEW j \in Span(s.isr, head_i), NEW m \in Motors
               PROVE  t.ring[j].todo[m] <= t.ring[j].steps[m]
    BY <1>4 DEF Whole
  <2>1. s.ring[j].todo[m] <= s.ring[j].steps[m] /\ j \in Index
    BY <1>10 DEF Counted, Whole
  <2>2. CASE j = i
    <3>1. s.ring[i].todo[m] \in Nat /\ s.ring[i].steps[m] \in Nat
      BY <1>1 DEF Block, Steps
    <3>2. todo[m] <= s.ring[i].todo[m]
      BY <1>7, <3>1
    <3>3. todo[m] \in Int
      BY <1>7, <3>1
    <3> QED BY <1>9, <2>1, <2>2, <3>1, <3>2, <3>3
  <2>3. CASE j # i
    BY <1>9, <2>1, <2>3
  <2> QED BY <2>2, <2>3
<1>13. \A m \in Motors : t.ring[i].todo[m] > 0 => t.moving[m]
  BY <1>6, <1>7, <1>8, <1>9 DEF Counted
<1>14. \A m \in Motors : t.ring[i].todo[m] \in Nat
  BY <1>6, <1>7, <1>5, <1>9
<1>15. \A m \in Motors \ Active(s, i) : t.ring[i].todo[m] = 0
  BY <1>5, <1>6, <1>7, <1>9 DEF Active
<1>16. Counted(t, p)
  BY <1>4, <1>11, <1>12, <1>13 DEF Counted
<1>17. \A m \in Active(s, i) : ~t.moving[m] => t.ring[i].todo[m] = 0
  BY <1>13, <1>14 DEF Active
<1> QED BY <1>15, <1>16, <1>17 DEF t

\* A block without steps can be retired.
LEMMA FinishedCounts ==
  ASSUME RingTypes, NEW s \in IsrStates, InOrder(s), s.isr # head_i,
         s.flags["continuous_mode"] = 0,
         NEW p, Counted(s, p), \A m \in Motors : s.ring[s.isr].todo[m] = 0
  PROVE  LET t == BlockFinished(s) IN
         /\ t \in IsrStates /\ InOrder(t) /\ Counted(t, p)
         /\ t.flags["continuous_mode"] = 0
         /\ t.flags["flush"] = s.flags["flush"] /\ t.flags["hold_queue"] = s.flags["hold_queue"]
<1> DEFINE t == BlockFinished(s)
           fl == [s.flags EXCEPT !["continuous_mode"] = 0]
<1>1. t = [s EXCEPT !.isr = NextIndex(s.isr), !.flags = fl]
  BY DEF BlockFinished, IsrStates
<1>2. fl \in Byte /\ \A g \in Flag : fl[g] = s.flags[g]
  BY DEF IsrStates, Byte, Flag
<1>3. t \in IsrStates /\ InOrder(t)
  BY BlockFinishedSafe
<1> HIDE DEF fl
<1>4. /\ t.isr = NextIndex(s.isr) /\ t.ring = s.ring /\ t.flags = fl /\ t.owed = s.owed
      /\ t.block = s.block /\ t.moving = s.moving
  BY <1>1 DEF IsrStates
<1>5. Span(t.isr, head_i) = Span(s.isr, head_i) \ {s.isr}
  BY <1>4, SpanRetire DEF IsrStates, RingTypes
<1> HIDE DEF t
<1>6. t.block # NoBlock => \A m \in Motors : t.ring[t.block].todo[m] > 0 => t.moving[m]
  BY <1>4 DEF Counted
<1>7. Counted(t, p)
  BY <1>3, <1>4, <1>5, <1>6, CountedSame
<1> QED BY <1>2, <1>3, <1>4, <1>7 DEF t, Flag

\* Outside a continuous jog get_next_block runs a block with the steps it was queued with.
LEMMA TakenCounts ==
  ASSUME RingTypes, NEW s \in IsrStates, InOrder(s), s.flags["continuous_mode"] = 0,
         NEW p, Counted(s, p)
  PROVE  LET t == Taken(s) IN
         /\ t \in IsrStates /\ InOrder(t) /\ Counted(t, p)
         /\ t.isr = s.isr /\ t.flags = s.flags
<1> DEFINE b == [s.ring[s.isr] EXCEPT !.is_ticking = TRUE, !.recalculate = FALSE,
                                      !.todo = TickInfo(s), !.taken = TRUE,
                                      !.torn = s.ring[s.isr].torn \/ InHand(s.isr)]
           t == Taken(s)
<1>1. s.isr \in Index /\ s.ring \in [Index -> Block] /\ s.ring[s.isr] \in Block
  BY DEF IsrStates
<1>2. Taken(s) = [s EXCEPT !.ring = [s.ring EXCEPT ![s.isr] = b]]
  BY DEF Taken, IsrStates
<1>3. t \in IsrStates /\ InOrder(t) /\ t.isr = s.isr
  BY TakenSafe
<1>4. TickInfo(s) = s.ring[s.isr].todo
  BY DEF TickInfo
<1>5. b.todo = s.ring[s.isr].todo /\ b.steps = s.ring[s.isr].steps
  BY <1>1, <1>4 DEF Block
<1> HIDE DEF b
<1>6. /\ t.flags = s.flags /\ t.block = s.block /\ t.moving = s.moving /\ t.owed = s.owed
      /\ t.ring = [s.ring EXCEPT ![s.isr] = b]
  BY <1>2 DEF IsrStates
<1> HIDE DEF t
<1>7. \A i \in Index : t.ring[i].todo = s.ring[i].todo /\ t.ring[i].steps = s.ring[i].steps
  BY <1>1, <1>5, <1>6
<1>8. Span(s.isr, head_i) \subseteq Index /\ s.block \in Index \cup {NoBlock}
  BY DEF Span, IsrStates
<1>9. t.block # NoBlock => \A m \in Motors : t.ring[t.block].todo[m] > 0 => t.moving[m]
  BY <1>6, <1>7, <1>8 DEF Counted
<1>10. Counted(t, p)
  BY <1>3, <1>6, <1>7, <1>8, <1>9, CountedSame
<1> QED BY <1>3, <1>6, <1>10 DEF t

\* A flush of an empty queue, of one that is held, or none.
Unflushed(s) ==
  s.flags["flush"] = 1 => s.isr = head_i \/ s.flags["hold_queue"] = 1

\* get_next_block and start_next_block: the next block starts with all its motors moving.
LEMMA NextBlockCounts ==
  ASSUME RingTypes, NEW s \in IsrStates, InOrder(s), s.flags["continuous_mode"] = 0,
         Unflushed(s), NEW p, Counted(s, p)
  PROVE  /\ Counted(NextBlock(s), p)
         /\ NextBlock(s).block # NoBlock =>
              /\ NextBlock(s).flags["continuous_mode"] = 0
              /\ NextBlock(s).flags["flush"] # 1
<1> DEFINE f == Flushed(s)
           k == Taken(f)
<1>1. NextBlock(s) \in IsrStates
  BY NextBlockSafe
<1>2. ASSUME NEW u \in IsrStates, Counted(u, p), [u EXCEPT !.block = NoBlock] \in IsrStates
      PROVE  /\ Counted([u EXCEPT !.block = NoBlock], p)
             /\ [u EXCEPT !.block = NoBlock].block = NoBlock
  <2> DEFINE t == [u EXCEPT !.block = NoBlock]
  <2>1. t.isr = u.isr /\ t.ring = u.ring /\ t.owed = u.owed /\ t.block = NoBlock
    BY DEF IsrStates
  <2>2. t \in IsrStates
    BY <1>2
  <2> HIDE DEF t
  <2>3. Counted(t, p)
    BY <1>2, <2>1, <2>2, CountedSame
  <2> QED BY <2>1, <2>3 DEF t
<1>3. CASE s.flags["hold_queue"] = 1
  BY <1>1, <1>2, <1>3 DEF NextBlock
<1>4. CASE s.flags["hold_queue"] # 1
  <2>1. /\ f \in IsrStates /\ InOrder(f) /\ Counted(f, p) /\ f.flags["continuous_mode"] = 0
        /\ f.flags["flush"] # 1
    <3>1. CASE s.flags["flush"] # 1
      BY <3>1 DEF Flushed
    <3>2. CASE s.flags["flush"] = 1
      <4>1. f = [s EXCEPT !.isr = head_i, !.flags = [s.flags EXCEPT !["flush"] = 0]]
        BY <3>2 DEF Flushed, IsrStates
      <4>2. /\ f.isr = s.isr /\ f.ring = s.ring /\ f.owed = s.owed /\ f.block = s.block
            /\ f.moving = s.moving /\ f.flags = [s.flags EXCEPT !["flush"] = 0]
        BY <1>4, <3>2, <4>1 DEF IsrStates, Unflushed
      <4>3. f \in IsrStates /\ InOrder(f)
        BY FlushedSafe
      <4> HIDE DEF f
      <4>4. Counted(f, p)
        BY <4>2, <4>3, CountedSame DEF Counted
      <4>5. f.flags["continuous_mode"] = 0 /\ f.flags["flush"] = 0
        BY <4>2 DEF IsrStates, Byte, Flag
      <4> QED BY <4>3, <4>4, <4>5
    <3> QED BY <3>1, <3>2
  <2>2. CASE ~MayFetch(f)
    <3>1. NextBlock(s) = [f EXCEPT !.block = NoBlock]
      BY <1>4, <2>2 DEF NextBlock
    <3> HIDE DEF f
    <3> QED BY <1>1, <1>2, <2>1, <3>1
  <2>3. CASE MayFetch(f)
    <3>1. /\ k \in IsrStates /\ InOrder(k) /\ Counted(k, p)
          /\ k.isr = f.isr /\ k.flags = f.flags
      <4> HIDE DEF f
      <4> QED BY <2>1, TakenCounts
    <3>2. f.isr # head_i /\ NextBlock(s) = StartNextBlock(k, f.isr)
      BY <1>4, <2>3 DEF NextBlock, MayFetch
    <3> HIDE DEF k, f
    <3>3. CASE Active(k, k.isr) = {}
      <4>1. k.isr \in Index /\ \A m \in Motors : k.ring[k.isr].todo[m] = 0
        <5>1. k.isr \in Index /\ k.ring[k.isr] \in Block
          BY <3>1 DEF IsrStates
        <5> QED BY <3>3, <5>1 DEF Active, Block, Steps
      <4>2. BlockFinished(k) \in IsrStates /\ Counted(BlockFinished(k), p)
        BY <2>1, <3>1, <3>2, <4>1, FinishedCounts
      <4>3. NextBlock(s) = [BlockFinished(k) EXCEPT !.block = NoBlock]
        BY <3>1, <3>2, <3>3 DEF StartNextBlock
      <4> QED BY <1>1, <1>2, <4>2, <4>3
    <3>4. CASE Active(k, k.isr) # {}
      <4> DEFINE mv == [m \in Motors |-> m \in Active(k, k.isr) \/ k.moving[m]]
                 t == [k EXCEPT !.block = k.isr, !.moving = mv]
      <4>1. NextBlock(s) = t
        BY <3>1, <3>2, <3>4 DEF StartNextBlock, IsrStates
      <4>2. \A m \in Active(k, k.isr) : mv[m]
        BY DEF Active
      <4> HIDE DEF mv
      <4>3. /\ t.isr = k.isr /\ t.ring = k.ring /\ t.owed = k.owed /\ t.block = k.isr
            /\ t.moving = mv /\ t.flags = k.flags
        BY <3>1 DEF IsrStates
      <4>4. t \in IsrStates
        BY <1>1, <4>1
      <4> HIDE DEF t
      <4>5. \A m \in Motors : t.ring[t.block].todo[m] > 0 => t.moving[m]
        BY <4>2, <4>3 DEF Active
      <4>6. Counted(t, p)
        BY <3>1, <4>3, <4>4, <4>5, CountedSame
      <4> QED BY <2>1, <3>1, <4>1, <4>3, <4>6
    <3> QED BY <3>3, <3>4
  <2> QED BY <2>2, <2>3
<1> QED BY <1>3, <1>4

\* A running block takes steps, and is retired when none of its motors has one left.
LEMMA RunBlockCounts ==
  ASSUME RingTypes, NEW s \in IsrStates, InOrder(s), Owned(s), s.block # NoBlock,
         s.flags["continuous_mode"] = 0, Unflushed(s),
         NEW p \in [Motors -> Nat], Counted(s, p),
         NEW S, S \subseteq Active(s, s.block)
  PROVE  Counted(RunBlock(s, S), p)
<1> DEFINE t == Stepped(s, S)
<1>1. /\ Counted(t, p)
      /\ \A m \in Active(s, s.block) : ~t.moving[m] => t.ring[s.block].todo[m] = 0
      /\ \A m \in Motors \ Active(s, s.block) : t.ring[s.block].todo[m] = 0
  BY SteppedCounts
<1>2. t \in IsrStates /\ t.isr = s.isr /\ t.block = s.block /\ t.flags = s.flags
  <2>1. t.flags = s.flags
    BY DEF Stepped, IsrStates
  <2> QED BY <2>1, SteppedSafe
<1>3. s.block = s.isr /\ s.isr # head_i
  BY DEF Owned
<1> HIDE DEF t
<1>4. InOrder(t) /\ t.isr # head_i
  BY <1>2, <1>3 DEF InOrder
<1>5. CASE \E m \in Active(s, s.block) : t.moving[m]
  BY <1>1, <1>5 DEF RunBlock, t
<1>6. CASE ~\E m \in Active(s, s.block) : t.moving[m]
  <2>1. \A m \in Motors : t.ring[t.isr].todo[m] = 0
    BY <1>1, <1>2, <1>3, <1>6
  <2>2. /\ BlockFinished(t) \in IsrStates /\ InOrder(BlockFinished(t))
        /\ Counted(BlockFinished(t), p)
        /\ BlockFinished(t).flags["continuous_mode"] = 0
        /\ BlockFinished(t).flags["flush"] = t.flags["flush"]
        /\ BlockFinished(t).flags["hold_queue"] = t.flags["hold_queue"]
    BY <1>1, <1>2, <1>4, <2>1, FinishedCounts
  <2>3. Unflushed(BlockFinished(t))
    BY <1>2, <1>3, <2>2 DEF Unflushed
  <2>4. RunBlock(s, S) = NextBlock(BlockFinished(t))
    BY <1>6 DEF RunBlock, t
  <2> QED BY <2>2, <2>3, <2>4, NextBlockCounts
<1> QED BY <1>5, <1>6

\* A whole TIMER0 interrupt, while nothing is halted and no continuous jog runs.
LEMMA StepTickCounts ==
  ASSUME RingTypes, NEW s0 \in IsrStates, InOrder(s0), Owned(s0), ~halted,
         s0.flags["continuous_mode"] = 0, Unflushed(s0),
         NEW p \in [Motors -> Nat], Counted(s0, p),
         NEW S, Due(Begun(s0), S)
  PROVE  Counted(StepTick(Begun(s0), S), p)
<1> DEFINE s == Begun(s0)
<1>1. s \in IsrStates /\ InOrder(s) /\ Owned(s)
  BY NextBlockSafe DEF Begun
<1>2. Counted(s, p)
  BY NextBlockCounts DEF Begun
<1>3. s.block # NoBlock => S \subseteq Active(s, s.block)
  BY DEF Due
<1>4. s.block # NoBlock => s.flags["continuous_mode"] = 0 /\ Unflushed(s)
  <2>1. CASE s0.block # NoBlock
    BY <2>1 DEF Begun
  <2>2. CASE s0.block = NoBlock
    BY <2>2, NextBlockCounts DEF Begun, Unflushed
  <2> QED BY <2>1, <2>2
<1> HIDE DEF s
<1>5. CASE s.block = NoBlock
  BY <1>2, <1>5 DEF StepTick, s
<1>6. CASE s.block # NoBlock
  <2>1. Counted(RunBlock(s, S), p)
    BY <1>1, <1>2, <1>3, <1>4, <1>6, RunBlockCounts
  <2> QED BY <1>6, <2>1 DEF StepTick, s
<1> QED BY <1>5, <1>6
-----------------------------------------------------------------------------
(* What the thread's place says of the count.  A halt and a continuous jog    *)
(* lose it until the planner takes its position from the motors; a flush is   *)
(* asked for when the queue is empty, or by one of these.                     *)

\* The planner will take its position from the motors before the next move.
SyncLabels == {"sync", "jogForce", "jogging", "jogHalted", "jogEnd", "jogFree"}
SyncBelow(s) == \/ Head(s) \in {"sync", "jogHalted"}
                \/ Head(s) \in {"drain", "still"} /\ Head(Tail(s)) = "sync"
SyncComing == pc \in SyncLabels \/ (stack # <<>> /\ SyncBelow(stack))
Live == ~halted /\ ~SyncComing

\* Only SyncPosition ends that.
LEMMA SyncStays ==
  ASSUME IInv, IInv', Frames, Next, SyncComing, ~SyncPosition
  PROVE  SyncComing'
<1> USE Types, Bottom
<1>1. CASE LoadFlags \/ StoreFlags \/ Interrupt
  BY <1>1 DEF LoadFlags, StoreFlags, Interrupt, Tick, LimitHit, LimitClear, TimePasses,
     StopRequest, threadVars, SyncComing
<1>2. CASE Idle \/ OnHalt
  <2>1. pc \in IdleLabels /\ IdleStack(stack) /\ stack # <<>>
    BY <1>2 DEF Idle, IdleCheck, IdleCollect, IdleEnd, IdleHalt, IdleUnhalt,
       OnHalt, Halt, HaltMotors, Unhalt, SyncPosition, At, IdleLabels, Frames
  <2>2. CASE Unhalt
    BY <2>2 DEF Unhalt, Goto, SyncComing, SyncLabels
  <2>3. CASE ~Unhalt
    <3>1. pc \notin SyncLabels
      BY <1>2, <2>3 DEF Idle, IdleCheck, IdleCollect, IdleEnd, IdleHalt, IdleUnhalt,
         OnHalt, Halt, HaltMotors, At, SyncLabels
    <3>2. SyncBelow(stack)
      BY <3>1 DEF SyncComing
    <3>3. CASE stack' = stack
      BY <2>1, <3>2, <3>3 DEF SyncComing
    <3>4. CASE Return
      <4>1. CASE Head(stack) = "jogHalted"
        <5>1. pc' = "jogHalted"
          BY <3>4, <4>1 DEF Return
        <5> QED BY <5>1 DEF SyncComing, SyncLabels
      <4>2. CASE Head(stack) # "jogHalted"
        <5>1. Head(stack) \in {"drain", "still"} /\ Head(Tail(stack)) = "sync"
          BY <2>1, <3>2, <4>2 DEF SyncBelow, IdleStack
        <5>2. pc' # "loop" /\ stack' = Tail(stack)
          BY <3>4, <5>1 DEF Return
        <5>3. stack' # <<>>
          BY <5>2 DEF IInv, TypeOK, StackEnds
        <5> QED BY <5>1, <5>2, <5>3 DEF SyncComing, SyncBelow
      <4> QED BY <4>1, <4>2
    <3> QED BY <1>2, <2>3, <3>3, <3>4 DEF Idle, IdleCheck, IdleCollect, IdleEnd, IdleHalt,
        IdleUnhalt, OnHalt, Halt, HaltMotors, Goto
  <2> QED BY <2>2, <2>3
<1>3. CASE AppendBlock
  <2>1. pc \in MoveLabels \cup {"queued"} /\ PlanStack(stack)
    BY <1>3 DEF AppendBlock, ForwardPass, ForwardStore, Trapezoid, Lock, LockStore, Prepare,
       Ready, QueueWait, QueueRefuse, QueueRoom, ProduceHead, QueueCheck, At, Frames, MoveLabels
  <2> QED BY <2>1 DEF SyncComing, SyncLabels, SyncBelow, MoveLabels, PlanStack
<1>4. CASE Wait
  <2>1. pc \in WaitLabels /\ WaitStack(stack) /\ stack # <<>>
    BY <1>4 DEF Wait, WaitStart, WaitQueue, WaitMotors, At, WaitLabels, Frames
  <2>2. Head(stack) = "sync"
    BY <2>1 DEF SyncComing, SyncLabels, SyncBelow, WaitLabels, WaitStack
  <2>3. CASE Goto("drain") \/ Goto("still")
    BY <2>1, <2>2, <2>3 DEF Goto, SyncComing, SyncBelow
  <2>4. CASE Return
    <3>1. pc' = "sync"
      BY <2>2, <2>4 DEF Return
    <3> QED BY <3>1 DEF SyncComing, SyncLabels
  <2>5. ASSUME NEW r \in {"drain", "still"}, Call("idle", r) PROVE SyncComing'
    <3>1. Head(stack') = r /\ Tail(stack') = stack /\ stack' # <<>>
      BY <2>5, Push DEF Call, Labels
    <3> QED BY <2>2, <3>1 DEF SyncComing, SyncBelow
  <2> QED BY <1>4, <2>3, <2>4, <2>5 DEF Wait, WaitStart, WaitQueue, WaitMotors
<1>5. CASE JogMove \/ JogHold \/ JogRefused \/ JogMode
  <2>1. pc \in {"jogHold", "jog1", "jog2", "jog3", "jogMode"}
    BY <1>5 DEF JogMove, JogHold, JogRefused, JogMode, JogNext, At
  <2> QED BY <2>1 DEF SyncComing, SyncLabels, SyncBelow, Frames, JogLabels
<1>6. CASE JogForce \/ JogHalted \/ JogStopped \/ JogEnd
  BY <1>6 DEF JogForce, JogHalted, JogStopped, JogEnd, Goto, SyncComing, SyncLabels
<1>7. CASE Jogging \/ JogFree
  <2>1. Call("idle", "jogHalted") \/ Call("wfi", "sync")
    BY <1>7 DEF Jogging, JogFree
  <2>2. stack' # <<>> /\ Head(stack') \in {"jogHalted", "sync"}
    BY <2>1, Push DEF Call, Labels
  <2> QED BY <2>2 DEF SyncComing, SyncBelow
<1>8. CASE Main
  <2>1. pc = "loop" /\ stack = <<>>
    BY <1>8 DEF Main, MainIdle, MainMove, MainWait, MainAbort, MainHalt, MainUnhalt, MainJog, At
  <2> QED BY <2>1 DEF SyncComing, SyncLabels
<1> QED BY <1>1, <1>2, <1>3, <1>4, <1>5, <1>6, <1>7, <1>8 DEF Next, Thread, Jog

\* A continuous jog runs only on the way to it.
LEMMA JogSyncs ==
  ASSUME JogRunning
  PROVE  SyncComing
<1>1. CASE OnTop("jogHalted")
  BY <1>1 DEF OnTop, SyncComing, SyncBelow
<1>2. CASE ~OnTop("jogHalted")
  <2>1. pc \in SyncLabels
    BY <1>2 DEF JogRunning, SyncLabels
  <2> QED BY <2>1 DEF SyncComing
<1> QED BY <1>1, <1>2

\* Which steps change what a motor owes, or whether it moves.
LEMMA MotorWriters ==
  ASSUME Next, ~Tick, ~LimitHit, ~HaltMotors, ~SyncPosition, ~MainMove, ~JogMove
  PROVE  UNCHANGED <<owed, moving>>
BY DEF Next, Thread, Interrupt, LimitClear, TimePasses, StopRequest, LoadFlags, StoreFlags,
   Idle, IdleCheck, IdleCollect, IdleEnd, IdleHalt, IdleUnhalt, OnHalt, Halt, Unhalt,
   AppendBlock, ForwardPass, ForwardStore, Trapezoid, Lock, LockStore, Prepare, TrapezoidKeeps,
   Ready, QueueWait, QueueRefuse, QueueRoom, ProduceHead, QueueCheck,
   Wait, WaitStart, WaitQueue, WaitMotors,
   Jog, JogHold, JogRefused, JogMode, JogForce, Jogging, JogHalted, JogStopped, JogEnd,
   JogFree, Main, MainIdle, MainWait, MainAbort, MainHalt, MainUnhalt, MainJog,
   JogKeeps, MotionKept, motorVars

\* Only the two commands that move plan a block.
LEMMA Planners ==
  ASSUME IInv, Next, NEW mv, PlanBlock(mv)
  PROVE  MainMove \/ JogMove
<1>1. nextId' # nextId
  BY DEF PlanBlock, IInv, TypeOK, ShellType
<1> QED BY <1>1
  DEF Next, Thread, Interrupt, Tick, LimitHit, LimitClear, TimePasses, StopRequest, LoadFlags,
   StoreFlags,
   Idle, IdleCheck, IdleCollect, IdleEnd, IdleHalt, IdleUnhalt,
   OnHalt, Halt, HaltMotors, Unhalt, SyncPosition,
   AppendBlock, ForwardPass, ForwardStore, Trapezoid, Lock, LockStore, Prepare, TrapezoidKeeps,
   Ready, QueueWait, QueueRefuse, QueueRoom, ProduceHead, QueueCheck,
   Wait, WaitStart, WaitQueue, WaitMotors,
   Jog, JogHold, JogRefused, JogMode, JogForce, Jogging, JogHalted, JogStopped, JogEnd,
   JogFree, Main, MainIdle, MainWait, MainAbort, MainHalt, MainUnhalt, MainJog,
   JogKeeps, RingKept

\* Planning begins with one of them, when nothing is halted or about to be flushed.
LEMMA PlanningBegins ==
  ASSUME IInv, Frames, Next, Planning', ~Planning
  PROVE  /\ \E mv \in MoveSet : Plan(mv)
         /\ ~halted /\ ops = <<>> /\ TickerSettled
<1>1. \E mv \in MoveSet : Plan(mv)
  <2>1. CASE Tick
    BY <2>1, TickFrame DEF Planning, HeadReady, OnTop
  <2>2. CASE Walk
    BY <2>2, WalkBlocks DEF Planning, Walk, ForwardPass, ForwardStore, Trapezoid, Lock, LockStore,
       Prepare, At, WalkLabels
  <2>3. CASE Ready \/ QueueRefuse \/ ProduceHead \/ IdleCollect
    BY <2>3, ReadyBlocks, RefuseBlocks, ProduceBlocks, CollectBlocks DEF Planning, WalkLabels
  <2>4. CASE Quiet
    BY <2>4 DEF Quiet, Planning
  <2> QED BY <2>1, <2>2, <2>3, <2>4, StepKinds
<1>2. MainMove \/ JogMove
  BY <1>1, Planners DEF Plan
<1> QED BY <1>1, <1>2 DEF MainMove, JogMove, At

\* Where the steps of the thread that neither load nor store a byte of flags go, around
\* a halt and a wait; and what the thread does there.
LEMMA Places ==
  ASSUME IInv, Frames, Writes, Loading, Thread, ~LoadFlags, ~StoreFlags
  PROVE  /\ pc' \in {"stop", "stopSync"} => Halt
         /\ pc' = "sync" => Unhalt \/ (WaitMotors /\ Empty /\ stack' = <<"loop">>)
         /\ pc' = "wfi" => ops' = <<>> \/ stack' = <<"sync", "loop">>
         /\ pc \in {"stop", "stopSync"} => HaltMotors
         /\ pc = "unhalt" => Unhalt
         /\ pc = "sync" => SyncPosition
         /\ pc = "qhb" => QueueWait \/ QueueRefuse \/ QueueRoom
<1> DEFINE PlanStart == \E mv \in MoveSet : PlanBlock(mv)
           Elsewhere == pc' \notin {"stop", "stopSync", "sync", "wfi"}
           Quit == Elsewhere \/ (pc' = "wfi" /\ (ops' = <<>> \/ stack' = <<"sync", "loop">>))
<1> USE Bottom
<1>1. ops = <<>>
  BY ThreadEffects
<1>2. {"halt", "stop", "stopSync", "unhalt", "sync", "qhb"} \cap DOMAIN JogNext = {}
  BY DEF JogNext
<1>3. /\ pc \in {"stop", "stopSync"} => HaltMotors
      /\ pc = "unhalt" => Unhalt
      /\ pc = "sync" => SyncPosition
      /\ pc = "qhb" => QueueWait \/ QueueRefuse \/ QueueRoom
  BY <1>2 DEF Thread,
   Idle, IdleCheck, IdleCollect, IdleEnd, IdleHalt, IdleUnhalt,
   OnHalt, Halt, HaltMotors, Unhalt, SyncPosition,
   AppendBlock, ForwardPass, ForwardStore, Trapezoid, Lock, LockStore, Prepare,
   Ready, QueueWait, QueueRefuse, QueueRoom, ProduceHead, QueueCheck,
   Wait, WaitStart, WaitQueue, WaitMotors,
   Jog, JogHold, JogMove, JogRefused, JogMode, JogForce, Jogging, JogHalted, JogStopped, JogEnd,
   JogFree, Main, MainIdle, MainMove, MainWait, MainAbort, MainHalt, MainUnhalt, MainJog, At
<1>4. IdleEnd \/ HaltMotors \/ SyncPosition => Elsewhere
  <2>1. IdleEnd \/ HaltMotors \/ SyncPosition => IdleStack(stack) /\ Return
    BY DEF IdleEnd, HaltMotors, SyncPosition, At, Frames, IdleLabels
  <2> QED BY <2>1 DEF IdleStack, Return
<1>5. QueueRefuse \/ QueueCheck => Elsewhere
  <2>1. QueueRefuse \/ QueueCheck => PlanStack(stack) /\ Return
    BY DEF QueueRefuse, QueueCheck, At, Frames, MoveLabels
  <2> QED BY <2>1 DEF PlanStack, Return
<1>6. WaitMotors => Elsewhere \/ (pc' = "sync" /\ Empty /\ stack' = <<"loop">>)
  <2>1. WaitMotors => WaitStack(stack) /\ ((Return /\ Empty) \/ pc' = "idle")
    BY DEF WaitMotors, At, Frames, WaitLabels, Call, IsIdle
  <2> QED BY <2>1 DEF WaitStack, Return
<1>7. JogMode => Elsewhere
  <2>1. JogMode => stack = <<"loop">> /\ (Return \/ pc' = "jogForce")
    BY DEF JogMode, At, Frames, JogLabels, Goto
  <2> QED BY <2>1 DEF Return
<1>8. Idle => Elsewhere
  BY <1>4 DEF Idle, IdleCheck, IdleCollect, IdleHalt, IdleUnhalt, Goto
<1>9. OnHalt => Elsewhere \/ Halt \/ Unhalt
  BY <1>4 DEF OnHalt
<1>10. Halt => pc' \notin {"sync", "wfi"}
  BY DEF Halt, Goto
<1>11. Unhalt => pc' = "sync"
  BY DEF Unhalt, Goto
<1>12. AppendBlock => Elsewhere
  BY <1>5 DEF AppendBlock, ForwardPass, ForwardStore, Trapezoid, Lock, LockStore, Prepare,
     NextTrapezoid, Ready, QueueWait, QueueRoom, ProduceHead, Goto, Call
<1>13. Wait => Elsewhere \/ WaitMotors
  BY DEF Wait, WaitStart, WaitQueue, Goto, Call
<1>14. PlanStart => Elsewhere
  BY DEF PlanBlock
<1>15. Jog => Quit
  <2>1. \A l \in DOMAIN JogNext : JogNext[l] \notin {"stop", "stopSync", "sync", "wfi"}
    BY DEF JogNext
  <2>2. JogFree => Quit
    BY <1>1 DEF JogFree, Call, NoWrite
  <2>3. JogMove \/ JogRefused => Elsewhere
    BY <1>14, <2>1 DEF JogMove, JogRefused, Goto
  <2> QED BY <1>7, <2>2, <2>3 DEF Jog, JogHold, JogForce, Jogging, JogHalted, JogStopped, JogEnd,
      Goto, Call
<1>16. Main => Quit
  <2>1. MainMove => Elsewhere
    BY <1>14 DEF MainMove
  <2> QED BY <1>1, <2>1 DEF Main, MainIdle, MainWait, MainAbort, MainHalt, MainUnhalt, MainJog,
      Goto, Call, NoWrite, At
<1> HIDE DEF Elsewhere
<1>17. \/ Elsewhere
       \/ pc' = "wfi" /\ (ops' = <<>> \/ stack' = <<"sync", "loop">>)
       \/ Halt \/ Unhalt
       \/ WaitMotors /\ pc' = "sync" /\ Empty /\ stack' = <<"loop">>
  BY <1>6, <1>8, <1>9, <1>12, <1>13, <1>15, <1>16 DEF Thread
<1> QED BY <1>3, <1>10, <1>11, <1>17 DEF Elsewhere

-----------------------------------------------------------------------------
(* A block that has not begun has all its steps, and a planned one too.       *)

WholeInv ==
  /\ \A i \in Span(isr_tail_i, head_i) :
       ring[i].steps \in MoveSet /\ (ring[i].taken \/ ring[i].todo = ring[i].steps)
  /\ Planning => ring[head_i].steps \in MoveSet
  /\ Prepared => ring[head_i].todo = ring[head_i].steps

\* The trapezoid gives a block the steps it was planned with.
LEMMA WholeStep ==
  ASSUME ThreadInv, BlockInv, WholeInv, Next
  PROVE  WholeInv'
<1> USE DEF ThreadInv, BlockInv
<1> DEFINE New ==
     /\ \A i \in Span(isr_tail_i', head_i') :
          ring'[i].steps \in MoveSet /\ (ring'[i].taken \/ ring'[i].todo = ring'[i].steps)
     /\ Planning' => ring'[head_i'].steps \in MoveSet
     /\ Prepared' => ring'[head_i'].todo = ring'[head_i'].steps
<1>1. New => WholeInv'
  BY DEF WholeInv
<1>2. /\ \A i \in Span(isr_tail_i, head_i) :
           ring[i].steps \in MoveSet /\ (ring[i].taken \/ ring[i].todo = ring[i].steps)
      /\ Planning => ring[head_i].steps \in MoveSet
      /\ Prepared => ring[head_i].todo = ring[head_i].steps
  BY DEF WholeInv
<1>3. Span(isr_tail_i, head_i) \subseteq Index /\ head_i \notin Span(isr_tail_i, head_i)
  BY Types, Queue
<1>4. ~ring[head_i].taken
  BY Types, Queue DEF TickingInv, TicksAt, IsrState
<1> HIDE DEF New
<1>5. CASE Tick
  <2>1. /\ UNCHANGED <<head_i, tail_i, pc, stack>>
        /\ \A i \in Index : ring'[i].steps = ring[i].steps
        /\ Span(isr_tail_i', head_i) \subseteq Span(isr_tail_i, head_i)
    BY <1>5, TickFrame
  <2>2. (Planning' <=> Planning) /\ (Prepared' <=> Prepared)
    BY <2>1 DEF Planning, Prepared, HeadReady, OnTop
  <2>3. /\ \A i \in Index : ring[i].taken => ring'[i].taken
        /\ \A i \in Index : ~ring'[i].taken => ring'[i].todo = ring[i].todo
        /\ ring'[head_i].taken => head_i \in Span(tail_i, isr_tail_i')
        /\ isr_tail_i' \in Index /\ Ordered(tail_i, isr_tail_i', head_i)
    BY <1>5, TickOutcomes, Types
    DEF Fits, Sound, Ran, TicksAt, InOrder, IsrState, IsrStates
  <2>4. head_i \notin Span(tail_i, isr_tail_i')
    BY <2>3, Types, SpanSplit, SpanEnds
  <2> QED BY <1>1, <1>2, <1>3, <2>1, <2>2, <2>3, <2>4, Types DEF New
<1>6. CASE Walk
  <2>1. Planning /\ Planning' /\ (Prepared' => pc' = "ready")
    <3>1. ~HeadReady /\ stack' = stack /\ pc \in WalkLabels /\ pc' \in WalkLabels
      BY <1>6, WalkBlocks, WalkingNotReady
    <3>2. ~HeadReady'
      BY <3>1 DEF HeadReady, OnTop, WalkLabels
    <3> QED BY <3>1, <3>2 DEF Planning, Prepared
  <2>2. Prepared' => ring'[head_i].todo = ring'[head_i].steps
    BY <1>4, <1>6, <2>1, WalkBlocks, Types
  <2> QED BY <1>1, <1>2, <1>3, <1>6, <2>1, <2>2, WalkBlocks, Types DEF New
<1>7. CASE Ready
  <2>1. Planning /\ Prepared
    BY <1>7, ReadyBlocks DEF Planning, Prepared, WalkLabels
  <2> QED BY <1>1, <1>2, <1>3, <1>7, <2>1, ReadyBlocks, Types DEF New
<1>8. CASE QueueRefuse
  <2>1. ~Planning' /\ ~Prepared'
    BY <1>8, RefuseBlocks DEF Planning, Prepared, WalkLabels
  <2> QED BY <1>1, <1>2, <1>3, <1>8, <2>1, RefuseBlocks, Types DEF New
<1>9. CASE ProduceHead
  <2>1. ~Planning' /\ ~Prepared' /\ Planning /\ Prepared
    BY <1>9, ProduceBlocks DEF Planning, Prepared, WalkLabels
  <2> QED BY <1>1, <1>2, <1>9, <2>1, ProduceBlocks DEF New
<1>10. CASE IdleCollect
  <2>1. (Planning' <=> Planning) /\ (Prepared' <=> Prepared)
    BY <1>10, CollectBlocks DEF Planning, Prepared, WalkLabels
  <2> QED BY <1>1, <1>2, <1>3, <1>10, <2>1, CollectBlocks, Types DEF New
<1>11. ASSUME NEW mv \in MoveSet, Plan(mv) PROVE WholeInv'
  <2>1. ~Prepared'
    BY <1>11, PlanBlocks DEF Plan, Prepared
  <2> QED BY <1>1, <1>2, <1>3, <1>11, <2>1, PlanBlocks, Types DEF Plan, New
<1>12. CASE Quiet
  <2>1. (Planning' <=> Planning) /\ (Prepared' <=> Prepared)
    BY <1>12 DEF Quiet, Planning, Prepared, WalkLabels
  <2> QED BY <1>1, <1>2, <1>12, <2>1 DEF Quiet, ringVars, New
<1> QED BY <1>5, <1>6, <1>7, <1>8, <1>9, <1>10, <1>11, <1>12, StepKinds

-----------------------------------------------------------------------------
(* A halt flushes whatever is queued, and no planned block joins the queue    *)
(* while it lasts: when it is lifted the queue is empty.                      *)

HaltInv ==
  /\ halted /\ isr_tail_i # head_i =>
       /\ flags["flush"] = 1 \/ pc = "halt" \/ Flushing
       /\ reg # <<>> => Head(reg)["flush"] = 1 \/ Flushing
       /\ flags["hold_queue"] = 1 => pc \in {"stop", "stopSync"}
  /\ halted /\ Planning =>
       /\ limit.halt \/ pc \in {"halt", "stop", "stopSync", "qhb"}
       /\ flags["hold_queue"] = 1 => pc \in {"stop", "stopSync"}
  /\ pc \in {"stop", "stopSync"} => halted
  /\ pc \in {"unhalt", "sync"} => isr_tail_i = head_i /\ ~OnTop("qhb")

\* Only a block that was planned before the halt can join the queue.
LEMMA QueueGrowsBy ==
  ASSUME ThreadInv, BlockInv, Next, isr_tail_i = head_i, isr_tail_i' # head_i'
  PROVE  ProduceHead
<1> USE DEF ThreadInv, BlockInv
<1>1. Span(isr_tail_i, head_i) = {}
  BY Types, SpanEnds
<1>2. ~Tick
  <2>1. SUFFICES ASSUME Tick PROVE FALSE
    OBVIOUS
  <2>2. head_i' = head_i /\ Span(isr_tail_i', head_i) = {}
    BY <1>1, <2>1, TickFrame
  <2>3. isr_tail_i' \in Index
    BY <2>1, TickOutcomes DEF Fits, IsrState, IsrStates
  <2> QED BY <2>2, <2>3, Types, SpanRetire
<1> QED BY <1>2, StepKinds, WalkBlocks, ReadyBlocks, RefuseBlocks, ProduceBlocks, CollectBlocks,
        PlanBlocks DEF Plan, Quiet, ringVars

\* A block that is planned stays planned through a halt, and is refused afterwards.
LEMMA HaltStep ==
  ASSUME ThreadInv, BlockInv, HaltInv, Next
  PROVE  HaltInv'
<1> USE DEF ThreadInv, BlockInv
<1>1. Planning' => Planning \/ (~halted /\ ops = <<>>)
  BY PlanningBegins
<1>2. flags["hold_queue"] \in {0, 1}
  BY DEF JogInv
<1>3. CASE Tick
  <2>1. /\ UNCHANGED <<head_i, halted, pc, stack, ops, reg, limit>>
        /\ flags'["hold_queue"] = flags["hold_queue"]
    BY <1>3, TickFrame DEF KeptFlags
  <2>2. isr_tail_i = head_i => isr_tail_i' = head_i'
    BY <2>1, QueueGrowsBy DEF ProduceHead, At, Goto
  <2>3. isr_tail_i' # head_i' => flags'["flush"] = flags["flush"]
    BY <1>3, <2>1, TickOutcomes
    DEF IsrState, Stays, Flushes, Halts, Begins, Retires, SameFlush
  <2>4. Planning' <=> Planning
    BY <2>1 DEF Planning, HeadReady, OnTop
  <2> QED BY <2>1, <2>2, <2>3, <2>4 DEF HaltInv, Flushing, OnTop
<1>4. CASE LimitHit
  <2>1. flags["hold_queue"] # 1
    BY <1>4 DEF LimitHit, HoldInv, Holding
  <2>2. flags'["hold_queue"] = flags["hold_queue"] /\ flags'["flush"] = 1
    BY <1>4 DEF LimitHit, IInv, TypeOK, FlagsType, Byte, Flag
  <2>3. halted' /\ limit'.halt /\ UNCHANGED <<isr_tail_i, head_i, pc, stack>>
    BY <1>4 DEF LimitHit, threadVars, ringVars
  <2> QED BY <2>1, <2>2, <2>3 DEF HaltInv, Flushing, OnTop
<1>5. CASE LimitClear \/ TimePasses \/ StopRequest
  <2>1. UNCHANGED <<flags, halted, isr_tail_i, head_i, pc, stack, ops, reg>>
    BY <1>5 DEF LimitClear, TimePasses, StopRequest, threadVars, ringVars
  <2>2. limit'.halt = limit.halt
    BY <1>5 DEF LimitClear, TimePasses, StopRequest, shellVars, IInv, TypeOK, ShellType
  <2> QED BY <2>1, <2>2 DEF HaltInv, Flushing, OnTop, Planning, HeadReady
<1>6. CASE LoadFlags
  <2>1. UNCHANGED <<flags, halted, isr_tail_i, head_i, pc, stack, ops, limit>>
        /\ Head(reg') = flags /\ ops # <<>>
    <3>1. reg' = <<flags>>
      BY <1>6 DEF LoadFlags
    <3>2. Head(<<flags>>) = flags
      OBVIOUS
    <3> QED BY <1>6, <3>1, <3>2 DEF LoadFlags, motorVars, shellVars, ringVars
  <2>2. pc # "halt"
    BY <2>1 DEF Writes
  <2> QED BY <2>1, <2>2 DEF HaltInv, Flushing, OnTop, Planning, HeadReady
<1>7. CASE StoreFlags
  <2>1. /\ UNCHANGED <<isr_tail_i, head_i, halted, pc, stack, limit>>
        /\ reg # <<>> /\ reg' = <<>> /\ ops # <<>>
    BY <1>7, StoreCases DEF motorVars, ringVars
  <2>2. Planning' <=> Planning
    BY <2>1 DEF Planning, HeadReady, OnTop
  <2>3. halted /\ isr_tail_i # head_i => flags'["flush"] = 1 \/ Flushing'
    <3>1. CASE Head(ops) = F1
      BY <1>7, <3>1, StoreCases
    <3>2. CASE limit.halt
      BY <2>1, <3>2 DEF Flushing
    <3>3. CASE Head(ops) # F1 /\ Head(reg)["flush"] = 1
      BY <1>7, <3>3, StoreCases
    <3>4. CASE Head(ops) # F1 /\ pc \in {"stop", "stopSync"} /\ ops \in HaltsFlushing
      <4>1. Head(ops) \in {A0, F1} /\ A0 \notin {H0, C0}
        <5>1. A0 \notin {H0, C0}
          BY DEF A0, H0, C0, Set
        <5> HIDE DEF A0, F1, H0, C0
        <5> QED BY <3>4, <5>1, Pop DEF HaltsFlushing
      <4>2. ops' \in HaltsFlushing
        BY <1>7, <3>4, <4>1, StoreCases
      <4> QED BY <2>1, <3>4, <4>2 DEF Flushing
    <3> QED BY <2>1, <3>1, <3>2, <3>3, <3>4 DEF HaltInv, Flushing
  <2>4. Head(ops) = H1 => isr_tail_i = head_i /\ ~Planning
    <3>1. Head(ops) = H1 => Empty /\ pc = "jog1"
      BY <1>7, <2>1, StoreCases DEF HoldInv
    <3>2. pc = "jog1" => ~Planning
      BY Bottom DEF Planning, WalkLabels, HeadReady, OnTop, Frames, JogLabels
    <3> QED BY <3>1, <3>2, EmptyIsDone
  <2>5. Head(ops) # H1 => flags'["hold_queue"] \in {0, flags["hold_queue"]}
    BY <1>7, <2>1, StoreCases DEF HoldInv
  <2> QED BY <1>2, <2>1, <2>2, <2>3, <2>4, <2>5 DEF HaltInv, OnTop
<1>8. CASE Thread /\ ~LoadFlags /\ ~StoreFlags
  <2>1. /\ ops = <<>> /\ reg = <<>> /\ reg' = <<>> /\ flags' = flags
        /\ isr_tail_i' = isr_tail_i
        /\ Halt \/ Unhalt \/ halted' = halted
        /\ IdleHalt \/ limit' = limit
        /\ pc = "halt" => Halt
        /\ pc' = "unhalt" => IdleUnhalt \/ MainUnhalt
    BY <1>8, ThreadEffects
  <2>2. /\ pc' \in {"stop", "stopSync"} => Halt
        /\ pc' = "sync" => Unhalt \/ (WaitMotors /\ Empty /\ stack' = <<"loop">>)
        /\ pc \in {"stop", "stopSync"} => HaltMotors
        /\ pc = "unhalt" => Unhalt
        /\ pc = "sync" => SyncPosition
        /\ pc = "qhb" => QueueWait \/ QueueRefuse \/ QueueRoom
    BY <1>8, Places
  <2>3. ~Flushing \/ limit.halt
    BY <2>1, Pop DEF Flushing, HaltsFlushing
  <2>4. pc \in {"stop", "stopSync"} => flags["hold_queue"] # 1
    BY <2>1 DEF JogInv
  <2>5. CASE Halt
    <3>1. halted' /\ pc' \in {"stop", "stopSync"} /\ ops' = <<A0, F1, H0, C0>>
      BY <2>5 DEF Halt, Goto, Write, A0, F1, H0, C0
    <3>2. Flushing'
      BY <3>1 DEF Flushing, HaltsFlushing
    <3> QED BY <2>1, <3>1, <3>2 DEF HaltInv
  <2>6. CASE Unhalt
    <3>1. ~halted' /\ pc = "unhalt" /\ pc' = "sync" /\ UNCHANGED <<stack, head_i>>
      BY <2>6 DEF Unhalt, At, Goto, RingKept
    <3> QED BY <2>1, <3>1 DEF HaltInv, OnTop
  <2>7. CASE ~Halt /\ ~Unhalt
    <3>1. halted' = halted /\ pc # "halt" /\ pc' \notin {"stop", "stopSync"} /\ pc # "unhalt"
      BY <2>1, <2>2, <2>7
    <3>2. limit.halt => limit'.halt \/ pc' = "halt"
      BY <2>1 DEF IdleHalt, Goto
    <3>3. halted /\ isr_tail_i' # head_i' => isr_tail_i # head_i \/ (Planning /\ pc = "produce")
      BY <1>8, QueueGrowsBy DEF ProduceHead, At, Planning, HeadReady
    <3>4. halted /\ isr_tail_i' # head_i' =>
            /\ flags["flush"] = 1 \/ limit.halt
            /\ flags["hold_queue"] # 1
      BY <2>3, <2>4, <3>1, <3>3 DEF HaltInv
    <3>5. halted /\ Planning' =>
            /\ limit'.halt \/ pc' \in {"halt", "qhb"}
            /\ flags["hold_queue"] # 1
      <4>1. SUFFICES ASSUME halted, Planning' PROVE
              /\ limit'.halt \/ pc' \in {"halt", "qhb"}
              /\ flags["hold_queue"] # 1
        OBVIOUS
      <4>2. Planning
        BY <1>1, <4>1
      <4>3. flags["hold_queue"] # 1 /\ (limit.halt \/ pc \in {"stop", "stopSync", "qhb"})
        BY <2>4, <3>1, <4>1, <4>2 DEF HaltInv
      <4>4. CASE pc \in {"stop", "stopSync"}
        <5>1. pc' = Head(stack) /\ OnTop("qhb")
          BY <2>2, <4>2, <4>4 DEF HaltMotors, Return, Planning, WalkLabels, HeadReady
        <5> QED BY <4>3, <5>1 DEF OnTop
      <4>5. CASE pc = "qhb"
        <5>1. QueueRefuse
          BY <2>2, <4>1, <4>5 DEF QueueWait, QueueRoom
        <5>2. ~Planning'
          BY <5>1, RefuseBlocks DEF Planning
        <5> QED BY <4>1, <5>2
      <4> QED BY <3>2, <4>3, <4>4, <4>5
    <3>6. pc' = "sync" => isr_tail_i' = head_i' /\ ~OnTop("qhb")'
      <4>1. pc' = "sync" => WaitMotors /\ Empty /\ stack' = <<"loop">>
        BY <2>2, <2>7
      <4>2. WaitMotors => head_i' = head_i
        BY DEF WaitMotors, RingKept
      <4> QED BY <2>1, <4>1, <4>2, EmptyIsDone, Bottom DEF OnTop
    <3>7. pc' = "unhalt" => isr_tail_i' = head_i' /\ ~OnTop("qhb")'
      <4>1. SUFFICES ASSUME pc' = "unhalt" PROVE isr_tail_i' = head_i' /\ ~OnTop("qhb")'
        OBVIOUS
      <4>2. /\ ~limit.halt /\ halted /\ TickerSettled /\ head_i' = head_i
            /\ pc \in {"others", "loop"}
            /\ Goto("unhalt") \/ (pc = "loop" /\ Call("unhalt", "loop"))
        BY <2>1, <4>1 DEF IdleUnhalt, MainUnhalt, RingKept, JogKeeps, At
      <4>3. isr_tail_i = head_i
        BY <1>2, <2>3, <4>2 DEF HaltInv, TickerSettled
      <4>4. ~OnTop("qhb")
        BY <4>2 DEF HaltInv, Planning, HeadReady
      <4>5. stack' = stack \/ Head(stack') = "loop"
        BY <4>2, Types, Push DEF Goto, Call, Labels
      <4> QED BY <2>1, <4>2, <4>3, <4>4, <4>5 DEF OnTop
    <3> QED BY <2>1, <3>1, <3>2, <3>4, <3>5, <3>6, <3>7 DEF HaltInv, Flushing
  <2> QED BY <2>5, <2>6, <2>7
<1> QED BY <1>3, <1>4, <1>5, <1>6, <1>7, <1>8 DEF Next, Interrupt

-----------------------------------------------------------------------------
(* While the count is kept, a flush that is asked for finds nothing to lose:  *)
(* the queue is empty, or held by a jog that has not begun.                   *)

FlushPending == flags["flush"] = 1 \/ (reg # <<>> /\ Head(reg)["flush"] = 1)
FlushInv ==
  /\ Live /\ FlushPending => (isr_tail_i = head_i /\ ~Planning) \/ flags["hold_queue"] = 1
  /\ pc = "wfi" /\ ops # <<>> => stack = <<"sync", "loop">>

\* The count is found again by SyncPosition only, with the queue empty.
LEMMA Relives ==
  ASSUME ThreadInv, BlockInv, HaltInv, IInv', Next, Live', ~Live
  PROVE  /\ SyncPosition /\ UNCHANGED <<isr_tail_i, head_i, current_block>>
         /\ isr_tail_i = head_i /\ ~Planning'
<1> USE DEF ThreadInv, BlockInv
<1>1. ~halted' /\ ~SyncComing'
  BY DEF Live
<1>2. SyncComing
  <2>1. SUFFICES ASSUME halted, ~SyncComing PROVE FALSE
    BY DEF Live
  <2>2. CASE Interrupt \/ LoadFlags \/ StoreFlags
    BY <1>1, <2>1, <2>2 DEF Interrupt, Tick, LimitHit, LimitClear, TimePasses, StopRequest,
       LoadFlags, StoreFlags
  <2>3. CASE Thread /\ ~LoadFlags /\ ~StoreFlags
    <3>1. Unhalt
      BY <1>1, <2>1, <2>3, ThreadEffects DEF Halt
    <3> QED BY <1>1, <3>1 DEF Unhalt, Goto, SyncComing, SyncLabels
  <2> QED BY <2>2, <2>3 DEF Next
<1>3. SyncPosition
  BY <1>1, <1>2, SyncStays
<1>4. /\ pc = "sync" /\ UNCHANGED <<isr_tail_i, head_i, current_block>>
      /\ pc' = Head(stack) /\ stack' = Tail(stack)
  BY <1>3 DEF SyncPosition, At, Return, ThreadKeeps, RingKept
<1>5. isr_tail_i = head_i /\ ~OnTop("qhb")
  BY <1>4 DEF HaltInv
<1>6. ~Planning'
  <2>1. IdleStack(stack) /\ stack # <<>>
    BY <1>4, Types DEF Frames, IdleLabels
  <2>2. Head(stack) \in {"loop", "jogHalted", "drain", "still"}
    BY <1>5, <2>1, Bottom DEF IdleStack, OnTop
  <2>3. ~HeadReady'
    <3>1. CASE Head(stack) = "loop"
      <4>1. stack' = <<>>
        BY <1>4, <2>1, <3>1, Bottom DEF IdleStack, IInv, TypeOK, StackEnds
      <4> QED BY <1>4, <3>1, <4>1 DEF HeadReady, OnTop
    <3>2. CASE Head(stack) # "loop"
      <4>1. stack' = <<"loop">> \/ WaitStack(stack')
        BY <1>4, <2>1, <2>2, <3>2, Bottom DEF IdleStack
      <4> QED BY <1>4, <2>2, <4>1, Bottom DEF HeadReady, OnTop, WaitStack
    <3> QED BY <3>1, <3>2
  <2> QED BY <1>4, <2>2, <2>3 DEF Planning, WalkLabels
<1> QED BY <1>3, <1>4, <1>5, <1>6

\* A new request to flush while the count is kept would be one of these; there is none.
LEMMA FlushStep ==
  ASSUME ThreadInv, BlockInv, HaltInv, FlushInv, IInv', Next
  PROVE  FlushInv'
<1> USE DEF ThreadInv, BlockInv
<1>1. pc' = "wfi" /\ ops' # <<>> => stack' = <<"sync", "loop">>
  <2>1. CASE Interrupt \/ LoadFlags
    BY <2>1 DEF Interrupt, Tick, LimitHit, LimitClear, TimePasses, StopRequest, LoadFlags,
       threadVars, FlushInv
  <2>2. CASE StoreFlags
    BY <2>2 DEF StoreFlags, FlushInv
  <2>3. CASE Thread /\ ~LoadFlags /\ ~StoreFlags
    BY <2>3, Places
  <2> QED BY <2>1, <2>2, <2>3 DEF Next
<1>2. ASSUME Live', FlushPending', Live
      PROVE  (isr_tail_i' = head_i' /\ ~Planning') \/ flags'["hold_queue"] = 1
  <2>1. flags["hold_queue"] \in {0, 1} /\ ~halted /\ ~halted' /\ ~SyncComing
    BY <1>2 DEF JogInv, Live
  <2>2. FlushPending => (isr_tail_i = head_i /\ ~Planning) \/ flags["hold_queue"] = 1
    BY <1>2 DEF FlushInv
  <2>3. CASE Tick
    <3>1. UNCHANGED <<head_i, pc, stack, reg>> /\ flags'["hold_queue"] = flags["hold_queue"]
      BY <2>3, TickFrame DEF KeptFlags
    <3>2. FlushPending
      BY <1>2, <2>3, <3>1, TickOutcomes
      DEF FlushPending, IsrState, Stays, Flushes, Halts, Begins, Retires, SameFlush
    <3>3. isr_tail_i = head_i => isr_tail_i' = head_i'
      BY <3>1, QueueGrowsBy DEF ProduceHead, At, Goto
    <3>4. Planning' <=> Planning
      BY <3>1 DEF Planning, HeadReady, OnTop
    <3> QED BY <2>2, <3>1, <3>2, <3>3, <3>4
  <2>4. CASE LimitHit
    BY <2>1, <2>4 DEF LimitHit
  <2>5. CASE LimitClear \/ TimePasses \/ StopRequest
    <3>1. UNCHANGED <<flags, isr_tail_i, head_i, pc, stack, reg>>
      BY <2>5 DEF LimitClear, TimePasses, StopRequest, threadVars, ringVars
    <3> QED BY <1>2, <2>2, <3>1 DEF FlushPending, Planning, HeadReady, OnTop
  <2>6. CASE LoadFlags
    <3>1. UNCHANGED <<flags, isr_tail_i, head_i, pc, stack>> /\ reg' = <<flags>>
      BY <2>6 DEF LoadFlags, ringVars
    <3>2. Head(<<flags>>) = flags
      OBVIOUS
    <3> QED BY <1>2, <2>2, <3>1, <3>2 DEF FlushPending, Planning, HeadReady, OnTop
  <2>7. CASE StoreFlags
    <3>1. /\ UNCHANGED <<isr_tail_i, head_i, pc, stack>>
          /\ reg # <<>> /\ reg' = <<>> /\ ops # <<>>
      BY <2>7, StoreCases DEF ringVars
    <3>2. pc \notin {"stop", "stopSync", "jogForce"}
      BY <2>1 DEF HaltInv, SyncComing, SyncLabels
    <3>3. /\ F1 # H1 /\ F1 # H0 /\ F1 # R0 /\ F1 # R1 /\ F1 # A0 /\ F1 # A1 /\ F1 # C0 /\ F1 # C1
          /\ H0 # H1 /\ H0 # R0 /\ H0 # R1 /\ H0 # A0 /\ H0 # A1 /\ H0 # C0
      BY DEF F1, H1, H0, R0, R1, A0, A1, C0, C1, Set
    <3>4. pc = "wfi" => SyncComing
      <4>1. pc = "wfi" => stack = <<"sync", "loop">>
        BY <3>1 DEF FlushInv
      <4> QED BY <4>1, Bottom DEF SyncComing, SyncBelow
    <3>5. Head(ops) # F1 /\ Head(ops) # H0
      <4> HIDE DEF F1, H1, H0, R0, R1, A0, A1, C0, C1
      <4> QED BY <2>1, <3>1, <3>2, <3>3, <3>4, Pop DEF Writes
    <3>6. FlushPending
      BY <1>2, <2>7, <3>1, <3>5, StoreCases DEF FlushPending
    <3>7. flags["hold_queue"] = 1 => flags'["hold_queue"] = 1
      BY <2>7, <3>1, <3>5, StoreCases DEF HoldInv
    <3> QED BY <2>2, <3>1, <3>6, <3>7 DEF Planning, HeadReady, OnTop
  <2>8. CASE Thread /\ ~LoadFlags /\ ~StoreFlags
    <3>1. reg = <<>> /\ reg' = <<>> /\ flags' = flags /\ isr_tail_i' = isr_tail_i
      BY <2>8, ThreadEffects
    <3>2. FlushPending /\ flags["flush"] = 1
      BY <1>2, <3>1 DEF FlushPending
    <3>3. CASE flags["hold_queue"] = 1
      BY <3>1, <3>3
    <3>4. CASE flags["hold_queue"] # 1
      <4>1. isr_tail_i = head_i /\ ~Planning
        BY <2>2, <3>2, <3>4
      <4>2. current_block = NoBlock
        BY <4>1, Types
      <4>3. ~Planning'
        BY <2>1, <3>2, <3>4, <4>1, <4>2, PlanningBegins DEF TickerSettled
      <4>4. isr_tail_i' = head_i'
        BY <4>1, QueueGrowsBy DEF ProduceHead, At, Planning, HeadReady
      <4> QED BY <4>3, <4>4
    <3> QED BY <3>3, <3>4
  <2> QED BY <2>3, <2>4, <2>5, <2>6, <2>7, <2>8 DEF Next, Interrupt
<1>3. ASSUME Live', ~Live PROVE isr_tail_i' = head_i' /\ ~Planning'
  BY <1>3, Relives
<1> QED BY <1>1, <1>2, <1>3 DEF FlushInv

-----------------------------------------------------------------------------
(* The count.                                                                 *)

\* What a motor has left in the blocks of ring r from index a to h.
Remaining(a, h, r, m) == Cardinality(Cells(Span(a, h), [i \in Index |-> r[i].todo[m]]))

\* What the planner has counted for the block it has not queued yet.
Planned(m) == IF Planning THEN ring[head_i].steps[m] ELSE 0

AccountInv == Live =>
  /\ current_block # NoBlock =>
       \A m \in Motors : ring[current_block].todo[m] > 0 => moving[m]
  /\ \A i \in Span(isr_tail_i, head_i) : \A m \in Motors : ring[i].todo[m] <= ring[i].steps[m]
  /\ \A m \in Motors : owed[m] = Remaining(isr_tail_i, head_i, ring, m) + Planned(m)

\* The steps of the property are the steps that are counted.
LEMMA RemainingSteps ==
  ASSUME NEW m
  PROVE  Cardinality(QueuedSteps(m)) = Remaining(isr_tail_i, head_i, ring, m)
<1> DEFINE n == [i \in Index |-> ring[i].todo[m]]
           Q == Span(isr_tail_i, head_i)
<1>1. \A i \in Q : n[i] = ring[i].todo[m]
  BY DEF Span
<1> HIDE DEF n
<1>2. Cells(Q, n) = QueuedSteps(m)
  BY <1>1 DEF Cells, QueuedSteps
<1> QED BY <1>2 DEF Remaining, n

\* Only the blocks of the queue matter.
LEMMA RemainingSame ==
  ASSUME NEW a, NEW h, NEW r, NEW q, NEW m, \A i \in Span(a, h) : q[i].todo = r[i].todo
  PROVE  Remaining(a, h, q, m) = Remaining(a, h, r, m)
<1> DEFINE n == [i \in Index |-> r[i].todo[m]]
           p == [i \in Index |-> q[i].todo[m]]
           Q == Span(a, h)
<1>1. \A i \in Q : n[i] = p[i]
  BY DEF Span
<1> HIDE DEF n, p, Q
<1>2. Cells(Q, p) = Cells(Q, n)
  BY <1>1, CellsSame
<1> QED BY <1>2 DEF Remaining, n, p, Q

\* A block at the head that joins the queue adds its steps, and a queue of blocks of at
\* most max steps never holds more than Length * max.
LEMMA RemainingGrows ==
  ASSUME NEW a \in Index, NEW h \in Index, NEW r \in [Index -> Block], NEW m \in Motors
  PROVE  /\ Remaining(a, h, r, m) \in Nat
         /\ a # NextIndex(h) =>
              Remaining(a, NextIndex(h), r, m) = Remaining(a, h, r, m) + r[h].todo[m]
         /\ \A max \in Nat :
              (\A i \in Span(a, h) \cup {h} : r[i].todo[m] <= max)
              => Remaining(a, h, r, m) + r[h].todo[m] <= Length * max
<1> DEFINE n == [i \in Index |-> r[i].todo[m]]
           Q == Span(a, h)
<1>1. n \in [Index -> Nat] /\ n[h] = r[h].todo[m]
  BY DEF Block, Steps
<1>2. Q \in SUBSET Index /\ h \in Index \ Q
  BY SpanEnds DEF Span
<1>3. \A i \in Index : n[i] = r[i].todo[m]
  OBVIOUS
<1> HIDE DEF n, Q
<1>4. Cardinality(Cells(Q, n)) \in Nat
  BY <1>1, <1>2, CellsFinite
<1>5. Cardinality(Cells(Q \cup {h}, n)) = Cardinality(Cells(Q, n)) + n[h]
  BY <1>1, <1>2, CellsAdd
<1>6. a # NextIndex(h) => Span(a, NextIndex(h)) = Q \cup {h}
  BY SpanProduce DEF Q
<1>7. ASSUME NEW max \in Nat, \A i \in Q \cup {h} : r[i].todo[m] <= max
      PROVE  Cardinality(Cells(Q \cup {h}, n)) <= Length * max
  <2>1. Q \cup {h} \in SUBSET Index /\ \A i \in Q \cup {h} : n[i] <= max
    BY <1>2, <1>3, <1>7
  <2> QED BY <1>1, <2>1, CellsBound
<1> QED BY <1>1, <1>4, <1>5, <1>6, <1>7 DEF Remaining, n, Q

\* A step that leaves the queue and the motors alone keeps the count.
LEMMA AccountKept ==
  ASSUME IInv, AccountInv, Live,
         UNCHANGED <<isr_tail_i, head_i, current_block, owed, moving>>,
         \A i \in Span(isr_tail_i, head_i) :
           ring'[i].todo = ring[i].todo /\ ring'[i].steps = ring[i].steps,
         \A m \in Motors : Planned(m)' = Planned(m)
  PROVE  AccountInv'
<1>1. \A m \in Motors : Remaining(isr_tail_i, head_i, ring', m)
                        = Remaining(isr_tail_i, head_i, ring, m)
  BY RemainingSame
<1>2. current_block # NoBlock => current_block \in Span(isr_tail_i, head_i)
  BY Types, Queue
<1>3. \A m \in Motors : owed'[m] = Remaining(isr_tail_i', head_i', ring', m) + Planned(m)'
  BY <1>1 DEF AccountInv
<1> QED BY <1>2, <1>3 DEF AccountInv

\* recalculate() leaves a block that has been taken its steps, if it is not torn.
LEMMA WalkLeavesTicking ==
  ASSUME IInv, WordInv, Walk, NEW i \in Index, ring[i].taken, Untorn(i)
  PROVE  ring'[i].todo = ring[i].todo
<1>1. ring \in [Index -> Block] /\ ti \in Index /\ NextIndex(ti) \in Index
  BY Types
<1>2. CASE Prepare
  <2>1. i # ti
    BY <1>2 DEF Prepare, At, WordInv
  <2> QED BY <1>1, <1>2, <2>1 DEF Prepare
<1>3. CASE ForwardStore \/ LockStore
  <2>1. ASSUME NEW j \in Index, NEW w, SetWord(j, w) PROVE ring'[i].todo = ring[i].todo
    <3> DEFINE b == [ring[j] EXCEPT !.is_ticking = w.is_ticking, !.locked = w.locked,
                                    !.recalculate = w.recalculate]
    <3>1. ring' = [ring EXCEPT ![j] = b] /\ b.todo = ring[j].todo
      BY <1>1, <2>1 DEF SetWord, Block
    <3> HIDE DEF b
    <3> QED BY <1>1, <3>1
  <2> QED BY <1>1, <1>3, <2>1 DEF ForwardStore, LockStore
<1>4. CASE ForwardPass \/ Trapezoid \/ Lock
  BY <1>4 DEF ForwardPass, Trapezoid, Lock
<1> QED BY <1>2, <1>3, <1>4 DEF Walk

\* TIMER0 counts what it steps: nothing is flushed, and no continuous jog runs.
LEMMA TickAccounts ==
  ASSUME ThreadInv, BlockInv, FlushInv, AccountInv, Live, Tick
  PROVE  AccountInv'
<1> USE DEF ThreadInv, BlockInv
<1> DEFINE s == IsrState
           p == [m \in Motors |-> Planned(m)]
<1>1. RingTypes /\ s \in IsrStates /\ InOrder(s) /\ Owned(s)
  BY DEF IInv, IndicesOrdered, RunningBlockOwned, TypeOK, RingType, FlagsType, MotorType,
     ShellType, RingTypes, IsrState, IsrStates, InOrder, Owned
<1>2. /\ s.isr = isr_tail_i /\ s.ring = ring /\ s.flags = flags /\ s.block = current_block
      /\ s.moving = moving /\ s.owed = owed
  BY DEF IsrState
<1>3. s.flags["continuous_mode"] = 0
  BY <1>2, JogSyncs DEF Live, ContInv
<1>4. Unflushed(s)
  BY <1>2 DEF FlushInv, FlushPending, Unflushed
<1>5. p \in [Motors -> Nat] /\ \A m \in Motors : p[m] = Planned(m)
  BY Types DEF Planned, Block, Steps
<1>6. Counted(s, p)
  <2> HIDE DEF s, p
  <2>1. \A m \in Motors : s.owed[m] = Left(s, m) + p[m]
    BY <1>2, <1>5 DEF AccountInv, Left, Todo, Remaining
  <2> QED BY <1>2, <2>1 DEF AccountInv, Counted, Whole
<1>7. PICK S \in SUBSET Motors :
        LET t == StepTick(Begun(s), S)
        IN /\ Due(Begun(s), S)
           /\ isr_tail_i' = t.isr /\ ring' = t.ring /\ flags' = t.flags
           /\ current_block' = t.block /\ moving' = t.moving /\ owed' = t.owed
  BY DEF Tick
<1> DEFINE t == StepTick(Begun(s), S)
<1> HIDE DEF s, p
<1>8. Counted(t, p)
  BY <1>1, <1>3, <1>4, <1>5, <1>6, <1>7, StepTickCounts DEF Live
<1>9. UNCHANGED <<head_i, pc, stack>> /\ \A i \in Index : ring'[i].steps = ring[i].steps
  BY TickFrame
<1>10. \A m \in Motors : Planned(m)' = p[m]
  BY <1>5, <1>9, Types DEF Planned, Planning, HeadReady, OnTop
<1> HIDE DEF t
<1>11. \A m \in Motors : owed'[m] = Remaining(isr_tail_i', head_i', ring', m) + Planned(m)'
  BY <1>7, <1>8, <1>9, <1>10 DEF Counted, Left, Todo, Remaining, t
<1>12. /\ current_block' # NoBlock =>
            \A m \in Motors : ring'[current_block'].todo[m] > 0 => moving'[m]
       /\ \A i \in Span(isr_tail_i', head_i') : \A m \in Motors :
            ring'[i].todo[m] <= ring'[i].steps[m]
  BY <1>7, <1>8, <1>9 DEF Counted, Whole, t
<1> QED BY <1>11, <1>12 DEF AccountInv

\* A new plan: the planner has counted the block before it is queued.
LEMMA PlanAccounts ==
  ASSUME ThreadInv, WholeInv, AccountInv, Live, NEW mv \in MoveSet, Plan(mv),
         UNCHANGED moving,
         NEW max \in Nat, \A v \in MoveSet : \A m \in Motors : v[m] <= max,
         Length * max <= MaxOwed
  PROVE  AccountInv'
<1> USE DEF ThreadInv
<1>1. /\ UNCHANGED <<isr_tail_i, head_i, current_block>>
      /\ \A i \in Index : ring'[i].todo = ring[i].todo
      /\ \A i \in Index \ {head_i} : ring'[i] = ring[i]
      /\ ring'[head_i].steps = mv /\ pc' \in {"trap", "fwd"}
  BY PlanBlocks DEF Plan
<1>2. Planning' /\ ~Planning
  BY <1>1 DEF Plan, Planning, WalkLabels
<1>3. \A m \in Motors : Planned(m)' = mv[m] /\ Planned(m) = 0
  BY <1>1, <1>2 DEF Planned
<1>4. Span(isr_tail_i, head_i) \subseteq Index \ {head_i}
  BY Types, Queue
<1>5. ASSUME NEW m \in Motors
      PROVE  owed'[m] = Remaining(isr_tail_i, head_i, ring, m) + mv[m]
  <2>1. mv[m] \in Nat /\ mv[m] <= max
    BY MotionAssumption
  <2>2. Remaining(isr_tail_i, head_i, ring, m) \in Nat
    BY Types, RemainingGrows
  <2>3. owed[m] = Remaining(isr_tail_i, head_i, ring, m)
    BY <1>3, <2>2 DEF AccountInv
  <2>4. Remaining(isr_tail_i, head_i, ring, m) + mv[m] <= Length * max
    <3> DEFINE b == [ring[head_i] EXCEPT !.todo = mv]
               q == [ring EXCEPT ![head_i] = b]
    <3>1. b \in Block /\ b.todo = mv
      <4>1. ring[head_i] \in Block /\ mv \in Steps
        BY Types, MotionAssumption DEF Steps
      <4> QED BY <4>1 DEF Block
    <3> HIDE DEF b
    <3>2. /\ q \in [Index -> Block] /\ q[head_i].todo = mv
          /\ \A i \in Span(isr_tail_i, head_i) : q[i].todo = ring[i].todo
      BY <1>4, <3>1, Types
    <3> HIDE DEF q
    <3>3. Remaining(isr_tail_i, head_i, q, m) = Remaining(isr_tail_i, head_i, ring, m)
      BY <3>2, RemainingSame
    <3>4. \A i \in Span(isr_tail_i, head_i) : q[i].todo[m] <= max
      <4> TAKE i \in Span(isr_tail_i, head_i)
      <4>1. ring[i] \in Block
        BY <1>4, Types
      <4>2. ring[i].todo[m] \in Nat /\ ring[i].steps[m] \in Nat
        BY <4>1 DEF Block, Steps
      <4>3. ring[i].todo[m] <= ring[i].steps[m] /\ ring[i].steps[m] <= max
        BY DEF AccountInv, WholeInv
      <4> QED BY <3>2, <4>2, <4>3
    <3>5. \A i \in Span(isr_tail_i, head_i) \cup {head_i} : q[i].todo[m] <= max
      BY <2>1, <3>2, <3>4
    <3>6. Remaining(isr_tail_i, head_i, q, m) + q[head_i].todo[m] <= Length * max
      BY <3>2, <3>5, Types, RemainingGrows
    <3> QED BY <3>2, <3>3, <3>6
  <2>5. owed'[m] = Sat(owed[m] + mv[m])
    BY DEF Plan, PlanBlock
  <2>6. Length * max \in Nat
    BY LengthAssumption
  <2>7. Sat(owed[m] + mv[m]) = owed[m] + mv[m]
    BY <2>1, <2>2, <2>3, <2>4, <2>6, MotionAssumption DEF Sat
  <2> QED BY <2>3, <2>5, <2>7
<1>6. /\ \A i \in Span(isr_tail_i, head_i) : ring'[i].todo = ring[i].todo
      /\ \A i \in Span(isr_tail_i, head_i) : ring'[i].steps = ring[i].steps
  BY <1>1, <1>4
<1>7. \A m \in Motors : Remaining(isr_tail_i, head_i, ring', m)
                        = Remaining(isr_tail_i, head_i, ring, m)
  BY <1>6, RemainingSame
<1>8. \A m \in Motors : owed'[m] = Remaining(isr_tail_i', head_i', ring', m) + Planned(m)'
  BY <1>1, <1>3, <1>5, <1>7
<1>9. current_block # NoBlock => current_block \in Index
  BY Types
<1> QED BY <1>1, <1>6, <1>8, <1>9 DEF AccountInv

\* A block that joins the queue takes its steps with it.
LEMMA ProduceAccounts ==
  ASSUME ThreadInv, WholeInv, AccountInv, Live, ProduceHead
  PROVE  AccountInv'
<1> USE DEF ThreadInv
<1>1. /\ UNCHANGED <<isr_tail_i, current_block, ring, owed, moving>>
      /\ head_i' = NextIndex(head_i) /\ isr_tail_i # NextIndex(head_i)
      /\ Span(isr_tail_i, head_i') = Span(isr_tail_i, head_i) \cup {head_i}
      /\ Planning /\ Prepared /\ ~Planning'
  BY ProduceBlocks DEF Planning, Prepared, WalkLabels, ProduceHead, MotionKept
<1>2. ring[head_i].todo = ring[head_i].steps
  BY <1>1 DEF WholeInv
<1>3. \A m \in Motors : ring[head_i].todo[m] \in Nat
  BY Types DEF Block, Steps
<1>4. \A m \in Motors : owed'[m] = Remaining(isr_tail_i', head_i', ring', m) + Planned(m)'
  <2> TAKE m \in Motors
  <2>1. /\ Remaining(isr_tail_i, head_i, ring, m) \in Nat
        /\ Remaining(isr_tail_i, head_i', ring, m)
           = Remaining(isr_tail_i, head_i, ring, m) + ring[head_i].todo[m]
    BY <1>1, Types, RemainingGrows
  <2>2. owed[m] = Remaining(isr_tail_i, head_i, ring, m) + ring[head_i].steps[m]
    BY <1>1 DEF AccountInv, Planned
  <2>3. Planned(m)' = 0
    BY <1>1 DEF Planned
  <2> QED BY <1>1, <1>2, <1>3, <2>1, <2>2, <2>3
<1>5. \A i \in Span(isr_tail_i', head_i') : \A m \in Motors : ring'[i].todo[m] <= ring'[i].steps[m]
  BY <1>1, <1>2, <1>3 DEF AccountInv
<1> QED BY <1>1, <1>4, <1>5 DEF AccountInv

\* Where the planner takes its position from the motors nothing is left in the queue.
LEMMA SyncAccounts ==
  ASSUME ThreadInv, BlockInv, HaltInv, IInv', Next, Live', ~Live
  PROVE  AccountInv'
<1>1. /\ SyncPosition /\ UNCHANGED <<isr_tail_i, head_i, current_block>>
      /\ isr_tail_i = head_i /\ ~Planning'
  BY Relives
<1>2. Span(isr_tail_i', head_i') = {} /\ current_block' = NoBlock
  BY <1>1, Types, SpanEnds DEF ThreadInv
<1>3. \A m : Remaining(isr_tail_i', head_i', ring', m) = 0
  <2>1. \A n : Cells({}, n) = {}
    BY DEF Cells
  <2> QED BY <1>2, <2>1, FS_EmptySet DEF Remaining
<1>4. \A m \in Motors : owed'[m] = 0 /\ Planned(m)' = 0
  BY <1>1 DEF SyncPosition, Planned
<1> QED BY <1>2, <1>3, <1>4 DEF AccountInv

\* No block in the ring has been taken out of the thread's hand.
NoneTorn == \A i \in Index : Untorn(i)

\* The count is kept by every step.
LEMMA AccountStep ==
  ASSUME ThreadInv, BlockInv, NoneTorn, WholeInv, HaltInv, FlushInv, AccountInv, IInv', Next,
         NEW max \in Nat, \A mv \in MoveSet : \A m \in Motors : mv[m] <= max,
         Length * max <= MaxOwed
  PROVE  AccountInv'
<1> USE DEF ThreadInv, BlockInv
<1>1. CASE ~Live'
  BY <1>1 DEF AccountInv
<1>2. CASE Live' /\ ~Live
  BY <1>2, SyncAccounts
<1>3. CASE Live' /\ Live /\ Tick
  BY <1>3, TickAccounts
<1>4. CASE Live' /\ Live /\ (MainMove \/ JogMove)
  <2>0. PICK mv \in MoveSet : PlanBlock(mv)
    BY <1>4 DEF MainMove, JogMove
  <2>1. UNCHANGED moving /\ nextId' # nextId
    BY <2>0 DEF PlanBlock, IInv, TypeOK, ShellType
  <2>2. \E v \in MoveSet : Plan(v)
    BY <1>4, <2>1, StepKinds, TickFrame, WalkBlocks, ReadyBlocks, RefuseBlocks, ProduceBlocks,
       CollectBlocks DEF Quiet
  <2> QED BY <1>4, <2>1, <2>2, PlanAccounts
<1>5. CASE Live' /\ Live /\ ~Tick /\ ~MainMove /\ ~JogMove
  <2>1. ~LimitHit /\ ~HaltMotors /\ ~SyncPosition
    BY <1>5 DEF Live, LimitHit, HaltMotors, At, HaltInv, SyncPosition, SyncComing, SyncLabels
  <2>2. UNCHANGED <<owed, moving>>
    BY <1>5, <2>1, MotorWriters
  <2>3. Span(isr_tail_i, head_i) \subseteq Index \ {head_i}
    BY Types, Queue
  <2>5. CASE Walk
    <3>1. Planning /\ Planning'
      BY <2>5, WalkBlocks DEF Planning
    <3>2. \A i \in Index : ring'[i].steps = ring[i].steps
      BY <2>5, WalkBlocks
    <3>3. \A i \in Span(isr_tail_i, head_i) : ring'[i].todo = ring[i].todo
      BY <2>3, <2>5, WalkBlocks, WalkLeavesTicking DEF WholeInv, NoneTorn
    <3>4. \A m \in Motors : Planned(m)' = Planned(m)
      BY <2>5, <3>1, <3>2, WalkBlocks, Types DEF Planned
    <3> QED BY <1>5, <2>2, <2>3, <2>5, <3>2, <3>3, <3>4, WalkBlocks, AccountKept
  <2>6. CASE Ready
    <3>1. Planning /\ Planning'
      BY <2>6, ReadyBlocks DEF Planning, WalkLabels, HeadReady
    <3>2. \A m \in Motors : Planned(m)' = Planned(m)
      BY <2>6, <3>1, ReadyBlocks, Types DEF Planned
    <3> QED BY <1>5, <2>2, <2>3, <2>6, <3>2, ReadyBlocks, AccountKept
  <2>7. CASE QueueRefuse
    BY <1>5, <2>7, RefuseBlocks DEF Live
  <2>8. CASE ProduceHead
    BY <1>5, <2>8, ProduceAccounts
  <2>9. CASE IdleCollect
    <3>1. /\ Planning' <=> Planning
          /\ \A i \in Span(isr_tail_i, head_i) \cup {head_i} : ring'[i] = ring[i]
          /\ UNCHANGED <<head_i, isr_tail_i, current_block>>
      BY <2>3, <2>9, CollectBlocks, Types DEF Planning, WalkLabels
    <3>2. \A m \in Motors : Planned(m)' = Planned(m)
      BY <3>1 DEF Planned
    <3> QED BY <1>5, <2>2, <3>1, <3>2, AccountKept
  <2>10. CASE \E mv \in MoveSet : Plan(mv)
    BY <1>5, <2>10, Planners DEF Plan
  <2>11. CASE Quiet
    <3>1. /\ Planning' <=> Planning
          /\ UNCHANGED <<head_i, isr_tail_i, current_block, ring>>
      BY <2>11 DEF Quiet, Planning, ringVars
    <3>2. \A m \in Motors : Planned(m)' = Planned(m)
      BY <3>1 DEF Planned
    <3> QED BY <1>5, <2>2, <3>1, <3>2, AccountKept
  <2> QED BY <1>5, <2>5, <2>6, <2>7, <2>8, <2>9, <2>10, <2>11, StepKinds
<1> QED BY <1>1, <1>2, <1>3, <1>4, <1>5

PositionInv == WholeInv /\ HaltInv /\ FlushInv /\ AccountInv

\* At first nothing is queued, owed or under way.
LEMMA InitPosition ==
  ASSUME Init
  PROVE  PositionInv
<1>1. /\ IInv /\ head_i = 0 /\ isr_tail_i = 0 /\ Span(isr_tail_i, head_i) = {}
      /\ pc = "loop" /\ stack = <<>> /\ ops = <<>> /\ reg = <<>>
      /\ current_block = NoBlock /\ ~halted
  BY InitSafe, SpanEnds DEF Init, IInv, TypeOK, RingType
<1>2. ~HeadReady /\ ~Planning /\ ~Prepared /\ ~OnTop("qhb")
  BY <1>1 DEF HeadReady, OnTop, Planning, Prepared, WalkLabels
<1>3. WholeInv /\ HaltInv /\ FlushInv
  BY <1>1, <1>2 DEF WholeInv, HaltInv, FlushInv
<1>4. AccountInv
  <2>1. \A m : Remaining(isr_tail_i, head_i, ring, m) = 0
    <3>1. \A n : Cells({}, n) = {}
      BY DEF Cells
    <3> QED BY <1>1, <3>1, FS_EmptySet DEF Remaining
  <2>2. \A m \in Motors : owed[m] = 0 /\ Planned(m) = 0
    BY <1>2 DEF Init, Planned
  <2> QED BY <1>1, <2>1, <2>2 DEF AccountInv
<1> QED BY <1>3, <1>4 DEF PositionInv

\* As long as the ticker takes no block out of the thread's hand, the planner and the
\* motors agree between commands on where the queue will end, for every ring, every set
\* of motors and moves and every choice of commands, if the bound of owed is one that no
\* queue reaches.
THEOREM PositionIsAccounted ==
  ASSUME NEW max \in Nat, \A mv \in MoveSet : \A m \in Motors : mv[m] <= max,
         Length * max <= MaxOwed
  PROVE  Spec /\ []NoneTorn => []PositionAccounted
<1>1. ThreadInv /\ BlockInv /\ NoneTorn /\ PositionInv /\ ThreadInv' /\ [Next]_vars
        => PositionInv'
  <2> SUFFICES ASSUME ThreadInv, BlockInv, NoneTorn, PositionInv, ThreadInv', [Next]_vars
               PROVE  PositionInv'
    OBVIOUS
  <2>1. CASE Next
    <3>1. WholeInv /\ HaltInv /\ FlushInv /\ AccountInv /\ IInv'
      BY DEF PositionInv, ThreadInv
    <3> QED BY <2>1, <3>1, WholeStep, HaltStep, FlushStep, AccountStep DEF PositionInv
  <2>2. CASE UNCHANGED vars
    <3>1. UNCHANGED <<head_i, isr_tail_i, ring, flags, halted, current_block, moving, owed,
                      pc, stack, ops, reg, limit>>
      BY <2>2 DEF vars, ringVars, motorVars, threadVars, shellVars
    <3>2. WholeInv' /\ HaltInv'
      BY <3>1 DEF PositionInv, WholeInv, HaltInv, Planning, Prepared, HeadReady, OnTop, Flushing
    <3>3. Live' <=> Live
      BY <3>1 DEF Live, SyncComing
    <3>4. FlushInv'
      BY <3>1, <3>3 DEF PositionInv, FlushInv, FlushPending, Planning, HeadReady, OnTop
    <3>5. \A m \in Motors : Planned(m)' = Planned(m)
      BY <3>1 DEF Planned, Planning, HeadReady, OnTop
    <3>6. AccountInv'
      BY <3>1, <3>3, <3>5 DEF PositionInv, AccountInv
    <3> QED BY <3>2, <3>4, <3>6 DEF PositionInv
  <2> QED BY <2>1, <2>2
<1>2. ThreadInv /\ BlockInv /\ PositionInv => PositionAccounted
  <2> SUFFICES ASSUME ThreadInv, BlockInv, PositionInv, At("loop"), ~halted, NEW m \in Motors
               PROVE  owed[m] = Sat(Cardinality(QueuedSteps(m)))
    BY DEF PositionAccounted
  <2>1. pc = "loop" /\ stack = <<>>
    BY Types DEF At, ThreadInv
  <2>2. Live /\ ~Planning
    BY <2>1 DEF Live, SyncComing, SyncLabels, Planning, WalkLabels, HeadReady, OnTop
  <2>3. Remaining(isr_tail_i, head_i, ring, m) \in Nat
    BY Types, RemainingGrows DEF ThreadInv
  <2>4. owed[m] = Remaining(isr_tail_i, head_i, ring, m)
    BY <2>2, <2>3 DEF PositionInv, AccountInv, Planned
  <2>5. owed[m] \in -MaxOwed .. MaxOwed
    BY DEF ThreadInv, IInv, TypeOK, MotorType
  <2>6. Sat(owed[m]) = owed[m]
    BY <2>5, MotionAssumption DEF Sat
  <2> QED BY <2>4, <2>6, RemainingSteps
<1> QED BY <1>1, <1>2, InitPosition, BlockInvariant, PTL DEF Spec
=============================================================================
