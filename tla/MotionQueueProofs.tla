------------------------- MODULE MotionQueueProofs -------------------------
(***************************************************************************)
(* The invariants of MotionQueue, for every length of the ring, every set  *)
(* of motors and moves and every choice of commands.  First the ring: what *)
(* moving one of its indices does to their order.  Then the interrupt, as  *)
(* lemmas about the functions step_tick is made of; then the thread's      *)
(* stack; then one lemma for each group of the thread's steps.             *)
(***************************************************************************)
EXTENDS MotionQueue, SequenceTheorems, TLAPS

(***************************************************************************)
(* The ring                                                                *)
(***************************************************************************)

\* The next index is an index, and the previous one undoes it.
LEMMA NextIndexType ==
  ASSUME NEW i \in Index
  PROVE  NextIndex(i) \in Index /\ PrevIndex(NextIndex(i)) = i /\ NextIndex(i) # i
BY LengthAssumption DEF Index, NextIndex, PrevIndex

\* A distance is a number below Length, and 0 only from an index to itself.
LEMMA DistType ==
  ASSUME NEW a \in Index, NEW b \in Index
  PROVE  Dist(a, b) \in 0 .. Length - 1 /\ (Dist(a, b) = 0 <=> a = b)
BY LengthAssumption DEF Index, Dist

\* produce_head: an index that is not ahead of the head is not reached by it.
LEMMA OrderedProduce ==
  ASSUME NEW a \in Index, NEW b \in Index, NEW c \in Index,
         Ordered(a, b, c), ~IsFull(c, a)
  PROVE  Ordered(a, b, NextIndex(c)) /\ b # NextIndex(c)
BY LengthAssumption DEF Index, Ordered, Dist, NextIndex, IsFull

\* consume_tail
LEMMA OrderedConsume ==
  ASSUME NEW a \in Index, NEW b \in Index, NEW c \in Index,
         Ordered(a, b, c), a # b
  PROVE  Ordered(NextIndex(a), b, c)
BY LengthAssumption DEF Index, Ordered, Dist, NextIndex

\* block_finished
LEMMA OrderedRetire ==
  ASSUME NEW a \in Index, NEW b \in Index, NEW c \in Index,
         Ordered(a, b, c), b # c
  PROVE  Ordered(a, NextIndex(b), c)
BY LengthAssumption DEF Index, Ordered, Dist, NextIndex

\* A flush moves the middle index to the last one.
LEMMA OrderedFlush ==
  ASSUME NEW a \in Index, NEW c \in Index
  PROVE  Ordered(a, c, c)
BY LengthAssumption DEF Index, Ordered, Dist

\* A retirement takes the first index out of what lies before the head.
LEMMA SpanRetire ==
  ASSUME NEW a \in Index, NEW b \in Index, a # b
  PROVE  a \in Span(a, b) /\ Span(NextIndex(a), b) = Span(a, b) \ {a}
BY LengthAssumption DEF Index, Span, Dist, NextIndex

\* produce_head adds the old head to it.
LEMMA SpanProduce ==
  ASSUME NEW a \in Index, NEW b \in Index, NextIndex(b) # a
  PROVE  Span(a, NextIndex(b)) = Span(a, b) \cup {b}
BY LengthAssumption DEF Index, Span, Dist, NextIndex

\* The head is not in it, and nothing is before the head once the tail is there.
LEMMA SpanEnds ==
  ASSUME NEW a \in Index, NEW b \in Index
  PROVE  b \notin Span(a, b) /\ Span(b, b) = {}
BY LengthAssumption DEF Index, Span, Dist

\* The index of the interrupt splits the queue in two parts without a common block.
LEMMA SpanSplit ==
  ASSUME NEW a \in Index, NEW b \in Index, NEW c \in Index, Ordered(a, b, c)
  PROVE  /\ Span(a, c) = Span(a, b) \cup Span(b, c)
         /\ Span(a, b) \cap Span(b, c) = {}
BY LengthAssumption DEF Index, Ordered, Span, Dist

-----------------------------------------------------------------------------
(***************************************************************************)
(* The interrupt                                                           *)
(***************************************************************************)

\* The part of the state TIMER0 changes, and what must hold of it.
IsrStates ==
  [isr : Index, ring : [Index -> Block], flags : Byte, block : Index \cup {NoBlock},
   moving : [Motors -> BOOLEAN], owed : [Motors -> -MaxOwed .. MaxOwed]]

InOrder(s) == Ordered(tail_i, s.isr, head_i)
Owned(s) == s.block # NoBlock => s.block = s.isr /\ s.isr # head_i

RingTypes == head_i \in Index /\ tail_i \in Index /\ saved \in Steps

\* The saturated difference of positions stays within its bound.
LEMMA SatType == \A n \in Int : Sat(n) \in -MaxOwed .. MaxOwed
BY MotionAssumption DEF Sat

\* A flush at the head of get_next_block keeps the types and the order.
LEMMA FlushedSafe ==
  ASSUME RingTypes, NEW s \in IsrStates, InOrder(s)
  PROVE  /\ Flushed(s) \in IsrStates
         /\ InOrder(Flushed(s))
<1>1. CASE s.flags["flush"] = 1
  <2>1. [s.flags EXCEPT !["flush"] = 0] \in Byte
    BY DEF IsrStates, Byte, Flag
  <2>2. Flushed(s) = [s EXCEPT !.isr = head_i, !.flags = [s.flags EXCEPT !["flush"] = 0]]
    BY <1>1 DEF Flushed, IsrStates
  <2>3. Flushed(s) \in IsrStates /\ Flushed(s).isr = head_i
    BY <2>1, <2>2 DEF IsrStates, RingTypes
  <2> QED BY <2>3, OrderedFlush DEF InOrder, RingTypes
<1>2. CASE s.flags["flush"] # 1
  BY <1>2 DEF Flushed
<1> QED BY <1>1, <1>2

\* Taking a block (get_next_block) changes that block only.
LEMMA TakenSafe ==
  ASSUME RingTypes, NEW s \in IsrStates, InOrder(s)
  PROVE  Taken(s) \in IsrStates /\ InOrder(Taken(s)) /\ Taken(s).isr = s.isr
<1> DEFINE b == [s.ring[s.isr] EXCEPT !.is_ticking = TRUE, !.recalculate = FALSE,
                                      !.todo = TickInfo(s), !.taken = TRUE,
                                      !.torn = s.ring[s.isr].torn \/ InHand(s.isr)]
<1>1. s.isr \in Index /\ s.ring \in [Index -> Block]
  BY DEF IsrStates
<1>2. TickInfo(s) \in Steps
  BY <1>1 DEF TickInfo, Block, Steps, RingTypes
<1>3. b \in Block
  <2>1. (s.ring[s.isr].torn \/ InHand(s.isr)) \in BOOLEAN /\ s.ring[s.isr] \in Block
    BY <1>1
  <2> QED BY <1>2, <2>1 DEF Block
<1>4. Taken(s) = [s EXCEPT !.ring = [s.ring EXCEPT ![s.isr] = b]]
  BY DEF Taken, IsrStates
<1>5. [s.ring EXCEPT ![s.isr] = b] \in [Index -> Block]
  BY <1>1, <1>3
<1>6. Taken(s) \in IsrStates /\ Taken(s).isr = s.isr
  BY <1>4, <1>5 DEF IsrStates
<1> QED BY <1>6 DEF InOrder

\* block_finished moves the interrupt's tail by one, which needs a queued block.
LEMMA BlockFinishedSafe ==
  ASSUME RingTypes, NEW s \in IsrStates, InOrder(s), s.isr # head_i
  PROVE  BlockFinished(s) \in IsrStates /\ InOrder(BlockFinished(s))
<1>1. CASE s.flags["continuous_mode"] <= 1
  <2> DEFINE c == IF s.flags["continuous_mode"] = 1 THEN 2
                  ELSE s.flags["continuous_mode"]
  <2>1. [s.flags EXCEPT !["continuous_mode"] = c] \in Byte
    BY DEF IsrStates, Byte, Flag
  <2>2. BlockFinished(s) =
          [s EXCEPT !.isr = NextIndex(s.isr),
                    !.flags = [s.flags EXCEPT !["continuous_mode"] = c]]
    BY <1>1 DEF BlockFinished, IsrStates
  <2>3. s.isr \in Index /\ NextIndex(s.isr) \in Index
    BY NextIndexType DEF IsrStates
  <2>4. BlockFinished(s) \in IsrStates /\ BlockFinished(s).isr = NextIndex(s.isr)
    BY <2>1, <2>2, <2>3 DEF IsrStates
  <2> QED BY <2>3, <2>4, OrderedRetire DEF InOrder, RingTypes
<1>2. CASE ~(s.flags["continuous_mode"] <= 1)
  BY <1>2 DEF BlockFinished
<1> QED BY <1>1, <1>2

\* start_next_block runs the block at the interrupt's tail or discards it.
LEMMA StartNextBlockSafe ==
  ASSUME RingTypes, NEW s \in IsrStates, InOrder(s), s.isr # head_i
  PROVE  /\ StartNextBlock(s, s.isr) \in IsrStates
         /\ InOrder(StartNextBlock(s, s.isr))
         /\ Owned(StartNextBlock(s, s.isr))
<1>1. CASE Active(s, s.isr) = {}
  <2> DEFINE f == BlockFinished(s)
  <2>1. f \in IsrStates /\ InOrder(f)
    BY BlockFinishedSafe
  <2>2. StartNextBlock(s, s.isr) = [f EXCEPT !.block = NoBlock]
    BY <1>1 DEF StartNextBlock
  <2> QED BY <2>1, <2>2 DEF IsrStates, InOrder, Owned
<1>2. CASE Active(s, s.isr) # {}
  <2> DEFINE mv == [m \in Motors |-> m \in Active(s, s.isr) \/ s.moving[m]]
  <2>1. StartNextBlock(s, s.isr) = [s EXCEPT !.block = s.isr, !.moving = mv]
    BY <1>2 DEF StartNextBlock, IsrStates
  <2>2. mv \in [Motors -> BOOLEAN]
    BY ZenonT(20)
  <2> QED BY <2>1, <2>2 DEF IsrStates, InOrder, Owned
<1> QED BY <1>1, <1>2

\* get_next_block and start_next_block together, from any state in order.
LEMMA NextBlockSafe ==
  ASSUME RingTypes, NEW s \in IsrStates, InOrder(s)
  PROVE  /\ NextBlock(s) \in IsrStates
         /\ InOrder(NextBlock(s))
         /\ Owned(NextBlock(s))
<1> DEFINE f == Flushed(s)
<1>1. f \in IsrStates /\ InOrder(f)
  BY FlushedSafe
<1>2. CASE s.flags["hold_queue"] = 1
  BY <1>2 DEF NextBlock, IsrStates, InOrder, Owned
<1>3. CASE s.flags["hold_queue"] # 1 /\ MayFetch(f)
  <2>1. Taken(f) \in IsrStates /\ InOrder(Taken(f)) /\ Taken(f).isr = f.isr
    BY <1>1, TakenSafe
  <2>2. f.isr # head_i
    BY <1>3 DEF MayFetch
  <2>3. NextBlock(s) = StartNextBlock(Taken(f), Taken(f).isr)
    BY <1>3, <2>1 DEF NextBlock
  <2> QED BY <2>1, <2>2, <2>3, StartNextBlockSafe
<1>4. CASE s.flags["hold_queue"] # 1 /\ ~MayFetch(f)
  <2>1. NextBlock(s) = [f EXCEPT !.block = NoBlock]
    BY <1>4 DEF NextBlock
  <2> QED BY <1>1, <2>1 DEF IsrStates, InOrder, Owned
<1> QED BY <1>2, <1>3, <1>4

\* A step of some motors changes no index, and a motor that is due has steps left.
LEMMA SteppedSafe ==
  ASSUME RingTypes, NEW s \in IsrStates, InOrder(s),
         s.block # NoBlock, NEW S, S \subseteq Active(s, s.block)
  PROVE  /\ Stepped(s, S) \in IsrStates
         /\ Stepped(s, S).isr = s.isr /\ Stepped(s, S).block = s.block
<1> DEFINE i == s.block
           last(m) == ~s.moving[m] \/ s.ring[i].todo[m] = 1
           todo == [m \in Motors |-> IF m \notin S THEN s.ring[i].todo[m]
                                     ELSE IF last(m) THEN 0 ELSE s.ring[i].todo[m] - 1]
           mv == [m \in Motors |-> s.moving[m] /\ ~(m \in S /\ last(m))]
           ow == [m \in Motors |-> IF m \in S THEN Sat(s.owed[m] - 1) ELSE s.owed[m]]
           b == [s.ring[i] EXCEPT !.todo = todo]
<1>1. i \in Index /\ s.ring \in [Index -> Block] /\ s.ring[i] \in Block
  BY DEF IsrStates
<1>2. s.ring[i].todo \in Steps /\ \A m \in S : m \in Motors /\ s.ring[i].todo[m] > 0
  BY <1>1 DEF Active, Block
<1>3. todo \in Steps
  <2> HIDE DEF last
  <2> QED BY <1>2 DEF Steps
<1>4. b \in Block
  BY <1>1, <1>3 DEF Block
<1>5. mv \in [Motors -> BOOLEAN]
  BY ZenonT(20)
<1>6. ow \in [Motors -> -MaxOwed .. MaxOwed]
  BY SatType, MotionAssumption DEF IsrStates
<1>7. Stepped(s, S) = [s EXCEPT !.ring = [s.ring EXCEPT ![i] = b], !.moving = mv, !.owed = ow]
  BY <1>1 DEF Stepped, IsrStates
<1>8. [s.ring EXCEPT ![i] = b] \in [Index -> Block]
  BY <1>1, <1>4
<1> HIDE DEF b, mv, ow
<1> QED BY <1>5, <1>6, <1>7, <1>8 DEF IsrStates

\* A whole TIMER0 interrupt keeps types, order and ownership.
LEMMA StepTickSafe ==
  ASSUME RingTypes, NEW s0 \in IsrStates, InOrder(s0), Owned(s0),
         NEW S, Due(Begun(s0), S)
  PROVE  /\ StepTick(Begun(s0), S) \in IsrStates
         /\ InOrder(StepTick(Begun(s0), S))
         /\ Owned(StepTick(Begun(s0), S))
<1> DEFINE s == Begun(s0)
<1>1. s \in IsrStates /\ InOrder(s) /\ Owned(s)
  BY NextBlockSafe DEF Begun
<1>2. CASE s.block = NoBlock
  BY <1>1, <1>2 DEF StepTick
<1>3. CASE s.block # NoBlock /\ halted
  BY <1>1, <1>3 DEF StepTick, IsrStates, InOrder, Owned
<1>4. CASE s.block # NoBlock /\ ~halted
  <2> DEFINE t == Stepped(s, S)
  <2>1. S \subseteq Active(s, s.block)
    BY <1>4 DEF Due
  <2>2. t \in IsrStates /\ t.isr = s.isr /\ t.block = s.block
    BY <1>1, <1>4, <2>1, SteppedSafe
  <2>3. InOrder(t) /\ Owned(t) /\ t.isr # head_i
    BY <1>1, <1>4, <2>2 DEF InOrder, Owned
  <2>4. BlockFinished(t) \in IsrStates /\ InOrder(BlockFinished(t))
    BY <2>2, <2>3, BlockFinishedSafe
  <2>5. /\ NextBlock(BlockFinished(t)) \in IsrStates
        /\ InOrder(NextBlock(BlockFinished(t)))
        /\ Owned(NextBlock(BlockFinished(t)))
    BY <2>4, NextBlockSafe
  <2>6. StepTick(s, S) = t \/ StepTick(s, S) = NextBlock(BlockFinished(t))
    BY <1>4 DEF StepTick, RunBlock
  <2> QED BY <2>2, <2>3, <2>5, <2>6
<1> QED BY <1>2, <1>3, <1>4

-----------------------------------------------------------------------------
(* Steps of the thread: the stack, and the parts of the state a step leaves. *)

Target == Labels \ {"loop"}

\* A jump keeps the stack.
LEMMA GotoSafe ==
  ASSUME StackType, StackEnds, pc # "loop", NEW l \in Target, Goto(l)
  PROVE  StackType' /\ StackEnds'
BY DEF StackType, StackEnds, Goto, Target

\* What a call does to the stack, frame by frame.
LEMMA FramesOfCall ==
  ASSUME NEW s \in Seq(Labels), NEW ret \in Labels
  PROVE  /\ <<ret>> \o s \in Seq(Labels) /\ <<ret>> \o s # <<>>
         /\ Len(<<ret>> \o s) = Len(s) + 1
         /\ (<<ret>> \o s)[1] = ret
         /\ \A i \in 2 .. Len(s) + 1 : (<<ret>> \o s)[i] = s[i - 1]
OBVIOUS

\* A call from the main loop returns there, any other call returns elsewhere.
LEMMA CallSafe ==
  ASSUME StackType, StackEnds, NEW l \in Target, NEW ret \in Labels, Call(l, ret),
         pc = "loop" <=> ret = "loop"
  PROVE  StackType' /\ StackEnds'
<1>1. StackType'
  BY FramesOfCall DEF StackType, Call, Target
<1>2. Len(stack') = Len(stack) + 1 /\ Len(stack) \in Nat
  BY FramesOfCall DEF StackType, Call
<1>3. ASSUME NEW i \in 1 .. Len(stack') PROVE stack'[i] = "loop" <=> i = Len(stack')
  <2>1. CASE i = 1
    <3>1. stack'[i] = ret
      BY <2>1, FramesOfCall DEF StackType, Call
    <3>2. ret = "loop" <=> Len(stack) = 0
      BY DEF StackEnds, StackType
    <3> QED BY <1>2, <2>1, <3>1, <3>2
  <2>2. CASE i # 1
    <3>1. i - 1 \in 1 .. Len(stack) /\ i \in 2 .. Len(stack) + 1
      BY <1>2, <2>2
    <3>2. stack'[i] = stack[i - 1]
      BY <3>1, FramesOfCall DEF StackType, Call
    <3>3. stack[i - 1] = "loop" <=> i - 1 = Len(stack)
      BY <3>1 DEF StackEnds
    <3> QED BY <1>2, <3>1, <3>2, <3>3
  <2> QED BY <2>1, <2>2
<1>4. pc' # "loop" /\ stack' # <<>>
  BY FramesOfCall DEF StackType, Call, Target
<1> QED BY <1>1, <1>3, <1>4 DEF StackEnds

\* What a return does to the stack, frame by frame.
LEMMA FramesOfReturn ==
  ASSUME NEW s \in Seq(Labels), s # <<>>
  PROVE  /\ Head(s) = s[1] /\ Head(s) \in Labels /\ Tail(s) \in Seq(Labels)
         /\ Len(s) \in Nat \ {0} /\ Len(Tail(s)) = Len(s) - 1
         /\ Tail(s) = <<>> <=> Len(s) = 1
         /\ \A i \in 1 .. Len(s) - 1 : Tail(s)[i] = s[i + 1]
<1>1. Len(s) \in Nat \ {0} /\ Head(s) = s[1] /\ Head(s) \in Labels
  OBVIOUS
<1>2. Tail(s) \in Seq(Labels) /\ Len(Tail(s)) = Len(s) - 1
  OBVIOUS
<1>3. Tail(s) = <<>> <=> Len(s) = 1
  BY <1>1, <1>2, EmptySeq
<1>4. \A i \in 1 .. Len(s) - 1 : Tail(s)[i] = s[i + 1]
  BY <1>1, <1>2
<1> QED BY <1>1, <1>2, <1>3, <1>4

\* A return comes from a call, so the stack is not empty.
LEMMA ReturnSafe ==
  ASSUME StackType, StackEnds, pc # "loop", Return
  PROVE  StackType' /\ StackEnds'
<1>1. stack \in Seq(Labels) /\ stack # <<>>
  BY DEF StackType, StackEnds
<1>2. StackType'
  BY <1>1, FramesOfReturn DEF StackType, Return
<1>3. pc' = "loop" <=> stack' = <<>>
  BY <1>1, FramesOfReturn DEF StackEnds, Return
<1>4. ASSUME NEW i \in 1 .. Len(stack') PROVE stack'[i] = "loop" <=> i = Len(stack')
  <2>1. Len(stack) \in Nat /\ Len(stack') = Len(stack) - 1
    BY <1>1, FramesOfReturn DEF Return
  <2>2. i + 1 \in 1 .. Len(stack) /\ stack'[i] = stack[i + 1]
    BY <1>1, <2>1, FramesOfReturn DEF Return
  <2>3. stack[i + 1] = "loop" <=> i + 1 = Len(stack)
    BY <2>2 DEF StackEnds
  <2> QED BY <2>1, <2>2, <2>3
<1> QED BY <1>2, <1>3, <1>4 DEF StackEnds

\* A step of an interrupt leaves the thread where it is.
LEMMA StackKept ==
  ASSUME StackType, StackEnds, UNCHANGED <<pc, stack>>
  PROVE  StackType' /\ StackEnds'
BY DEF StackType, StackEnds

-----------------------------------------------------------------------------
(* The inductive invariant.  The types are part of it: the order of the     *)
(* indices is a fact about indices, and a return goes where the stack says. *)

IInv == TypeOK /\ IndicesOrdered /\ RunningBlockOwned

\* A step that moves no index and starts no block keeps the invariant if it
\* keeps the types.
LEMMA StillQueue ==
  ASSUME IInv, UNCHANGED <<head_i, tail_i, isr_tail_i, current_block>>, TypeOK'
  PROVE  IInv'
BY DEF IInv, IndicesOrdered, RunningBlockOwned

\* What the thread may change in a step that moves no index.
LEMMA StepSafe ==
  ASSUME IInv, ThreadKeeps, UNCHANGED <<head_i, tail_i>>, StackType', StackEnds',
         ring' \in [Index -> Block], ti' \in Index, word' \in Word,
         nextId' \in 1 .. MaxBlocks + 1, ops' \in Seq(Op), elapsed' \in BOOLEAN,
         halted' \in BOOLEAN, moving' \in [Motors -> BOOLEAN],
         owed' \in [Motors -> -MaxOwed .. MaxOwed], stop_request' \in BOOLEAN,
         limit' \in [triggered : BOOLEAN, halt : BOOLEAN]
  PROVE  IInv'
<1>1. RingType' /\ WalkType'
  BY DEF IInv, TypeOK, RingType, WalkType, ThreadKeeps
<1>2. FlagsType'
  BY DEF IInv, TypeOK, FlagsType, ThreadKeeps
<1>3. MotorType' /\ ShellType'
  BY DEF IInv, TypeOK, MotorType, ShellType, ThreadKeeps
<1> QED BY <1>1, <1>2, <1>3, StillQueue DEF TypeOK, ThreadKeeps

\* A step that changes only where the thread is, ops and elapsed.
LEMMA QuietSafe ==
  ASSUME IInv, ThreadKeeps, RingKept, MotionKept, StackType', StackEnds',
         ops' \in Seq(Op), elapsed' \in BOOLEAN
  PROVE  IInv'
BY StepSafe DEF IInv, TypeOK, RingType, WalkType, MotorType, ShellType, RingKept, MotionKept

\* Whatever a step writes to flags is a write of a flag.
LEMMA WriteType ==
  ASSUME IInv
  PROVE  /\ NoWrite => ops' \in Seq(Op) /\ elapsed' \in BOOLEAN
         /\ \A w \in Seq(Op) : Write(w) => ops' \in Seq(Op) /\ elapsed' \in BOOLEAN
         /\ \A force \in BOOLEAN :
              CheckQueue(force) => ops' \in Seq(Op) /\ elapsed' \in BOOLEAN
<1>1. Set("allow_fetch", 0) \in Op /\ Set("allow_fetch", 1) \in Op
  BY DEF Set, Op, Flag
<1>2. <<>> \in Seq(Op) /\ <<Set("allow_fetch", 0)>> \in Seq(Op)
      /\ <<Set("allow_fetch", 1)>> \in Seq(Op)
  BY <1>1
<1>3. ops \in Seq(Op) /\ elapsed \in BOOLEAN
  BY DEF IInv, TypeOK, FlagsType, ShellType
<1>4. ASSUME NEW force \in BOOLEAN, CheckQueue(force) PROVE ops' \in Seq(Op) /\ elapsed' \in BOOLEAN
  BY <1>2, <1>3, <1>4 DEF CheckQueue
<1> QED BY <1>3, <1>4 DEF NoWrite, Write

\* Each write the code does is one.
LEMMA SetType ==
  ASSUME NEW f \in Flag, NEW v \in 0 .. 2
  PROVE  Set(f, v) \in Op
BY DEF Set, Op

\* ON_IDLE: only the collector moves an index, the tail, and it stops at the interrupt's tail.
LEMMA IdleSafe ==
  ASSUME IInv, Idle
  PROVE  IInv'
<1>1. StackType /\ StackEnds /\ FlagsType /\ ShellType
  BY DEF IInv, TypeOK
<1>2. CASE IdleCheck
  <2>1. StackType' /\ StackEnds'
    BY <1>1, <1>2, GotoSafe DEF IdleCheck, At, Target, Labels
  <2>2. ops' \in Seq(Op) /\ elapsed' \in BOOLEAN
    BY <1>2, WriteType DEF IdleCheck
  <2> QED BY <1>2, <2>1, <2>2, QuietSafe DEF IdleCheck
<1>3. CASE IdleCollect
  <2>1. StackType' /\ StackEnds'
    BY <1>1, <1>3, GotoSafe DEF IdleCollect, At, Target, Labels
  <2>2. CASE tail_i = isr_tail_i
    BY <1>3, <2>1, <2>2, WriteType, QuietSafe
    DEF IdleCollect, RingKept
  <2>3. CASE tail_i # isr_tail_i
    <3>1. tail_i' = NextIndex(tail_i) /\ tail_i' \in Index
      BY <1>3, <2>3, NextIndexType DEF IdleCollect, IInv, TypeOK, RingType
    <3>2. ring' \in [Index -> Block]
      <4>1. Cleared \in Block
        BY DEF Cleared, Block, Steps, NoSteps
      <4> QED BY <1>3, <2>3, <4>1 DEF IdleCollect, IInv, TypeOK, RingType
    <3>3. IndicesOrdered'
      BY <1>3, <2>3, <3>1, OrderedConsume
      DEF IdleCollect, ThreadKeeps, IndicesOrdered, IInv, TypeOK, RingType
    <3>4. RunningBlockOwned'
      BY <1>3 DEF IdleCollect, ThreadKeeps, RunningBlockOwned, IInv
    <3>5. RingType' /\ FlagsType' /\ WalkType'
      BY <1>3, <3>1, <3>2
      DEF IdleCollect, ThreadKeeps, NoWrite, IInv, TypeOK, RingType, FlagsType, WalkType
    <3>6. MotorType' /\ ShellType'
      BY <1>3 DEF IdleCollect, ThreadKeeps, MotionKept, NoWrite, IInv, TypeOK, MotorType, ShellType
    <3> QED BY <2>1, <3>3, <3>4, <3>5, <3>6 DEF IInv, TypeOK
  <2> QED BY <2>2, <2>3
<1>4. CASE IdleEnd
  <2>1. StackType' /\ StackEnds'
    BY <1>1, <1>4, ReturnSafe DEF IdleEnd, At
  <2> QED BY <1>4, <2>1, WriteType, QuietSafe DEF IdleEnd
<1>5. CASE IdleHalt
  <2>1. StackType' /\ StackEnds'
    BY <1>1, <1>5, GotoSafe DEF IdleHalt, At, Target, Labels
  <2>2. limit' \in [triggered : BOOLEAN, halt : BOOLEAN]
    BY <1>1, <1>5 DEF IdleHalt, ShellType
  <2>3. ops' \in Seq(Op) /\ elapsed' \in BOOLEAN
    BY <1>5, WriteType DEF IdleHalt
  <2> QED BY <1>5, <2>1, <2>2, <2>3, StepSafe
      DEF IdleHalt, IInv, TypeOK, RingType, WalkType, MotorType, ShellType, RingKept
<1>6. CASE IdleUnhalt
  <2>1. StackType' /\ StackEnds'
    BY <1>1, <1>6, GotoSafe DEF IdleUnhalt, At, Target, Labels
  <2> QED BY <1>6, <2>1, WriteType, QuietSafe DEF IdleUnhalt
<1> QED BY <1>2, <1>3, <1>4, <1>5, <1>6 DEF Idle

\* The handlers of ON_HALT move no index.
LEMMA OnHaltSafe ==
  ASSUME IInv, OnHalt
  PROVE  IInv'
<1>1. StackType /\ StackEnds /\ MotorType /\ ShellType
  BY DEF IInv, TypeOK
<1>2. 0 \in -MaxOwed .. MaxOwed
  BY MotionAssumption
<1>3. CASE Halt
  <2>1. StackType' /\ StackEnds'
    BY <1>1, <1>3, GotoSafe DEF Halt, At, Target, Labels
  <2>2. <<Set("allow_fetch", 0), Set("flush", 1), Set("hold_queue", 0),
          Set("continuous_mode", 0)>> \in Seq(Op)
    BY SetType DEF Flag
  <2>3. ops' \in Seq(Op) /\ elapsed' \in BOOLEAN
    BY <1>3, <2>2, WriteType DEF Halt
  <2> QED BY <1>3, <2>1, <2>3, StepSafe
      DEF Halt, IInv, TypeOK, RingType, WalkType, MotorType, ShellType, RingKept
<1>4. CASE HaltMotors
  <2>1. StackType' /\ StackEnds'
    BY <1>1, <1>4, ReturnSafe DEF HaltMotors, At
  <2>2. moving' \in [Motors -> BOOLEAN] /\ owed' \in [Motors -> -MaxOwed .. MaxOwed]
    BY <1>1, <1>2, <1>4 DEF HaltMotors, MotorType
  <2>3. ops' \in Seq(Op) /\ elapsed' \in BOOLEAN
    BY <1>4, WriteType DEF HaltMotors
  <2> QED BY <1>4, <2>1, <2>2, <2>3, StepSafe
      DEF HaltMotors, IInv, TypeOK, RingType, WalkType, ShellType, RingKept
<1>5. CASE Unhalt
  <2>1. StackType' /\ StackEnds'
    BY <1>1, <1>5, GotoSafe DEF Unhalt, At, Target, Labels
  <2>2. ops' \in Seq(Op) /\ elapsed' \in BOOLEAN
    BY <1>5, WriteType DEF Unhalt
  <2> QED BY <1>5, <2>1, <2>2, StepSafe
      DEF Unhalt, IInv, TypeOK, RingType, WalkType, MotorType, ShellType, RingKept
<1>6. CASE SyncPosition
  <2>1. StackType' /\ StackEnds'
    BY <1>1, <1>6, ReturnSafe DEF SyncPosition, At
  <2>2. owed' \in [Motors -> -MaxOwed .. MaxOwed]
    BY <1>2, <1>6 DEF SyncPosition
  <2>3. ops' \in Seq(Op) /\ elapsed' \in BOOLEAN
    BY <1>6, WriteType DEF SyncPosition
  <2> QED BY <1>6, <2>1, <2>2, <2>3, StepSafe
      DEF SyncPosition, IInv, TypeOK, RingType, WalkType, MotorType, ShellType, RingKept
<1> QED BY <1>3, <1>4, <1>5, <1>6 DEF OnHalt

\* wait_for_idle moves no index.
LEMMA WaitSafe ==
  ASSUME IInv, Wait
  PROVE  IInv'
<1>1. StackType /\ StackEnds
  BY DEF IInv, TypeOK
<1>2. <<Set("running", 0)>> \in Seq(Op) /\ <<Set("running", 1)>> \in Seq(Op)
  BY SetType DEF Flag
<1>3. CASE WaitStart
  <2>1. StackType' /\ StackEnds'
    BY <1>1, <1>3, GotoSafe DEF WaitStart, At, Target, Labels
  <2>2. ops' \in Seq(Op) /\ elapsed' \in BOOLEAN
    BY <1>2, <1>3, WriteType DEF WaitStart
  <2> QED BY <1>3, <2>1, <2>2, QuietSafe DEF WaitStart
<1>4. CASE WaitQueue
  <2>1. StackType' /\ StackEnds'
    BY <1>1, <1>4, GotoSafe, CallSafe DEF WaitQueue, At, Target, Labels
  <2>2. ops' \in Seq(Op) /\ elapsed' \in BOOLEAN
    BY <1>4, WriteType DEF WaitQueue
  <2> QED BY <1>4, <2>1, <2>2, QuietSafe DEF WaitQueue
<1>5. CASE WaitMotors
  <2>1. StackType' /\ StackEnds'
    BY <1>1, <1>5, ReturnSafe, CallSafe DEF WaitMotors, At, Target, Labels
  <2>2. ops' \in Seq(Op) /\ elapsed' \in BOOLEAN
    BY <1>2, <1>5, WriteType DEF WaitMotors
  <2> QED BY <1>5, <2>1, <2>2, QuietSafe DEF WaitMotors
<1> QED BY <1>3, <1>4, <1>5 DEF Wait

\* A step of recalculate(): the walk moves to an index, or stays.
LEMMA WalkSafe ==
  ASSUME IInv, TrapezoidKeeps, pc # "loop", pc' \in Target, ti' \in Index, word' \in Word,
         ring' \in [Index -> Block]
  PROVE  IInv'
<1>1. StackType' /\ StackEnds'
  BY DEF IInv, TypeOK, StackType, StackEnds, TrapezoidKeeps, Target
<1>2. ops' \in Seq(Op) /\ elapsed' \in BOOLEAN
  BY WriteType DEF TrapezoidKeeps
<1> QED BY <1>1, <1>2, StepSafe
    DEF TrapezoidKeeps, MotionKept, IInv, TypeOK, MotorType, ShellType

\* A store of the flag byte of a block leaves a block.
LEMMA SetWordType ==
  ASSUME RingType, NEW i \in Index, NEW w \in Word, SetWord(i, w)
  PROVE  ring' \in [Index -> Block]
<1> DEFINE b == [ring[i] EXCEPT !.is_ticking = w.is_ticking, !.locked = w.locked,
                                !.recalculate = w.recalculate]
<1>1. b \in Block
  BY DEF RingType, Block, Word
<1>2. ring' = [ring EXCEPT ![i] = b]
  BY DEF SetWord
<1> QED BY <1>1, <1>2 DEF RingType

\* recalculate() walks over indices and changes only what blocks contain.
LEMMA RecalculateSafe ==
  ASSUME IInv, ForwardPass \/ ForwardStore \/ Trapezoid \/ Lock \/ LockStore \/ Prepare
  PROVE  IInv'
<1>1. RingType /\ WalkType /\ NextIndex(ti) \in Index
  BY NextIndexType DEF IInv, TypeOK, WalkType
<1>2. \A i \in Index : WordOf(ring[i]) \in Word
  BY <1>1 DEF RingType, Block, Word, WordOf
<1>3. NoWord \in Word /\ [word EXCEPT !.recalculate = FALSE] \in Word
      /\ [word EXCEPT !.locked = TRUE] \in Word
  BY <1>1 DEF NoWord, Word, WalkType
<1>4. NextTrapezoid => ti' \in Index /\ pc' \in Target
  BY <1>1 DEF NextTrapezoid, WalkType, Target, Labels
<1>5. CASE ForwardPass
  BY <1>1, <1>2, <1>5, WalkSafe DEF ForwardPass, At, WalkType, RingType, Target, Labels
<1>6. CASE ForwardStore
  <2>1. ring' \in [Index -> Block]
    BY <1>1, <1>3, <1>6, SetWordType DEF ForwardStore
  <2> QED BY <1>1, <1>3, <1>6, <2>1, WalkSafe DEF ForwardStore, At, WalkType, Target, Labels
<1>7. CASE Trapezoid
  BY <1>1, <1>4, <1>7, WalkSafe DEF Trapezoid, At, WalkType, RingType, Target, Labels
<1>8. CASE Lock
  BY <1>1, <1>2, <1>8, WalkSafe DEF Lock, At, WalkType, RingType, Target, Labels
<1>9. CASE LockStore
  <2>1. ring' \in [Index -> Block]
    BY <1>1, <1>3, <1>9, SetWordType DEF LockStore, WalkType
  <2> QED BY <1>1, <1>3, <1>9, <2>1, WalkSafe DEF LockStore, At, WalkType, Target, Labels
<1>10. CASE Prepare
  <2>1. ring' \in [Index -> Block]
    <3> DEFINE b == [ring[ti] EXCEPT !.todo = ring[ti].steps, !.locked = FALSE]
    <3>1. b \in Block
      BY <1>1 DEF RingType, WalkType, Block
    <3> QED BY <1>1, <1>10, <3>1 DEF Prepare, RingType
  <2> QED BY <1>1, <1>4, <1>10, <2>1, WalkSafe DEF Prepare, At, WalkType
<1> QED BY <1>5, <1>6, <1>7, <1>8, <1>9, <1>10

\* queue_head_block: produce_head moves the head, and never onto the tail, so never onto the interrupt's tail.
LEMMA QueueHeadSafe ==
  ASSUME IInv, Ready \/ QueueWait \/ QueueRefuse \/ QueueRoom \/ ProduceHead \/ QueueCheck
  PROVE  IInv'
<1>1. RingType /\ StackType /\ StackEnds /\ Cleared \in Block
  BY DEF IInv, TypeOK, Cleared, Block, Steps, NoSteps
<1>2. CASE Ready
  <2>1. StackType' /\ StackEnds'
    BY <1>1, <1>2, GotoSafe DEF Ready, At, Target, Labels
  <2>2. ring' \in [Index -> Block]
    <3> DEFINE b == [ring[head_i] EXCEPT !.is_ready = TRUE]
    <3>1. b \in Block
      BY <1>1 DEF RingType, Block
    <3> QED BY <1>1, <1>2, <3>1 DEF Ready, RingType
  <2>3. ops' \in Seq(Op) /\ elapsed' \in BOOLEAN
    BY <1>2, WriteType DEF Ready
  <2> QED BY <1>2, <2>1, <2>2, <2>3, StepSafe
      DEF Ready, MotionKept, IInv, TypeOK, WalkType, MotorType, ShellType
<1>3. CASE QueueWait
  <2>1. StackType' /\ StackEnds'
    BY <1>1, <1>3, CallSafe DEF QueueWait, At, Target, Labels
  <2> QED BY <1>3, <2>1, WriteType, QuietSafe DEF QueueWait
<1>4. CASE QueueRefuse
  <2>1. StackType' /\ StackEnds'
    BY <1>1, <1>4, ReturnSafe DEF QueueRefuse, At
  <2>2. ring' \in [Index -> Block]
    BY <1>1, <1>4 DEF QueueRefuse, RingType
  <2>3. ops' \in Seq(Op) /\ elapsed' \in BOOLEAN
    BY <1>4, WriteType DEF QueueRefuse
  <2> QED BY <1>4, <2>1, <2>2, <2>3, StepSafe
      DEF QueueRefuse, MotionKept, IInv, TypeOK, WalkType, MotorType, ShellType
<1>5. CASE QueueRoom
  <2>1. StackType' /\ StackEnds'
    BY <1>1, <1>5, GotoSafe DEF QueueRoom, At, Target, Labels
  <2> QED BY <1>5, <2>1, WriteType, QuietSafe DEF QueueRoom
<1>6. CASE ProduceHead
  <2>1. StackType' /\ StackEnds'
    BY <1>1, <1>6, GotoSafe DEF ProduceHead, At, Target, Labels
  <2>2. head_i' = NextIndex(head_i) /\ head_i' \in Index
    BY <1>1, <1>6, NextIndexType DEF ProduceHead, RingType
  <2>3. IndicesOrdered' /\ isr_tail_i # head_i'
    BY <1>1, <1>6, <2>2, OrderedProduce
    DEF ProduceHead, ThreadKeeps, Full, IInv, IndicesOrdered, RingType
  <2>4. RunningBlockOwned'
    BY <1>6, <2>3 DEF ProduceHead, ThreadKeeps, RunningBlockOwned, IInv
  <2>5. RingType' /\ FlagsType' /\ WalkType'
    BY <1>6, <2>2 DEF ProduceHead, ThreadKeeps, NoWrite, IInv, TypeOK, RingType, FlagsType, WalkType
  <2>6. MotorType' /\ ShellType'
    BY <1>6 DEF ProduceHead, ThreadKeeps, MotionKept, NoWrite, IInv, TypeOK, MotorType, ShellType
  <2> QED BY <2>1, <2>3, <2>4, <2>5, <2>6 DEF IInv, TypeOK
<1>7. CASE QueueCheck
  <2>1. StackType' /\ StackEnds'
    BY <1>1, <1>7, ReturnSafe DEF QueueCheck, At
  <2> QED BY <1>7, <2>1, WriteType, QuietSafe DEF QueueCheck
<1> QED BY <1>2, <1>3, <1>4, <1>5, <1>6, <1>7

\* The start of append_block, called by a command (ret is where it returns).
LEMMA PlanSafe ==
  ASSUME IInv, NEW mv \in MoveSet, PlanBlock(mv), NEW ret \in Labels,
         stack' = <<ret>> \o stack, pc = "loop" <=> ret = "loop"
  PROVE  IInv'
<1>1. RingType /\ StackType /\ StackEnds /\ MotorType /\ ShellType
  BY DEF IInv, TypeOK
<1>2. StackType' /\ StackEnds'
  <2>1. pc' \in Target /\ Call(pc', ret)
    BY DEF PlanBlock, Call, Target, Labels
  <2> QED BY <1>1, <2>1, CallSafe
<1>3. mv \in Steps /\ nextId \in Nat
  BY <1>1, MotionAssumption DEF Steps, ShellType
<1>4. ring' \in [Index -> Block]
  <2> DEFINE b == [ring[head_i] EXCEPT !.id = nextId, !.steps = mv, !.recalculate = TRUE]
  <2>1. b \in Block
    BY <1>1, <1>3 DEF RingType, Block
  <2> QED BY <1>1, <2>1 DEF PlanBlock, RingType
<1>5. owed' \in [Motors -> -MaxOwed .. MaxOwed]
  BY <1>1, <1>3, SatType, MotionAssumption DEF PlanBlock, MotorType, Steps
<1>6. nextId' \in 1 .. MaxBlocks + 1
  BY <1>1, MotionAssumption DEF PlanBlock, ShellType
<1>7. ops' \in Seq(Op) /\ elapsed' \in BOOLEAN
  BY WriteType DEF PlanBlock
<1> QED BY <1>2, <1>4, <1>5, <1>6, <1>7, StepSafe
    DEF PlanBlock, IInv, TypeOK, WalkType, MotorType, ShellType

\* The two steps of the jog that also write saved_block.
LEMMA JogInfoSafe ==
  ASSUME IInv, JogMode \/ JogFree
  PROVE  IInv'
<1>1. RingType /\ StackType /\ StackEnds /\ ShellType
  BY DEF IInv, TypeOK
<1>2. StackType' /\ StackEnds'
  BY <1>1, GotoSafe, CallSafe, ReturnSafe DEF JogMode, JogFree, At, Target, Labels
<1>3. <<Set("continuous_mode", 1), Set("hold_queue", 0)>> \in Seq(Op)
  BY SetType DEF Flag
<1>4. ops' \in Seq(Op) /\ elapsed' \in BOOLEAN
  BY <1>3, WriteType DEF JogMode, JogFree
<1>5. saved' \in Steps
  <2>1. ring[NextIndex(tail_i)].todo \in Steps /\ NoSteps \in Steps
    BY <1>1, NextIndexType DEF RingType, Block, NoSteps, Steps
  <2> QED BY <1>1, <2>1 DEF JogMode, JogFree, ShellType
<1>6. UNCHANGED <<head_i, tail_i, isr_tail_i, current_block, ring, ti, word, flags, reg,
                  moving, owed, halted, nextId, limit>>
  BY DEF JogMode, JogFree, RingKept, MotionKept
<1>7. stop_request' \in BOOLEAN
  BY <1>1 DEF JogMode, JogFree, MotionKept, ShellType
<1>8. RingType' /\ FlagsType' /\ WalkType'
  BY <1>4, <1>6 DEF IInv, TypeOK, RingType, FlagsType, WalkType
<1>9. MotorType' /\ ShellType'
  BY <1>4, <1>5, <1>6, <1>7 DEF IInv, TypeOK, MotorType, ShellType
<1> QED BY <1>2, <1>6, <1>8, <1>9, StillQueue DEF TypeOK

\* The continuous jog moves no index itself.
LEMMA JogSafe ==
  ASSUME IInv, Jog
  PROVE  IInv'
<1>1. StackType /\ StackEnds
  BY DEF IInv, TypeOK
<1>2. <<Set("hold_queue", 1)>> \in Seq(Op) /\ <<Set("continuous_mode", 0)>> \in Seq(Op)
  BY SetType DEF Flag
<1>3. \A l \in DOMAIN JogNext : l \in Target /\ JogNext[l] \in Target
  BY DEF JogNext, Target, Labels
<1>4. CASE JogHold
  <2>1. StackType' /\ StackEnds'
    BY <1>1, <1>4, GotoSafe DEF JogHold, At, Target, Labels
  <2>2. ops' \in Seq(Op) /\ elapsed' \in BOOLEAN
    BY <1>2, <1>4, WriteType DEF JogHold
  <2> QED BY <1>4, <2>1, <2>2, QuietSafe DEF JogHold, JogKeeps
<1>5. CASE JogMove
  <2>1. pc # "loop" /\ JogNext[pc] \in Target
    BY <1>3, <1>5 DEF JogMove, Target
  <2> QED BY <1>5, <2>1, PlanSafe DEF JogMove, Target
<1>6. CASE JogRefused
  <2>1. pc # "loop" /\ JogNext[pc] \in Target
    BY <1>3, <1>6 DEF JogRefused, Target
  <2>2. StackType' /\ StackEnds'
    BY <1>1, <1>6, <2>1, GotoSafe DEF JogRefused
  <2> QED BY <1>6, <2>2, WriteType, QuietSafe DEF JogRefused, JogKeeps
<1>7. CASE JogMode \/ JogFree
  BY <1>7, JogInfoSafe
<1>8. CASE JogForce
  <2>1. StackType' /\ StackEnds'
    BY <1>1, <1>8, GotoSafe DEF JogForce, At, Target, Labels
  <2> QED BY <1>8, <2>1, WriteType, QuietSafe DEF JogForce, JogKeeps
<1>9. CASE Jogging
  <2>1. StackType' /\ StackEnds'
    BY <1>1, <1>9, CallSafe DEF Jogging, At, Target, Labels
  <2> QED BY <1>9, <2>1, WriteType, QuietSafe DEF Jogging, JogKeeps
<1>10. CASE JogHalted
  <2>1. StackType' /\ StackEnds'
    BY <1>1, <1>10, GotoSafe DEF JogHalted, At, Target, Labels
  <2> QED BY <1>10, <2>1, WriteType, QuietSafe DEF JogHalted, JogKeeps
<1>11. CASE JogStopped
  <2>1. StackType' /\ StackEnds'
    BY <1>1, <1>11, GotoSafe DEF JogStopped, At, Target, Labels
  <2> QED BY <1>11, <2>1, WriteType, QuietSafe DEF JogStopped, JogKeeps
<1>12. CASE JogEnd
  <2>1. StackType' /\ StackEnds'
    BY <1>1, <1>12, GotoSafe DEF JogEnd, At, Target, Labels
  <2>2. ops' \in Seq(Op) /\ elapsed' \in BOOLEAN
    BY <1>2, <1>12, WriteType DEF JogEnd
  <2> QED BY <1>12, <2>1, <2>2, QuietSafe DEF JogEnd, JogKeeps
<1> QED BY <1>4, <1>5, <1>6, <1>7, <1>8, <1>9, <1>10, <1>11, <1>12 DEF Jog

\* The commands that stack two returns start as a call from the main loop that
\* calls once more.
LEMMA TwoCallsSafe ==
  ASSUME StackType, StackEnds, pc = "loop", pc' = "wfi", NEW ret \in Target,
         stack' = <<ret, "loop">>
  PROVE  StackType' /\ StackEnds'
<1>1. StackType'
  BY DEF StackType, Target, Labels
<1>2. Len(stack') = 2 /\ stack'[1] = ret /\ stack'[2] = "loop" /\ stack' # <<>>
  OBVIOUS
<1>3. \A i \in 1 .. Len(stack') : stack'[i] = "loop" <=> i = Len(stack')
  <2>1. \A i \in 1 .. 2 : i = 1 \/ i = 2
    OBVIOUS
  <2> QED BY <1>2, <2>1 DEF Target
<1> QED BY <1>1, <1>2, <1>3 DEF StackEnds

\* The main loop.
LEMMA MainSafe ==
  ASSUME IInv, Main
  PROVE  IInv'
<1>1. StackType /\ StackEnds
  BY DEF IInv, TypeOK
<1>2. <<Set("allow_fetch", 0), Set("flush", 1)>> \in Seq(Op)
  BY SetType DEF Flag
<1>3. CASE MainMove
  <2>1. pc = "loop" /\ stack = <<>> /\ stack' = <<"loop">> \o stack
    BY <1>1, <1>3 DEF MainMove, At, StackEnds
  <2> QED BY <1>3, <2>1, PlanSafe DEF MainMove, Labels
<1>4. CASE MainIdle \/ MainWait \/ MainHalt \/ MainUnhalt
  <2>1. StackType' /\ StackEnds'
    BY <1>1, <1>4, CallSafe DEF MainIdle, MainWait, MainHalt, MainUnhalt, At, Target, Labels
  <2> QED BY <1>4, <2>1, WriteType, QuietSafe
      DEF MainIdle, MainWait, MainHalt, MainUnhalt, JogKeeps
<1>5. CASE MainAbort
  <2>1. StackType' /\ StackEnds'
    BY <1>1, <1>5, TwoCallsSafe DEF MainAbort, At, Target, Labels
  <2>2. ops' \in Seq(Op) /\ elapsed' \in BOOLEAN
    BY <1>2, <1>5, WriteType DEF MainAbort
  <2> QED BY <1>5, <2>1, <2>2, QuietSafe DEF MainAbort, JogKeeps
<1>6. CASE MainJog
  <2>1. StackType' /\ StackEnds'
    <3>1. CASE stop_request
      BY <1>1, <1>6, <3>1, StackKept DEF MainJog, Goto, At
    <3>2. CASE ~stop_request
      BY <1>1, <1>6, <3>2, TwoCallsSafe DEF MainJog, At, Target, Labels
    <3> QED BY <3>1, <3>2
  <2>2. ops' \in Seq(Op) /\ elapsed' \in BOOLEAN
    BY <1>6, WriteType DEF MainJog
  <2> QED BY <1>6, <2>1, <2>2, StepSafe
      DEF MainJog, RingKept, IInv, TypeOK, RingType, WalkType, MotorType, ShellType
<1> QED BY <1>3, <1>4, <1>5, <1>6 DEF Main

\* The two halves of a write to flags.
LEMMA FlagsSafe ==
  ASSUME IInv, LoadFlags \/ StoreFlags
  PROVE  IInv'
<1>1. FlagsType
  BY DEF IInv, TypeOK
<1>2. CASE LoadFlags
  <2>1. reg' \in Seq(Byte) /\ Len(reg') = 1
    BY <1>1, <1>2 DEF LoadFlags, FlagsType
  <2>2. FlagsType'
    BY <1>1, <1>2, <2>1 DEF LoadFlags, FlagsType
  <2>3. StackType' /\ StackEnds'
    BY <1>2, StackKept DEF LoadFlags, IInv, TypeOK
  <2>4. RingType' /\ MotorType' /\ WalkType' /\ ShellType'
    BY <1>2 DEF LoadFlags, ringVars, motorVars, shellVars,
       IInv, TypeOK, RingType, MotorType, WalkType, ShellType
  <2> QED BY <1>2, <2>2, <2>3, <2>4, StillQueue DEF LoadFlags, ringVars, motorVars, TypeOK
<1>3. CASE StoreFlags
  <2>1. Head(reg) \in Byte /\ Head(ops) \in Op /\ Tail(ops) \in Seq(Op)
    BY <1>1, <1>3, HeadTailProperties DEF StoreFlags, FlagsType
  <2>2. flags' \in Byte
    BY <1>3, <2>1 DEF StoreFlags, Byte, Op
  <2>3. reg' \in Seq(Byte) /\ reg' = <<>> /\ ops' \in Seq(Op)
    BY <1>3, <2>1 DEF StoreFlags
  <2>4. FlagsType'
    BY <2>2, <2>3 DEF FlagsType
  <2>5. StackType' /\ StackEnds'
    BY <1>3, StackKept DEF StoreFlags, IInv, TypeOK
  <2>6. RingType' /\ MotorType' /\ WalkType' /\ ShellType'
    BY <1>3 DEF StoreFlags, ringVars, motorVars, shellVars,
       IInv, TypeOK, RingType, MotorType, WalkType, ShellType
  <2> QED BY <1>3, <2>4, <2>5, <2>6, StillQueue DEF StoreFlags, ringVars, motorVars, TypeOK
<1> QED BY <1>2, <1>3

\* Every step of the thread keeps the invariant.
LEMMA ThreadSafe ==
  ASSUME IInv, Thread
  PROVE  IInv'
<1>1. AppendBlock => IInv'
  BY RecalculateSafe, QueueHeadSafe DEF AppendBlock
<1> QED BY <1>1, FlagsSafe, IdleSafe, OnHaltSafe, WaitSafe, JogSafe, MainSafe DEF Thread

\* TIMER0 keeps the invariant.
LEMMA TickSafe ==
  ASSUME IInv, Tick
  PROVE  IInv'
<1> DEFINE s == IsrState
<1>1. TypeOK /\ IndicesOrdered /\ RunningBlockOwned
  BY DEF IInv
<1>2. RingTypes /\ s \in IsrStates /\ InOrder(s) /\ Owned(s)
  BY <1>1 DEF TypeOK, RingType, FlagsType, MotorType, ShellType, RingTypes, IsrState, IsrStates,
     IndicesOrdered, RunningBlockOwned, InOrder, Owned
<1>3. PICK S \in SUBSET Motors :
        LET t == StepTick(Begun(s), S)
        IN /\ Due(Begun(s), S)
           /\ isr_tail_i' = t.isr /\ ring' = t.ring /\ flags' = t.flags
           /\ current_block' = t.block /\ moving' = t.moving /\ owed' = t.owed
  BY DEF Tick
<1> DEFINE t == StepTick(Begun(s), S)
<1>4. t \in IsrStates /\ InOrder(t) /\ Owned(t)
  BY <1>2, <1>3, StepTickSafe
<1>5. UNCHANGED <<head_i, tail_i, halted, pc, stack, ops, reg, ti, word, elapsed, nextId,
                  saved, stop_request, limit>>
  BY DEF Tick, threadVars, shellVars
<1> HIDE DEF t
<1>6. RingType' /\ FlagsType' /\ MotorType'
  BY <1>1, <1>3, <1>4, <1>5 DEF t, IsrStates, TypeOK, RingType, FlagsType, MotorType
<1>7. WalkType' /\ StackType' /\ ShellType' /\ StackEnds'
  BY <1>1, <1>5 DEF TypeOK, WalkType, StackType, ShellType, StackEnds
<1>8. IndicesOrdered' /\ RunningBlockOwned'
  BY <1>3, <1>4, <1>5 DEF t, IndicesOrdered, RunningBlockOwned, InOrder, Owned
<1> QED BY <1>6, <1>7, <1>8 DEF IInv, TypeOK

\* Every step that is not the thread's keeps the invariant.
LEMMA InterruptSafe ==
  ASSUME IInv, Interrupt
  PROVE  IInv'
<1>1. CASE Tick
  BY <1>1, TickSafe
<1>2. CASE LimitHit
  <2>1. [flags EXCEPT !["allow_fetch"] = 0, !["flush"] = 1] \in Byte
    BY DEF IInv, TypeOK, FlagsType, Byte, Flag
  <2>2. RingType' /\ FlagsType' /\ WalkType' /\ StackType' /\ StackEnds'
    BY <1>2, <2>1 DEF LimitHit, ringVars, threadVars, IInv, TypeOK, RingType, FlagsType,
       WalkType, StackType, StackEnds
  <2>3. MotorType' /\ ShellType'
    BY <1>2 DEF LimitHit, IInv, TypeOK, MotorType, ShellType
  <2> QED BY <1>2, <2>2, <2>3, StillQueue DEF LimitHit, ringVars, TypeOK
<1>3. CASE LimitClear \/ TimePasses \/ StopRequest
  <2>1. RingType' /\ FlagsType' /\ MotorType' /\ WalkType' /\ StackType' /\ StackEnds'
    BY <1>3 DEF LimitClear, TimePasses, StopRequest, ringVars, motorVars, threadVars,
       IInv, TypeOK, RingType, FlagsType, MotorType, WalkType, StackType, StackEnds
  <2>2. ShellType'
    BY <1>3 DEF LimitClear, TimePasses, StopRequest, shellVars, IInv, TypeOK, ShellType
  <2> QED BY <1>3, <2>1, <2>2, StillQueue
      DEF LimitClear, TimePasses, StopRequest, ringVars, motorVars, TypeOK
<1> QED BY <1>1, <1>2, <1>3 DEF Interrupt

\* start() establishes the invariant.
LEMMA InitSafe ==
  ASSUME Init
  PROVE  IInv
<1>1. 0 \in Index
  BY LengthAssumption DEF Index
<1>2. RingType
  BY <1>1 DEF Init, RingType, Cleared, Block, Steps, NoSteps
<1>3. FlagsType /\ WalkType
  BY <1>1 DEF Init, FlagsType, Byte, WalkType, NoWord, Word
<1>4. MotorType /\ ShellType
  <2>1. MotorType
    BY MotionAssumption DEF Init, MotorType
  <2>2. 1 \in 1 .. MaxBlocks + 1
    BY MotionAssumption
  <2>3. NoSteps \in Steps
    BY DEF NoSteps, Steps
  <2> QED BY <2>1, <2>2, <2>3 DEF Init, ShellType
<1>5. StackType /\ StackEnds
  BY DEF Init, StackType, StackEnds, Labels
<1>6. IndicesOrdered /\ RunningBlockOwned
  BY LengthAssumption DEF Init, IndicesOrdered, Ordered, Dist, RunningBlockOwned
<1> QED BY <1>2, <1>3, <1>4, <1>5, <1>6 DEF IInv, TypeOK

\* The inductive invariant holds in every reachable state: the types, the order of
\* the ring's indices, and the ownership of the running block support one another.
THEOREM Invariant == Spec => []IInv
<1>1. IInv /\ [Next]_vars => IInv'
  <2> SUFFICES ASSUME IInv, [Next]_vars PROVE IInv'
    OBVIOUS
  <2>1. CASE Next
    BY <2>1, ThreadSafe, InterruptSafe DEF Next
  <2>2. CASE UNCHANGED vars
    <3>1. TypeOK'
      BY <2>2 DEF vars, ringVars, motorVars, threadVars, shellVars, IInv, TypeOK,
         RingType, FlagsType, MotorType, WalkType, StackType, ShellType, StackEnds
    <3> QED BY <2>2, <3>1, StillQueue DEF vars, ringVars, motorVars
  <2> QED BY <2>1, <2>2
<1> QED BY <1>1, InitSafe, PTL DEF Spec

\* The three indices of the ring stay in order, however ON_IDLE, queue_head_block,
\* flushes, retirements and halts interleave.  Every variable has its type, and
\* the thread always returns to the main loop.
THEOREM RingStaysOrdered == Spec => []RingOrder
BY Invariant, PTL DEF IInv, RingOrder

\* The block being stepped is neither in the free part of the ring nor the head.
THEOREM RunningBlockIsOwned == Spec => []RunningBlockOwned
BY Invariant, PTL DEF IInv

\* The __debugbreak of Conveyor::on_idle is not reached.
THEOREM CollectorFindsBlock == Spec => [](tail_i # isr_tail_i => ~Empty)
<1>1. IInv => (tail_i # isr_tail_i => ~Empty)
  BY LengthAssumption
  DEF IInv, TypeOK, RingType, IndicesOrdered, Ordered, Dist, Index, Empty, IsEmpty
<1> QED BY <1>1, Invariant, PTL

\* When the ring is empty no block is being stepped.
LEMMA EmptyMeansIdle ==
  ASSUME IInv, Empty
  PROVE  current_block = NoBlock
BY LengthAssumption
DEF IInv, TypeOK, RingType, IndicesOrdered, RunningBlockOwned, Ordered, Dist, Index, Empty, IsEmpty

\* wait_for_idle is left only by the test that found the machine idle.
LEMMA StillLeft ==
  ASSUME IInv, Next, pc = "still", pc' \notin {"still", "idle"}
  PROVE  WaitMotors /\ IsIdle /\ MotionKept /\ UNCHANGED <<head_i, tail_i, current_block>>
<1>1. ~LoadFlags /\ ~StoreFlags /\ ~Interrupt
  BY DEF LoadFlags, StoreFlags, Interrupt, Tick, LimitHit, LimitClear, TimePasses, StopRequest,
     threadVars
<1>2. ~Idle /\ ~OnHalt
  BY DEF Idle, IdleCheck, IdleCollect, IdleEnd, IdleHalt, IdleUnhalt,
     OnHalt, Halt, HaltMotors, Unhalt, SyncPosition, At
<1>3. ~AppendBlock
  BY DEF AppendBlock, ForwardPass, ForwardStore, Trapezoid, Lock, LockStore, Prepare,
     Ready, QueueWait, QueueRefuse, QueueRoom, ProduceHead, QueueCheck, At
<1>4. ~Jog
  BY DEF Jog, JogHold, JogMove, JogRefused, JogMode, JogForce, Jogging, JogHalted,
     JogStopped, JogEnd, JogFree, JogNext, At
<1>5. ~Main
  BY DEF Main, MainIdle, MainMove, MainWait, MainAbort, MainHalt, MainUnhalt, MainJog, At
<1>6. WaitMotors
  BY <1>1, <1>2, <1>3, <1>4, <1>5 DEF Next, Thread, Wait, WaitStart, WaitQueue, At
<1> QED BY <1>6 DEF WaitMotors, Call, ThreadKeeps, RingKept

\* When wait_for_idle returns the queue is empty and nothing moves.
THEOREM WaitStops == Spec => WaitMeansStopped
<1> DEFINE Stops1 == pc = "still" /\ pc' \notin {"still", "idle"} =>
                       /\ head_i = tail_i /\ current_block = NoBlock
                       /\ \A m \in Motors : ~moving[m]
<1>1. IInv /\ [Next]_vars => [Stops1]_vars
  BY StillLeft, EmptyMeansIdle DEF IsIdle, Empty, IsEmpty
<1> QED BY <1>1, Invariant, PTL DEF Spec, WaitMeansStopped

(***************************************************************************)
(* What the thread's control state says about the shared state: which      *)
(* calls may be stacked at which label, which writes to flags may be under *)
(* way there, and with these the two invariants about a held queue and     *)
(* about readiness.                                                        *)
(***************************************************************************)

MoveLabels == {"fwd", "fwdStore", "trap", "lock", "lockStore", "prepare", "ready",
               "qhb", "produce"}
IdleLabels == {"idle", "gc", "others", "halt", "stop", "stopSync", "unhalt", "sync"}
WaitLabels == {"wfi", "drain", "still"}
JogLabels  == {"jogHold", "jog1", "jog2", "jog3", "jogMode", "jogForce", "jogging",
               "jogHalted", "jogEnd", "jogFree"}

\* The callers of append_block, of wait_for_idle and of ON_IDLE, innermost first.
PlanStack(s) == \/ s = <<"loop">>
                \/ Head(s) \in {"jog2", "jog3", "jogMode"} /\ Tail(s) = <<"loop">>
WaitStack(s) == \/ s = <<"loop">>
                \/ Head(s) \in {"sync", "jogHold"} /\ Tail(s) = <<"loop">>
IdleStack(s) == \/ s = <<"loop">>
                \/ Head(s) = "jogHalted" /\ Tail(s) = <<"loop">>
                \/ Head(s) = "qhb" /\ PlanStack(Tail(s))
                \/ Head(s) \in {"drain", "still"} /\ WaitStack(Tail(s))

Frames ==
  /\ pc \in MoveLabels \cup {"queued"} => PlanStack(stack)
  /\ pc \in WaitLabels => WaitStack(stack)
  /\ pc \in IdleLabels => IdleStack(stack)
  /\ pc \in JogLabels => stack = <<"loop">>

\* A call puts its return label on top of the stack.
LEMMA Push ==
  ASSUME NEW s \in Seq(Labels), NEW l \in Labels
  PROVE  Head(<<l>> \o s) = l /\ Tail(<<l>> \o s) = s /\ <<l>> \o s # <<>>
<1> DEFINE c == <<l>> \o s
<1>1. /\ c \in Seq(Labels) /\ c # <<>> /\ Len(c) = Len(s) + 1 /\ c[1] = l
      /\ \A i \in 2 .. Len(s) + 1 : c[i] = s[i - 1]
  BY FramesOfCall
<1> HIDE DEF c
<1>2. /\ Head(c) = c[1] /\ Tail(c) \in Seq(Labels) /\ Len(Tail(c)) = Len(c) - 1
      /\ \A i \in 1 .. Len(c) - 1 : Tail(c)[i] = c[i + 1]
  BY <1>1, FramesOfReturn
<1>3. Len(Tail(c)) = Len(s) /\ \A i \in 1 .. Len(s) : Tail(c)[i] = s[i]
  BY <1>1, <1>2
<1>4. Tail(c) = s
  BY <1>2, <1>3, SeqEqual
<1> QED BY <1>1, <1>2, <1>4 DEF c

\* The bottom of the stack.
LEMMA Bottom ==
  /\ Head(<<"loop">>) = "loop" /\ Tail(<<"loop">>) = <<>> /\ <<"loop">> # <<>>
  /\ \A l : Head(<<l, "loop">>) = l /\ Tail(<<l, "loop">>) = <<"loop">> /\ <<l, "loop">> # <<>>
OBVIOUS

\* Every step of the thread calls and returns as its caller expects.
LEMMA FramesStep ==
  ASSUME IInv, Frames, Next
  PROVE  Frames'
<1>1. /\ pc \in Labels /\ stack \in Seq(Labels) /\ (pc = "loop" <=> stack = <<>>)
  BY DEF IInv, TypeOK, StackType, StackEnds
<1> USE <1>1, Bottom DEF Frames, PlanStack, WaitStack, IdleStack,
        MoveLabels, IdleLabels, WaitLabels, JogLabels, Labels, At, Goto, Return
<1>2. ASSUME NEW l, NEW r \in Labels, Call(l, r)
      PROVE  pc' = l /\ Head(stack') = r /\ Tail(stack') = stack /\ stack' # <<>>
  BY <1>2, Push DEF Call
<1>3. CASE LoadFlags \/ StoreFlags
  BY <1>3 DEF LoadFlags, StoreFlags
<1>4. CASE Idle
  BY <1>4 DEF Idle, IdleCheck, IdleCollect, IdleEnd, IdleHalt, IdleUnhalt
<1>5. CASE OnHalt
  BY <1>5 DEF OnHalt, Halt, HaltMotors, Unhalt, SyncPosition
<1>6. CASE ForwardPass \/ ForwardStore \/ Trapezoid \/ Lock \/ LockStore \/ Prepare
  BY <1>6 DEF ForwardPass, ForwardStore, Trapezoid, Lock, LockStore, Prepare,
     NextTrapezoid, TrapezoidKeeps
<1>7. CASE Ready \/ QueueRefuse \/ QueueRoom \/ ProduceHead \/ QueueCheck
  BY <1>7 DEF Ready, QueueRefuse, QueueRoom, ProduceHead, QueueCheck
<1>14. CASE QueueWait
  <2>1. pc' = "idle" /\ Head(stack') = "qhb" /\ Tail(stack') = stack /\ pc = "qhb"
    BY <1>2, <1>14 DEF QueueWait
  <2> QED BY <2>1
<1>8. CASE Wait
  <2>1. CASE WaitStart
    <3>1. pc = "wfi" /\ pc' = "drain" /\ stack' = stack
      BY <2>1 DEF WaitStart
    <3> QED BY <3>1
  <2>2. CASE WaitQueue
    <3>1. pc = "drain" /\ ((pc' = "still" /\ stack' = stack) \/ Call("idle", "drain"))
      BY <2>2 DEF WaitQueue
    <3>2. Call("idle", "drain") => pc' = "idle" /\ Head(stack') = "drain" /\ Tail(stack') = stack
      BY <1>2
    <3> QED BY <3>1, <3>2
  <2>3. CASE WaitMotors
    <3>1. pc = "still" /\ ((pc' = Head(stack) /\ stack' = Tail(stack)) \/ Call("idle", "still"))
      BY <2>3 DEF WaitMotors
    <3>2. Call("idle", "still") => pc' = "idle" /\ Head(stack') = "still" /\ Tail(stack') = stack
      BY <1>2
    <3> QED BY <3>1, <3>2
  <2> QED BY <1>8, <2>1, <2>2, <2>3 DEF Wait
<1>9. CASE JogMove
  <2>1. pc \in {"jog1", "jog2", "jog3"} /\ pc' \in {"trap", "fwd"}
    BY <1>9 DEF JogMove, PlanBlock, JogNext
  <2>2. JogNext[pc] \in {"jog2", "jog3", "jogMode"} /\ stack' = <<JogNext[pc]>> \o stack
    BY <1>9, <2>1 DEF JogMove, JogNext
  <2>3. Head(stack') = JogNext[pc] /\ Tail(stack') = stack
    BY <2>2, Push
  <2> QED BY <2>1, <2>2, <2>3
<1>10. CASE JogHold \/ JogRefused \/ JogMode \/ JogForce \/ Jogging \/ JogHalted \/ JogStopped
            \/ JogEnd \/ JogFree
  <2>1. CASE JogHold \/ JogRefused \/ JogForce \/ JogStopped \/ JogEnd \/ JogHalted
    <3>1. CASE JogRefused
      <4>1. pc \in {"jog1", "jog2", "jog3"} /\ pc' \in {"jog2", "jog3", "jogMode"} /\ stack' = stack
        BY <3>1 DEF JogRefused, JogNext
      <4> QED BY <4>1
    <3>2. CASE JogHold \/ JogForce \/ JogStopped
      <4>1. /\ pc \in {"jogHold", "jogForce", "jogging"} /\ pc' \in {"jog1", "jogging", "jogEnd"}
            /\ stack' = stack
        BY <3>2 DEF JogHold, JogForce, JogStopped
      <4> QED BY <4>1
    <3>3. CASE JogEnd \/ JogHalted
      <4>1. /\ pc \in {"jogEnd", "jogHalted"} /\ pc' \in {"jogFree", "jogEnd", "jogging"}
            /\ stack' = stack
        BY <3>3 DEF JogEnd, JogHalted
      <4> QED BY <4>1
    <3> QED BY <2>1, <3>1, <3>2, <3>3
  <2>2. CASE JogMode
    <3>1. /\ pc = "jogMode"
          /\ (pc' = Head(stack) /\ stack' = Tail(stack)) \/ (pc' = "jogForce" /\ stack' = stack)
      BY <2>2 DEF JogMode
    <3> QED BY <3>1
  <2>3. CASE Jogging
    <3>1. pc = "jogging" /\ pc' = "idle" /\ Head(stack') = "jogHalted" /\ Tail(stack') = stack
      BY <2>3, <1>2 DEF Jogging
    <3> QED BY <3>1
  <2>4. CASE JogFree
    <3>1. pc = "jogFree" /\ pc' = "wfi" /\ Head(stack') = "sync" /\ Tail(stack') = stack
      BY <2>4, <1>2 DEF JogFree
    <3> QED BY <3>1
  <2> QED BY <1>10, <2>1, <2>2, <2>3, <2>4
<1>11. CASE MainMove
  BY <1>11 DEF MainMove, PlanBlock
<1>12. CASE MainIdle \/ MainWait \/ MainHalt \/ MainUnhalt
  <2>1. stack' = <<"loop">>
    BY <1>12 DEF MainIdle, MainWait, MainHalt, MainUnhalt, Call
  <2> QED BY <1>12, <2>1 DEF MainIdle, MainWait, MainHalt, MainUnhalt, Call
<1>15. CASE MainAbort \/ MainJog
  <2>1. /\ pc = "loop"
        /\ \/ pc' = "wfi" /\ stack' \in {<<"sync", "loop">>, <<"jogHold", "loop">>}
           \/ pc' = "loop"
    BY <1>15 DEF MainAbort, MainJog
  <2>2. ASSUME NEW l \in {"sync", "jogHold"}, stack' = <<l, "loop">>
        PROVE  Head(stack') \in {"sync", "jogHold"} /\ Tail(stack') = <<"loop">>
    BY <2>2
  <2> QED BY <2>1, <2>2
<1>13. CASE Interrupt
  BY <1>13 DEF Interrupt, Tick, LimitHit, LimitClear, TimePasses, StopRequest, threadVars
<1> QED BY <1>3, <1>4, <1>5, <1>6, <1>7, <1>8, <1>9, <1>10, <1>11, <1>12, <1>13, <1>14, <1>15
        DEF Next, Thread, AppendBlock, Jog, Main
-----------------------------------------------------------------------------
(* What TIMER0 may change of a block and of flags, whatever it does: is_ticking, *)
(* recalculate and todo of blocks, flush and continuous_mode of flags; and what  *)
(* is left of the queue was in it before.                                        *)

KeptFlags == {"running", "allow_fetch", "hold_queue"}

Kept(s, t) ==
  /\ \A f \in KeptFlags : t.flags[f] = s.flags[f]
  /\ \A i \in Index : /\ t.ring[i].id = s.ring[i].id
                      /\ t.ring[i].steps = s.ring[i].steps
                      /\ t.ring[i].is_ready = s.ring[i].is_ready
                      /\ t.ring[i].locked = s.ring[i].locked
  /\ Span(t.isr, head_i) \subseteq Span(s.isr, head_i)

\* A write of other flags, of other parts of one block.
LEMMA KeptFlagsOnly ==
  ASSUME NEW s \in IsrStates, NEW f \in Flag \ KeptFlags, NEW v
  PROVE  \A g \in KeptFlags : [s.flags EXCEPT ![f] = v][g] = s.flags[g]
BY DEF IsrStates, Byte, KeptFlags, Flag

\* A flush empties the queue.
LEMMA FlushedKeeps ==
  ASSUME RingTypes, NEW s \in IsrStates
  PROVE  Kept(s, Flushed(s))
<1>1. CASE s.flags["flush"] = 1
  <2>1. Flushed(s) = [s EXCEPT !.isr = head_i, !.flags = [s.flags EXCEPT !["flush"] = 0]]
    BY <1>1 DEF Flushed, IsrStates
  <2>2. /\ Flushed(s).isr = head_i /\ Flushed(s).ring = s.ring
        /\ Flushed(s).flags = [s.flags EXCEPT !["flush"] = 0]
    BY <2>1 DEF IsrStates
  <2> QED BY <2>2, KeptFlagsOnly, SpanEnds DEF Kept, Flag, KeptFlags, RingTypes
<1>2. CASE s.flags["flush"] # 1
  BY <1>2 DEF Flushed, Kept
<1> QED BY <1>1, <1>2

\* A block is taken: its identity, its steps and its lock do not change.
LEMMA TakenKeeps ==
  ASSUME RingTypes, NEW s \in IsrStates
  PROVE  Kept(s, Taken(s))
<1> DEFINE b == [s.ring[s.isr] EXCEPT !.is_ticking = TRUE, !.recalculate = FALSE,
                                      !.todo = TickInfo(s), !.taken = TRUE,
                                      !.torn = s.ring[s.isr].torn \/ InHand(s.isr)]
<1>1. s.isr \in Index /\ s.ring \in [Index -> Block] /\ s.ring[s.isr] \in Block
  BY DEF IsrStates
<1>2. Taken(s) = [s EXCEPT !.ring = [s.ring EXCEPT ![s.isr] = b]]
  BY DEF Taken, IsrStates
<1>3. /\ Taken(s).isr = s.isr /\ Taken(s).flags = s.flags
      /\ Taken(s).ring = [s.ring EXCEPT ![s.isr] = b]
  BY <1>2 DEF IsrStates
<1>4. /\ b.id = s.ring[s.isr].id /\ b.steps = s.ring[s.isr].steps
      /\ b.is_ready = s.ring[s.isr].is_ready /\ b.locked = s.ring[s.isr].locked
  BY <1>1 DEF Block
<1> HIDE DEF b
<1> QED BY <1>1, <1>3, <1>4 DEF Kept

\* A block is retired, or run again in continuous mode.
LEMMA BlockFinishedKeeps ==
  ASSUME RingTypes, NEW s \in IsrStates, s.isr # head_i
  PROVE  Kept(s, BlockFinished(s))
<1>1. CASE s.flags["continuous_mode"] <= 1
  <2> DEFINE c == IF s.flags["continuous_mode"] = 1 THEN 2
                  ELSE s.flags["continuous_mode"]
  <2>1. BlockFinished(s) =
          [s EXCEPT !.isr = NextIndex(s.isr),
                    !.flags = [s.flags EXCEPT !["continuous_mode"] = c]]
    BY <1>1 DEF BlockFinished, IsrStates
  <2> HIDE DEF c
  <2>2. /\ BlockFinished(s).isr = NextIndex(s.isr) /\ BlockFinished(s).ring = s.ring
        /\ BlockFinished(s).flags = [s.flags EXCEPT !["continuous_mode"] = c]
    BY <2>1 DEF IsrStates
  <2>3. Span(NextIndex(s.isr), head_i) \subseteq Span(s.isr, head_i)
    BY SpanRetire DEF RingTypes, IsrStates
  <2> QED BY <2>2, <2>3, KeptFlagsOnly DEF Kept, Flag, KeptFlags
<1>2. CASE ~(s.flags["continuous_mode"] <= 1)
  BY <1>2 DEF BlockFinished, Kept
<1> QED BY <1>1, <1>2

\* Whether a block is running changes nothing of this.
LEMMA BlockKeeps ==
  ASSUME NEW s \in IsrStates, NEW b, NEW mv
  PROVE  Kept(s, [s EXCEPT !.block = b]) /\ Kept(s, [s EXCEPT !.block = b, !.moving = mv])
BY DEF Kept, IsrStates

\* What two steps of the interrupt keep, one after the other.
LEMMA KeptTransitive ==
  ASSUME NEW s, NEW t, NEW u, Kept(s, t), Kept(t, u)
  PROVE  Kept(s, u)
BY DEF Kept

\* get_next_block and start_next_block.
LEMMA NextBlockKeeps ==
  ASSUME RingTypes, NEW s \in IsrStates, InOrder(s)
  PROVE  Kept(s, NextBlock(s))
<1> DEFINE f == Flushed(s)
           k == Taken(f)
<1>1. f \in IsrStates /\ InOrder(f) /\ Kept(s, f)
  BY FlushedSafe, FlushedKeeps
<1>2. k \in IsrStates /\ InOrder(k) /\ k.isr = f.isr /\ Kept(s, k)
  BY <1>1, TakenSafe, TakenKeeps, KeptTransitive
<1>3. CASE s.flags["hold_queue"] = 1
  BY <1>3, BlockKeeps DEF NextBlock
<1>4. CASE s.flags["hold_queue"] # 1 /\ ~MayFetch(f)
  <2>1. NextBlock(s) = [f EXCEPT !.block = NoBlock]
    BY <1>4 DEF NextBlock
  <2> QED BY <1>1, <2>1, BlockKeeps, KeptTransitive
<1>5. CASE s.flags["hold_queue"] # 1 /\ MayFetch(f)
  <2>1. NextBlock(s) = StartNextBlock(k, f.isr) /\ k.isr # head_i
    BY <1>2, <1>5 DEF NextBlock, MayFetch
  <2>2. CASE Active(k, f.isr) = {}
    <3>1. BlockFinished(k) \in IsrStates /\ Kept(k, BlockFinished(k))
      BY <1>2, <2>1, BlockFinishedSafe, BlockFinishedKeeps
    <3>2. NextBlock(s) = [BlockFinished(k) EXCEPT !.block = NoBlock]
      BY <2>1, <2>2 DEF StartNextBlock
    <3>3. Kept(BlockFinished(k), NextBlock(s))
      BY <3>1, <3>2, BlockKeeps
    <3> QED BY <1>2, <3>1, <3>3, KeptTransitive
  <2>3. CASE Active(k, f.isr) # {}
    <3> DEFINE mv == [m \in Motors |-> m \in Active(k, f.isr) \/ k.moving[m]]
    <3>1. NextBlock(s) = [k EXCEPT !.block = f.isr, !.moving = mv]
      BY <1>2, <2>1, <2>3 DEF StartNextBlock, IsrStates
    <3> HIDE DEF mv
    <3>2. Kept(k, [k EXCEPT !.block = f.isr, !.moving = mv])
      BY <1>2, BlockKeeps, Zenon
    <3> QED BY <1>2, <3>1, <3>2, KeptTransitive
  <2> QED BY <2>2, <2>3
<1> QED BY <1>3, <1>4, <1>5

\* The steps of a tick change todo of the running block.
LEMMA SteppedKeeps ==
  ASSUME RingTypes, NEW s \in IsrStates, s.block # NoBlock, NEW S
  PROVE  Kept(s, Stepped(s, S))
<1> DEFINE i == s.block
           last(m) == ~s.moving[m] \/ s.ring[i].todo[m] = 1
           todo == [m \in Motors |-> IF m \notin S THEN s.ring[i].todo[m]
                                     ELSE IF last(m) THEN 0 ELSE s.ring[i].todo[m] - 1]
           mv == [m \in Motors |-> s.moving[m] /\ ~(m \in S /\ last(m))]
           ow == [m \in Motors |-> IF m \in S THEN Sat(s.owed[m] - 1) ELSE s.owed[m]]
           b == [s.ring[i] EXCEPT !.todo = todo]
<1>1. i \in Index /\ s.ring \in [Index -> Block] /\ s.ring[i] \in Block
  BY DEF IsrStates
<1>2. Stepped(s, S) = [s EXCEPT !.ring = [s.ring EXCEPT ![i] = b], !.moving = mv, !.owed = ow]
  BY <1>1 DEF Stepped, IsrStates
<1>3. /\ b.id = s.ring[i].id /\ b.steps = s.ring[i].steps
      /\ b.is_ready = s.ring[i].is_ready /\ b.locked = s.ring[i].locked
  BY <1>1 DEF Block
<1> HIDE DEF b, mv, ow
<1>4. /\ Stepped(s, S).isr = s.isr /\ Stepped(s, S).flags = s.flags
      /\ Stepped(s, S).ring = [s.ring EXCEPT ![i] = b]
  BY <1>2 DEF IsrStates
<1> QED BY <1>1, <1>3, <1>4 DEF Kept

\* A whole interrupt.
LEMMA TickKeeps ==
  ASSUME RingTypes, NEW s0 \in IsrStates, InOrder(s0), Owned(s0), NEW S, Due(Begun(s0), S)
  PROVE  Kept(s0, StepTick(Begun(s0), S))
<1> DEFINE s == Begun(s0)
           t == Stepped(s, S)
<1>1. s \in IsrStates /\ InOrder(s) /\ Owned(s) /\ Kept(s0, s)
  BY NextBlockSafe, NextBlockKeeps DEF Begun, Kept
<1>2. CASE s.block = NoBlock
  BY <1>1, <1>2 DEF StepTick
<1>3. CASE s.block # NoBlock /\ halted
  BY <1>1, <1>3, BlockKeeps, KeptTransitive DEF StepTick
<1>4. CASE s.block # NoBlock /\ ~halted
  <2>1. t \in IsrStates /\ t.isr = s.isr /\ Kept(s, t)
    BY <1>1, <1>4, SteppedSafe, SteppedKeeps DEF Due
  <2>2. InOrder(t) /\ t.isr # head_i
    BY <1>1, <1>4, <2>1 DEF InOrder, Owned
  <2>3. /\ BlockFinished(t) \in IsrStates /\ InOrder(BlockFinished(t))
        /\ Kept(t, BlockFinished(t))
    BY <2>1, <2>2, BlockFinishedSafe, BlockFinishedKeeps
  <2>4. Kept(BlockFinished(t), NextBlock(BlockFinished(t)))
    BY <2>3, NextBlockKeeps
  <2>5. StepTick(s, S) = t \/ StepTick(s, S) = NextBlock(BlockFinished(t))
    BY <1>4 DEF StepTick, RunBlock
  <2> QED BY <1>1, <2>1, <2>3, <2>4, <2>5, KeptTransitive
<1> QED BY <1>2, <1>3, <1>4
-----------------------------------------------------------------------------
(* Which writes to flags the thread may have under way, and where.          *)

A0 == Set("allow_fetch", 0)
A1 == Set("allow_fetch", 1)
F1 == Set("flush", 1)
H0 == Set("hold_queue", 0)
H1 == Set("hold_queue", 1)
C0 == Set("continuous_mode", 0)
C1 == Set("continuous_mode", 1)
R0 == Set("running", 0)
R1 == Set("running", 1)

\* Before the flush of a halt is stored, and after.
HaltsFlushing == {<<A0, F1, H0, C0>>, <<F1, H0, C0>>}
HaltsFlushed  == {<<H0, C0>>, <<C0>>}

Writes ==
  \/ ops = <<>>
  \/ /\ pc \in {"gc", "idle", "loop", "jog2", "jog3", "jogMode", "jogging"}
     /\ ops \in {<<A0>>, <<A1>>}
  \/ pc \in {"loop", "sync", "jogHold"} /\ ops = <<R1>>
  \/ pc = "drain" /\ ops = <<R0>>
  \/ pc = "jog1" /\ ops = <<H1>>
  \/ pc = "jogForce" /\ ops \in {<<C1, H0>>, <<H0>>}
  \/ pc = "jogFree" /\ ops = <<C0>>
  \/ pc \in {"stop", "stopSync"} /\ ops \in HaltsFlushing \cup HaltsFlushed
  \/ pc = "wfi" /\ ops \in {<<A0, F1>>, <<F1>>}

\* A load that is under way belongs to a write.
Loading == reg # <<>> => ops # <<>>

\* A write that is done leaves the writes after it.
LEMMA Pop ==
  /\ \A a : Head(<<a>>) = a /\ Tail(<<a>>) = <<>> /\ <<a>> # <<>>
  /\ \A a, b : Head(<<a, b>>) = a /\ Tail(<<a, b>>) = <<b>> /\ <<a, b>> # <<>>
  /\ \A a, b, c : Head(<<a, b, c>>) = a /\ Tail(<<a, b, c>>) = <<b, c>> /\ <<a, b, c>> # <<>>
  /\ \A a, b, c, d : /\ Head(<<a, b, c, d>>) = a /\ Tail(<<a, b, c, d>>) = <<b, c, d>>
                     /\ <<a, b, c, d>> # <<>>
OBVIOUS

\* A step that starts at a label starts no write, or the writes of that label.
LEMMA WritesStep ==
  ASSUME IInv, Frames, Writes, Loading, Next
  PROVE  Writes' /\ Loading'
<1>1. /\ pc \in Labels /\ (pc = "loop" <=> stack = <<>>)
  BY DEF IInv, TypeOK, StackType, StackEnds
<1> USE <1>1, Bottom DEF Loading, Writes, HaltsFlushing, HaltsFlushed, At, Goto, Return, Call,
        Write, NoWrite, A0, A1, F1, H0, H1, C0, C1, R0, R1
<1>2. CASE LoadFlags
  BY <1>2 DEF LoadFlags
<1>3. CASE StoreFlags
  <2> HIDE DEF A0, A1, F1, H0, H1, C0, C1, R0, R1
  <2>1. ops # <<>> /\ ops' = Tail(ops) /\ pc' = pc /\ reg' = <<>>
    BY <1>3 DEF StoreFlags
  <2>2. CASE \E a : ops = <<a>>
    BY <2>1, <2>2, Pop
  <2>3. CASE pc \in {"stop", "stopSync"} /\ ops = <<A0, F1, H0, C0>>
    BY <2>1, <2>3, Pop
  <2>4. CASE pc \in {"stop", "stopSync"} /\ ops = <<F1, H0, C0>>
    BY <2>1, <2>4, Pop
  <2>5. CASE pc \in {"stop", "stopSync"} /\ ops = <<H0, C0>>
    BY <2>1, <2>5, Pop
  <2>6. CASE pc = "jogForce" /\ ops = <<C1, H0>>
    BY <2>1, <2>6, Pop
  <2>7. CASE pc = "wfi" /\ ops = <<A0, F1>>
    BY <2>1, <2>7, Pop
  <2> QED BY <2>1, <2>2, <2>3, <2>4, <2>5, <2>6, <2>7
<1>4. CASE Idle
  BY <1>4, Pop DEF Idle, IdleCheck, IdleCollect, IdleEnd, IdleHalt, IdleUnhalt, CheckQueue, ThreadKeeps
<1>5. CASE OnHalt
  BY <1>5 DEF OnHalt, Halt, HaltMotors, Unhalt, SyncPosition, ThreadKeeps
<1>6. CASE ForwardPass \/ ForwardStore \/ Trapezoid \/ Lock \/ LockStore \/ Prepare
  BY <1>6 DEF ForwardPass, ForwardStore, Trapezoid, Lock, LockStore, Prepare,
     TrapezoidKeeps, ThreadKeeps
<1>7. CASE Ready \/ QueueWait \/ QueueRefuse \/ QueueRoom \/ ProduceHead
  BY <1>7 DEF Ready, QueueWait, QueueRefuse, QueueRoom, ProduceHead, ThreadKeeps
<1>8. CASE QueueCheck
  <2>1. pc' \in {"loop", "jog2", "jog3", "jogMode"}
    BY <1>8, Bottom DEF QueueCheck, Frames, PlanStack, MoveLabels
  <2> QED BY <1>8, <2>1, Pop DEF QueueCheck, CheckQueue, ThreadKeeps
<1>9. CASE Wait
  <2>1. WaitStack(stack)
    BY <1>9 DEF Wait, WaitStart, WaitQueue, WaitMotors, Frames, WaitLabels
  <2> QED BY <1>9, <2>1, Bottom, Pop
     DEF Wait, WaitStart, WaitQueue, WaitMotors, WaitStack, CheckQueue, ThreadKeeps
<1>10. CASE Jog
  BY <1>10, Pop DEF Jog, JogHold, JogMove, JogRefused, JogMode, JogForce, Jogging, JogHalted,
     JogStopped, JogEnd, JogFree, JogKeeps, PlanBlock, CheckQueue, ThreadKeeps
<1>11. CASE Main
  BY <1>11, Pop DEF Main, MainIdle, MainMove, MainWait, MainAbort, MainHalt, MainUnhalt, MainJog,
     JogKeeps, PlanBlock, ThreadKeeps
<1>12. CASE Interrupt
  BY <1>12 DEF Interrupt, Tick, LimitHit, LimitClear, TimePasses, StopRequest, threadVars
<1> QED BY <1>2, <1>3, <1>4, <1>5, <1>6, <1>7, <1>8, <1>9, <1>10, <1>11, <1>12
        DEF Next, Thread, AppendBlock
-----------------------------------------------------------------------------
(* TIMER0 as the thread sees it.                                            *)

\* What no tick changes, and what it leaves of the queue.
LEMMA TickFrame ==
  ASSUME IInv, Tick
  PROVE  /\ UNCHANGED <<head_i, tail_i, halted, pc, stack, ops, reg, ti, word, nextId, saved, limit>>
         /\ \A f \in KeptFlags : flags'[f] = flags[f]
         /\ \A i \in Index : /\ ring'[i].id = ring[i].id /\ ring'[i].steps = ring[i].steps
                             /\ ring'[i].is_ready = ring[i].is_ready
                             /\ ring'[i].locked = ring[i].locked
         /\ Span(isr_tail_i', head_i) \subseteq Span(isr_tail_i, head_i)
<1> DEFINE s == IsrState
<1>1. RingTypes /\ s \in IsrStates /\ InOrder(s) /\ Owned(s)
  BY DEF IInv, IndicesOrdered, RunningBlockOwned, TypeOK, RingType, FlagsType, MotorType, ShellType,
     RingTypes, IsrState, IsrStates, InOrder, Owned
<1>2. PICK S \in SUBSET Motors :
        LET t == StepTick(Begun(s), S)
        IN /\ Due(Begun(s), S)
           /\ isr_tail_i' = t.isr /\ ring' = t.ring /\ flags' = t.flags
  BY DEF Tick
<1> DEFINE t == StepTick(Begun(s), S)
<1>3. Kept(s, t)
  BY <1>1, <1>2, TickKeeps
<1>4. s.isr = isr_tail_i /\ s.ring = ring /\ s.flags = flags
  BY DEF IsrState
<1>5. isr_tail_i' = t.isr /\ ring' = t.ring /\ flags' = t.flags
  BY <1>2
<1> HIDE DEF s, t
<1>6. UNCHANGED <<head_i, tail_i, halted, pc, stack, ops, reg, ti, word, nextId, saved, limit>>
  BY DEF Tick, threadVars, shellVars
<1> QED BY <1>3, <1>4, <1>5, <1>6 DEF Kept

\* Nothing is started while the queue is held or empty.
LEMMA TickStill ==
  ASSUME IInv, Tick, current_block = NoBlock, flags["hold_queue"] = 1 \/ Empty
  PROVE  /\ current_block' = NoBlock /\ moving' = moving
         /\ flags["hold_queue"] = 1 => UNCHANGED <<isr_tail_i, ring, flags>>
<1> DEFINE s == IsrState
<1>1. /\ s.block = NoBlock /\ s.moving = moving /\ s.isr = isr_tail_i /\ s.ring = ring
      /\ s.flags = flags
  BY DEF IsrState
<1>2. /\ NextBlock(s).block = NoBlock /\ NextBlock(s).moving = moving
      /\ flags["hold_queue"] = 1 =>
           /\ NextBlock(s).isr = isr_tail_i /\ NextBlock(s).ring = ring
           /\ NextBlock(s).flags = flags
  <2>1. CASE flags["hold_queue"] = 1
    <3>1. NextBlock(s) = [s EXCEPT !.block = NoBlock]
      BY <1>1, <2>1 DEF NextBlock
    <3> QED BY <1>1, <3>1 DEF IsrState
  <2>2. CASE flags["hold_queue"] # 1
    <3>1. isr_tail_i = head_i
      BY <2>2, LengthAssumption
      DEF IInv, TypeOK, RingType, IndicesOrdered, Ordered, Dist, Index, Empty, IsEmpty
    <3>2. Flushed(s).isr = head_i /\ Flushed(s).moving = moving
      BY <1>1, <3>1 DEF Flushed, IsrState
    <3>3. NextBlock(s) = [Flushed(s) EXCEPT !.block = NoBlock]
      BY <1>1, <2>2, <3>2 DEF NextBlock, MayFetch
    <3> QED BY <1>1, <2>2, <3>2, <3>3 DEF Flushed, IsrState
  <2> QED BY <2>1, <2>2
<1>3. Begun(s) = NextBlock(s) /\ \A S : StepTick(Begun(s), S) = NextBlock(s)
  BY <1>1, <1>2 DEF Begun, StepTick
<1> HIDE DEF s
<1> QED BY <1>2, <1>3 DEF Tick, s

-----------------------------------------------------------------------------
(* A held queue.  Whoever holds it waited for the queue to drain first, and *)
(* the byte the thread stores back has the hold_queue it would load again,   *)
(* as only the thread writes it.                                             *)

Holding == \/ flags["hold_queue"] = 1
           \/ pc = "jogHold"
           \/ pc = "jog1" /\ ops # <<>>

HoldInv ==
  /\ reg # <<>> => Head(reg)["hold_queue"] = flags["hold_queue"]
  /\ pc = "jogHold" \/ (pc = "jog1" /\ ops # <<>>) => Empty
  /\ Holding => current_block = NoBlock /\ \A m \in Motors : ~moving[m]

\* The thread holds the queue only after wait_for_idle.
LEMMA HoldThread ==
  ASSUME IInv, Frames, Writes, Loading, HoldInv, Thread
  PROVE  HoldInv'
<1>1. /\ pc \in Labels /\ (pc = "loop" <=> stack = <<>>) /\ flags \in Byte
      /\ current_block \in Index \cup {NoBlock}
  BY DEF IInv, TypeOK, StackType, StackEnds, FlagsType, MotorType
<1>2. CASE LoadFlags
  <2>1. reg' = <<flags>> /\ Head(reg') = flags
    BY <1>2 DEF LoadFlags
  <2> QED BY <1>2, <2>1 DEF LoadFlags, HoldInv, Holding, Empty, ringVars, motorVars
<1>3. CASE StoreFlags
  <2>1. /\ reg' = <<>> /\ ops' = Tail(ops) /\ ops # <<>> /\ reg # <<>>
        /\ UNCHANGED <<pc, head_i, tail_i, current_block, moving>>
    BY <1>3 DEF StoreFlags, ringVars, motorVars
  <2>2. /\ Head(reg) \in Byte /\ Head(ops) \in Op
        /\ flags' = [Head(reg) EXCEPT ![Head(ops).f] = Head(ops).v]
    BY <1>3, HeadTailProperties DEF StoreFlags, IInv, TypeOK, FlagsType
  <2>3. CASE Head(ops) = H1
    <3>1. pc = "jog1"
      BY <2>1, <2>3, Pop DEF Writes, HaltsFlushing, HaltsFlushed, Set,
         A0, A1, F1, H0, H1, C0, C1, R0, R1
    <3> QED BY <2>1, <3>1 DEF HoldInv, Holding, Empty
  <2>4. CASE Head(ops) # H1
    <3>1. flags'["hold_queue"] = 1 => Head(reg)["hold_queue"] = 1
      <4>1. Head(ops) = [f |-> Head(ops).f, v |-> Head(ops).v]
        BY <2>2 DEF Op
      <4> QED BY <2>2, <2>4, <4>1 DEF Op, Byte, H1, Set, Flag
    <3> QED BY <2>1, <3>1 DEF HoldInv, Holding, Empty
  <2> QED BY <2>3, <2>4
<1>4. CASE Idle
  <2>1. IdleEnd => pc' \notin {"jogHold", "jog1"}
    BY <1>4 DEF IdleEnd, At, Return, Frames, IdleStack, IdleLabels, PlanStack, WaitStack
  <2>2. IdleCheck \/ IdleCollect \/ IdleHalt \/ IdleUnhalt => pc' \notin {"jogHold", "jog1"}
    BY DEF IdleCheck, IdleCollect, IdleHalt, IdleUnhalt, Goto
  <2> QED BY <1>4, <2>1, <2>2 DEF Idle, IdleCheck, IdleCollect, IdleEnd, IdleHalt, IdleUnhalt,
     ThreadKeeps, RingKept, MotionKept, HoldInv, Holding
<1>5. CASE OnHalt
  <2>1. pc' \notin {"jogHold", "jog1"}
    BY <1>5, Bottom DEF OnHalt, Halt, HaltMotors, Unhalt, SyncPosition, At, Return, Goto,
       Frames, IdleStack, IdleLabels, PlanStack, WaitStack
  <2>2. \A m \in Motors : ~moving[m] => ~moving'[m]
    BY <1>5 DEF OnHalt, Halt, HaltMotors, Unhalt, SyncPosition
  <2> QED BY <1>5, <2>1, <2>2 DEF OnHalt, Halt, HaltMotors, Unhalt, SyncPosition,
     ThreadKeeps, RingKept, HoldInv, Holding
<1>6. CASE AppendBlock
  <2>1. pc' \notin {"jogHold", "jog1"}
    BY <1>6, Bottom DEF AppendBlock, ForwardPass, ForwardStore, Trapezoid, Lock, LockStore, Prepare,
       Ready, QueueWait, QueueRefuse, QueueRoom, ProduceHead, QueueCheck, NextTrapezoid,
       At, Return, Goto, Call, Frames, PlanStack, MoveLabels
  <2> QED BY <1>6, <2>1 DEF AppendBlock, ForwardPass, ForwardStore, Trapezoid, Lock, LockStore,
     Prepare, TrapezoidKeeps, Ready, QueueWait, QueueRefuse, QueueRoom, ProduceHead, QueueCheck,
     ThreadKeeps, MotionKept, HoldInv, Holding
<1>7. CASE Wait
  <2>1. pc' = "jogHold" => Empty /\ current_block = NoBlock /\ \A m \in Motors : ~moving[m]
    BY <1>7, EmptyMeansIdle DEF Wait, WaitStart, WaitQueue, WaitMotors, IsIdle, Goto, Call
  <2>2. pc' # "jog1"
    BY <1>7, Bottom DEF Wait, WaitStart, WaitQueue, WaitMotors, At, Return, Goto, Call,
       Frames, WaitStack, WaitLabels
  <2> QED BY <1>7, <2>1, <2>2 DEF Wait, WaitStart, WaitQueue, WaitMotors, Empty,
     ThreadKeeps, RingKept, MotionKept, HoldInv, Holding
<1>8. CASE Jog
  <2>1. pc' # "jogHold" /\ (pc' = "jog1" => JogHold)
    <3>1. \A l \in DOMAIN JogNext : JogNext[l] \in {"jog2", "jog3", "jogMode"}
      BY DEF JogNext
    <3>2. JogMove \/ JogRefused => pc' \notin {"jogHold", "jog1"}
      BY <3>1 DEF JogMove, JogRefused, PlanBlock, Goto
    <3>3. JogMode => pc' \in {"loop", "jogForce"}
      BY Bottom DEF JogMode, At, Return, Goto, Frames, JogLabels
    <3> QED BY <1>8, <3>2, <3>3 DEF Jog, JogHold, JogForce, Jogging, JogHalted,
       JogStopped, JogEnd, JogFree, Goto, Call
  <2>2. UNCHANGED <<flags, current_block, moving, reg, head_i, tail_i>>
    BY <1>8 DEF Jog, JogHold, JogMove, JogRefused, JogMode, JogForce, Jogging, JogHalted,
       JogStopped, JogEnd, JogFree, PlanBlock, JogKeeps, ThreadKeeps, RingKept, MotionKept
  <2>3. JogHold => pc = "jogHold"
    BY DEF JogHold, At
  <2> QED BY <2>1, <2>2, <2>3 DEF HoldInv, Holding, Empty
<1>9. CASE Main
  <2>1. pc' \notin {"jogHold", "jog1"}
    BY <1>9 DEF Main, MainIdle, MainMove, MainWait, MainAbort, MainHalt, MainUnhalt, MainJog,
       PlanBlock, At, Goto, Call
  <2>2. UNCHANGED <<flags, current_block, moving, reg>>
    BY <1>9 DEF Main, MainIdle, MainMove, MainWait, MainAbort, MainHalt, MainUnhalt, MainJog,
       PlanBlock, JogKeeps, ThreadKeeps, MotionKept
  <2> QED BY <2>1, <2>2 DEF HoldInv, Holding
<1> QED BY <1>2, <1>3, <1>4, <1>5, <1>6, <1>7, <1>8, <1>9 DEF Thread

\* The interrupts start no block of a held queue, and never write hold_queue.
LEMMA HoldInterrupt ==
  ASSUME IInv, HoldInv, Interrupt
  PROVE  HoldInv'
<1>1. CASE Tick
  <2>1. /\ UNCHANGED <<head_i, tail_i, pc, ops, reg>>
        /\ flags'["hold_queue"] = flags["hold_queue"]
    BY <1>1, TickFrame DEF KeptFlags
  <2>2. Holding => current_block' = NoBlock /\ moving' = moving
    BY <1>1, TickStill DEF HoldInv, Holding
  <2> QED BY <2>1, <2>2 DEF HoldInv, Holding, Empty
<1>2. CASE LimitHit
  <2>1. flags'["hold_queue"] = flags["hold_queue"]
    BY <1>2 DEF LimitHit, IInv, TypeOK, FlagsType, Byte, Flag
  <2> QED BY <1>2, <2>1 DEF LimitHit, ringVars, threadVars, HoldInv, Holding, Empty
<1>3. CASE LimitClear \/ TimePasses \/ StopRequest
  BY <1>3 DEF LimitClear, TimePasses, StopRequest, ringVars, motorVars, threadVars,
     HoldInv, Holding, Empty
<1> QED BY <1>1, <1>2, <1>3 DEF Interrupt
-----------------------------------------------------------------------------
(* Readiness.  A block is ready when it is queued and, from ready() on, while *)
(* queue_head_block waits for room: the ON_IDLE it calls collects other blocks.*)

OnTop(l) == stack # <<>> /\ Head(stack) = l
HeadReady == pc \in {"qhb", "produce"} \/ OnTop("qhb")

ReadyInv ==
  /\ \A i \in Span(isr_tail_i, head_i) : ring[i].is_ready
  /\ HeadReady => ring[head_i].is_ready

\* Only ON_IDLE, and what it calls, is called by queue_head_block.
LEMMA WaitingForRoom ==
  ASSUME IInv, Frames, OnTop("qhb")
  PROVE  pc \in IdleLabels
BY Bottom DEF IInv, TypeOK, StackType, StackEnds, Labels, OnTop, Frames, PlanStack, WaitStack,
   IdleLabels, WaitLabels, MoveLabels, JogLabels

\* The block the collector clears is neither queued nor the head.
LEMMA CollectedIsFree ==
  ASSUME IInv, tail_i # isr_tail_i
  PROVE  tail_i \notin Span(isr_tail_i, head_i) /\ tail_i # head_i
<1>1. tail_i \in Span(tail_i, isr_tail_i)
  BY SpanRetire DEF IInv, TypeOK, RingType
<1>2. tail_i \notin Span(isr_tail_i, head_i)
  BY <1>1, SpanSplit DEF IInv, TypeOK, RingType, IndicesOrdered
<1> QED BY <1>2, LengthAssumption
    DEF IInv, TypeOK, RingType, IndicesOrdered, Ordered, Dist, Index

\* What produce_head adds to the queue.
LEMMA ProducedIsQueued ==
  ASSUME IInv, ProduceHead
  PROVE  /\ Span(isr_tail_i', head_i') = Span(isr_tail_i, head_i) \cup {head_i}
         /\ isr_tail_i # NextIndex(head_i)
<1>1. isr_tail_i # NextIndex(head_i)
  BY OrderedProduce DEF ProduceHead, Full, IInv, TypeOK, RingType, IndicesOrdered
<1> QED BY <1>1, SpanProduce DEF ProduceHead, ThreadKeeps, IInv, TypeOK, RingType

\* recalculate() and a new plan leave is_ready of every block alone.
LEMMA PlanKeepsReady ==
  ASSUME IInv, \/ ForwardPass \/ ForwardStore \/ Trapezoid \/ Lock \/ LockStore \/ Prepare
               \/ \E mv \in MoveSet : PlanBlock(mv)
  PROVE  /\ \A i \in Index : ring'[i].is_ready = ring[i].is_ready
         /\ UNCHANGED <<head_i, isr_tail_i>>
<1>1. /\ ring \in [Index -> Block] /\ ti \in Index /\ head_i \in Index
      /\ NextIndex(ti) \in Index
  BY NextIndexType DEF IInv, TypeOK, RingType, WalkType
<1>2. ASSUME NEW i \in Index, NEW w, SetWord(i, w)
      PROVE  \A j \in Index : ring'[j].is_ready = ring[j].is_ready
  <2> DEFINE b == [ring[i] EXCEPT !.is_ticking = w.is_ticking, !.locked = w.locked,
                                  !.recalculate = w.recalculate]
  <2>1. ring' = [ring EXCEPT ![i] = b] /\ b.is_ready = ring[i].is_ready
    BY <1>1, <1>2 DEF SetWord, Block
  <2> HIDE DEF b
  <2> QED BY <1>1, <2>1
<1>3. CASE ForwardPass \/ Trapezoid \/ Lock
  BY <1>3 DEF ForwardPass, Trapezoid, Lock, TrapezoidKeeps, ThreadKeeps
<1>4. CASE ForwardStore \/ LockStore
  BY <1>1, <1>2, <1>4 DEF ForwardStore, LockStore, TrapezoidKeeps, ThreadKeeps
<1>5. CASE Prepare
  <2> DEFINE b == [ring[ti] EXCEPT !.todo = ring[ti].steps, !.locked = FALSE]
  <2>1. ring' = [ring EXCEPT ![ti] = b] /\ b.is_ready = ring[ti].is_ready
    BY <1>1, <1>5 DEF Prepare, Block
  <2> HIDE DEF b
  <2> QED BY <1>1, <1>5, <2>1 DEF Prepare, TrapezoidKeeps, ThreadKeeps
<1>6. ASSUME NEW mv \in MoveSet, PlanBlock(mv)
      PROVE  /\ \A i \in Index : ring'[i].is_ready = ring[i].is_ready
             /\ UNCHANGED <<head_i, isr_tail_i>>
  <2> DEFINE b == [ring[head_i] EXCEPT !.id = nextId, !.steps = mv, !.recalculate = TRUE]
  <2>1. ring' = [ring EXCEPT ![head_i] = b] /\ UNCHANGED <<head_i, isr_tail_i>>
    BY <1>6 DEF PlanBlock, ThreadKeeps
  <2>2. ring[head_i] \in Block
    BY <1>1
  <2>3. b.is_ready = ring[head_i].is_ready
    BY <2>2 DEF Block
  <2> HIDE DEF b
  <2> QED BY <1>1, <2>1, <2>3
<1> QED BY <1>3, <1>4, <1>5, <1>6

\* No step queues a block that is not ready.
LEMMA ReadyStep ==
  ASSUME IInv, Frames, ReadyInv, Next
  PROVE  ReadyInv'
<1>1. /\ ring \in [Index -> Block] /\ head_i \in Index /\ tail_i \in Index
      /\ isr_tail_i \in Index /\ pc \in Labels /\ stack \in Seq(Labels)
      /\ (pc = "loop" <=> stack = <<>>)
      /\ Span(isr_tail_i, head_i) \subseteq Index
  BY DEF IInv, TypeOK, RingType, StackType, StackEnds, Span
<1>2. ASSUME UNCHANGED <<head_i, isr_tail_i>>, HeadReady' => HeadReady,
             \A i \in Index : ring'[i].is_ready = ring[i].is_ready
      PROVE  ReadyInv'
  BY <1>1, <1>2 DEF ReadyInv
<1>3. CASE LoadFlags \/ StoreFlags
  BY <1>2, <1>3 DEF LoadFlags, StoreFlags, ringVars, HeadReady, OnTop
<1>4. CASE IdleCollect
  <2>1. HeadReady' => HeadReady
    BY <1>4 DEF IdleCollect, At, Goto, HeadReady, OnTop
  <2>2. CASE tail_i = isr_tail_i
    BY <1>2, <1>4, <2>1, <2>2 DEF IdleCollect, ThreadKeeps
  <2>3. CASE tail_i # isr_tail_i
    <3>1. tail_i \notin Span(isr_tail_i, head_i) /\ tail_i # head_i
      BY <2>3, CollectedIsFree
    <3>2. ring' = [ring EXCEPT ![tail_i] = Cleared] /\ UNCHANGED <<head_i, isr_tail_i>>
      BY <1>4, <2>3 DEF IdleCollect, ThreadKeeps
    <3> QED BY <1>1, <2>1, <3>1, <3>2 DEF ReadyInv
  <2> QED BY <2>2, <2>3
<1>5. CASE IdleCheck \/ IdleEnd \/ IdleHalt \/ IdleUnhalt \/ OnHalt
  <2>1. HeadReady' => HeadReady
    BY <1>1, <1>5, Bottom DEF IdleCheck, IdleEnd, IdleHalt, IdleUnhalt,
       OnHalt, Halt, HaltMotors, Unhalt, SyncPosition, At, Goto, Return, HeadReady, OnTop,
       Frames, IdleLabels, IdleStack, PlanStack, WaitStack
  <2> QED BY <1>2, <1>5, <2>1 DEF IdleCheck, IdleEnd, IdleHalt, IdleUnhalt,
      OnHalt, Halt, HaltMotors, Unhalt, SyncPosition, ThreadKeeps, RingKept
<1>6. CASE ForwardPass \/ ForwardStore \/ Trapezoid \/ Lock \/ LockStore \/ Prepare
  <2>1. HeadReady' => HeadReady
    BY <1>6 DEF ForwardPass, ForwardStore, Trapezoid, Lock, LockStore, Prepare, NextTrapezoid,
       TrapezoidKeeps, HeadReady, OnTop
  <2> QED BY <1>2, <1>6, <2>1, PlanKeepsReady
<1>7. CASE Ready
  <2>1. /\ ring' = [ring EXCEPT ![head_i].is_ready = TRUE]
        /\ UNCHANGED <<head_i, isr_tail_i>>
    BY <1>7 DEF Ready, ThreadKeeps
  <2>2. ring'[head_i].is_ready
    BY <1>1, <2>1 DEF Block
  <2>3. \A i \in Index \ {head_i} : ring'[i] = ring[i]
    BY <1>1, <2>1
  <2>4. head_i \notin Span(isr_tail_i, head_i)
    BY <1>1, SpanEnds
  <2> QED BY <1>1, <2>1, <2>2, <2>3, <2>4 DEF ReadyInv
<1>8. CASE QueueWait \/ QueueRoom
  <2>1. HeadReady
    BY <1>8 DEF QueueWait, QueueRoom, At, HeadReady
  <2> QED BY <1>2, <1>8, <2>1 DEF QueueWait, QueueRoom, ThreadKeeps, RingKept
<1>9. CASE QueueRefuse
  <2>1. ~HeadReady'
    BY <1>1, <1>9, Bottom DEF QueueRefuse, At, Return, HeadReady, OnTop, Frames, PlanStack, MoveLabels
  <2>2. head_i \notin Span(isr_tail_i, head_i)
    BY <1>1, SpanEnds
  <2>3. ring' = [ring EXCEPT ![head_i] = Cleared] /\ UNCHANGED <<head_i, isr_tail_i>>
    BY <1>9 DEF QueueRefuse, ThreadKeeps
  <2> QED BY <1>1, <2>1, <2>2, <2>3 DEF ReadyInv
<1>10. CASE ProduceHead
  <2>1. ~HeadReady'
    BY <1>1, <1>10, Bottom DEF ProduceHead, At, Goto, HeadReady, OnTop, Frames, PlanStack, MoveLabels
  <2>2. ring' = ring /\ ring[head_i].is_ready
    BY <1>10 DEF ProduceHead, At, ReadyInv, HeadReady
  <2> QED BY <1>10, <2>1, <2>2, ProducedIsQueued DEF ReadyInv
<1>11. CASE QueueCheck
  <2>1. ~HeadReady'
    BY <1>1, <1>11, Bottom DEF QueueCheck, At, Return, HeadReady, OnTop, Frames, PlanStack, MoveLabels
  <2> QED BY <1>2, <1>11, <2>1 DEF QueueCheck, ThreadKeeps, RingKept
<1>12. CASE Wait
  <2>1. ~HeadReady'
    <3>1. WaitStack(stack) /\ pc \in {"wfi", "drain", "still"}
      BY <1>12 DEF Wait, WaitStart, WaitQueue, WaitMotors, At, Frames, WaitLabels
    <3>2. ASSUME NEW r \in {"drain", "still"}, Call("idle", r) PROVE ~HeadReady'
      BY <1>1, <3>2, Push DEF Call, HeadReady, OnTop, Labels
    <3>3. Goto("drain") \/ Goto("still") \/ Return => ~HeadReady'
      BY <1>1, <3>1, Bottom DEF Goto, Return, HeadReady, OnTop, WaitStack
    <3> QED BY <1>12, <3>2, <3>3 DEF Wait, WaitStart, WaitQueue, WaitMotors
  <2> QED BY <1>2, <1>12, <2>1 DEF Wait, WaitStart, WaitQueue, WaitMotors, ThreadKeeps, RingKept
<1>13. CASE JogMove \/ MainMove
  <2>1. PICK mv \in MoveSet : PlanBlock(mv)
    BY <1>13 DEF JogMove, MainMove
  <2>2. PICK r \in {"loop", "jog2", "jog3", "jogMode"} : stack' = <<r>> \o stack
    <3>1. CASE JogMove
      BY <3>1 DEF JogMove, JogNext
    <3>2. CASE MainMove
      BY <1>1, <3>2 DEF MainMove, At
    <3> QED BY <1>13, <3>1, <3>2
  <2>3. ~HeadReady'
    BY <1>1, <2>1, <2>2, Push DEF PlanBlock, HeadReady, OnTop, Labels
  <2> QED BY <1>2, <2>1, <2>3, PlanKeepsReady
<1>14. CASE JogHold \/ JogRefused \/ JogMode \/ JogForce \/ Jogging \/ JogHalted \/ JogStopped
            \/ JogEnd \/ JogFree
  <2>1. stack = <<"loop">> /\ \A l \in DOMAIN JogNext : JogNext[l] \notin {"qhb", "produce"}
    <3>1. /\ DOMAIN JogNext \subseteq JogLabels
          /\ \A l \in DOMAIN JogNext : JogNext[l] \notin {"qhb", "produce"}
      BY DEF JogNext, JogLabels
    <3>2. pc \in JogLabels
      BY <1>14, <3>1 DEF JogHold, JogRefused, JogMode, JogForce, Jogging, JogHalted, JogStopped,
         JogEnd, JogFree, At, JogLabels
    <3> QED BY <3>1, <3>2 DEF Frames
  <2>2. \A l : Call(l, "jogHalted") \/ Call(l, "sync") => Head(stack') # "qhb"
    BY <2>1, Bottom DEF Call
  <2>3. ~HeadReady'
    BY <1>14, <2>1, <2>2, Bottom DEF JogHold, JogRefused, JogMode, JogForce, Jogging, JogHalted,
       JogStopped, JogEnd, JogFree, At, Goto, Return, Call, HeadReady, OnTop
  <2> QED BY <1>2, <1>14, <2>3 DEF JogHold, JogRefused, JogMode, JogForce, Jogging, JogHalted,
      JogStopped, JogEnd, JogFree, JogKeeps, ThreadKeeps, RingKept
<1>15. CASE MainIdle \/ MainWait \/ MainAbort \/ MainHalt \/ MainUnhalt \/ MainJog
  <2>1. ~HeadReady'
    <3>1. stack = <<>> /\ <<"loop">> \o <<>> = <<"loop">>
      BY <1>1, <1>15 DEF MainIdle, MainWait, MainAbort, MainHalt, MainUnhalt, MainJog, At
    <3> QED BY <1>15, <3>1, Bottom DEF MainIdle, MainWait, MainAbort, MainHalt, MainUnhalt, MainJog,
        At, Goto, Call, HeadReady, OnTop
  <2> QED BY <1>2, <1>15, <2>1 DEF MainIdle, MainWait, MainAbort, MainHalt, MainUnhalt, MainJog,
      JogKeeps, ThreadKeeps, RingKept
<1>16. CASE Tick
  BY <1>1, <1>16, TickFrame DEF ReadyInv, HeadReady, OnTop
<1>17. CASE LimitHit \/ LimitClear \/ TimePasses \/ StopRequest
  BY <1>2, <1>17 DEF LimitHit, LimitClear, TimePasses, StopRequest, ringVars, threadVars,
     HeadReady, OnTop
<1> QED BY <1>3, <1>4, <1>5, <1>6, <1>7, <1>8, <1>9, <1>10, <1>11, <1>12, <1>13, <1>14, <1>15,
           <1>16, <1>17
        DEF Next, Thread, Idle, AppendBlock, Jog, Main, Interrupt
-----------------------------------------------------------------------------
(* The inductive invariant of this module, and what it gives.               *)

ThreadInv == IInv /\ Frames /\ Writes /\ Loading /\ HoldInv /\ ReadyInv

\* The parts of the invariant support one another in this order: the stack tells where
\* a return goes, the writes under way which bits a store can change.
THEOREM ThreadInvariant == Spec => []ThreadInv
<1>1. Init => ThreadInv
  <2> SUFFICES ASSUME Init PROVE ThreadInv
    OBVIOUS
  <2>1. IInv /\ Span(isr_tail_i, head_i) = {}
    BY InitSafe, SpanEnds DEF Init, IInv, TypeOK, RingType
  <2>2. Frames /\ Writes /\ Loading
    BY DEF Init, Frames, Writes, Loading, MoveLabels, IdleLabels, WaitLabels, JogLabels
  <2>3. HoldInv
    BY DEF Init, HoldInv, Holding, Flag
  <2>4. ReadyInv
    BY <2>1 DEF Init, ReadyInv, HeadReady, OnTop
  <2> QED BY <2>1, <2>2, <2>3, <2>4 DEF ThreadInv
<1>2. ThreadInv /\ [Next]_vars => ThreadInv'
  <2> SUFFICES ASSUME ThreadInv, [Next]_vars PROVE ThreadInv'
    OBVIOUS
  <2> USE DEF ThreadInv
  <2>1. CASE Next
    <3>1. IInv'
      BY <2>1, ThreadSafe, InterruptSafe DEF Next
    <3>2. Frames' /\ Writes' /\ Loading' /\ ReadyInv'
      BY <2>1, FramesStep, WritesStep, ReadyStep
    <3>3. HoldInv'
      BY <2>1, HoldThread, HoldInterrupt DEF Next
    <3> QED BY <3>1, <3>2, <3>3
  <2>2. CASE UNCHANGED vars
    <3>1. IInv'
      BY <2>2 DEF vars, ringVars, motorVars, threadVars, shellVars, IInv, TypeOK,
         RingType, FlagsType, MotorType, WalkType, StackType, ShellType, StackEnds,
         IndicesOrdered, RunningBlockOwned
    <3> QED BY <2>2, <3>1 DEF vars, ringVars, motorVars, threadVars,
        Frames, Writes, Loading, HoldInv, Holding, Empty, ReadyInv, HeadReady, OnTop
  <2> QED BY <2>1, <2>2
<1> QED BY <1>1, <1>2, PTL DEF Spec

\* The queue is held only while no block is being stepped, whatever interrupts a
\* continuous jog: a kill, a limit switch, ^Y.
THEOREM HeldQueueIsStopped == Spec => []HoldOnlyWhenStopped
<1>1. ThreadInv => HoldOnlyWhenStopped
  BY DEF ThreadInv, HoldInv, Holding, HoldOnlyWhenStopped
<1> QED BY <1>1, ThreadInvariant, PTL

\* Neither of the two __debugbreak that "should never happen" is reached.
THEOREM BreaksAreNotReached == Spec => []BreakNotReached
<1>1. ThreadInv => BreakNotReached
  BY CollectedIsFree DEF ThreadInv, ReadyInv, BreakNotReached, Empty, IsEmpty
<1> QED BY <1>1, ThreadInvariant, PTL
=============================================================================
