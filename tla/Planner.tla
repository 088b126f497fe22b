------------------------------ MODULE Planner ------------------------------
(***************************************************************************)
(* Speeds of the queued blocks: Planner::append_block and recalculate, the *)
(* passes of Block, and the step interrupt, which takes blocks while the   *)
(* thread plans.  Every speed is held as its SQUARE, so that the formula   *)
(* of max_allowable_speed, sqrt(v^2 + 2ad), is an addition: a block gains  *)
(* at most reach = 2ad.  Squaring keeps the order, and the code only       *)
(* compares speeds and takes minima of them.                               *)
(*                                                                         *)
(* queue[1] is the block at tail_i, the last one that at head_i while it   *)
(* is planned.  The ring itself, its locks and its flags are MotionQueue.  *)
(***************************************************************************)
EXTENDS Integers, Sequences, FiniteSets

CONSTANTS
  Moves,            \* what may be asked for: [nominal, reach]
  Junctions,        \* what the junction deviation may allow at a corner
  Minimum,          \* minimum_planner_speed
  Length            \* of the ring, which keeps one slot free

\* Every block can gain speed: append_block drops a move without steps, M204 keeps the
\* accelerations positive, and calculate_trapezoid divides by them.
ASSUME PlannerAssumption ==
  /\ Minimum \in Nat /\ Junctions \subseteq Nat
  /\ Moves \subseteq [nominal : Nat, reach : Nat \ {0}]
  /\ Length \in Nat /\ Length > 2

\* The default of minimum_planner_speed, 0, is below every speed; another need not be.
MinimumIsLowest ==
  (\A j \in Junctions : Minimum <= j) /\ (\A m \in Moves : Minimum <= m.nominal)

VARIABLES
  queue,      \* blocks from tail_i to head_i
  done,       \* how many of them are finished or flushed: isr_tail_i - tail_i
  pc,         \* where recalculate() is, "idle" outside append_block
  at,         \* block_index
  speed,      \* entry_speed, then exit_speed, of recalculate()
  flushed,    \* were the finished blocks flushed?
  machine,    \* the speed the machine has when no block is being stepped
  raced       \* history: has what runs overtaken the planner since the queue was empty?

vars == <<queue, done, pc, at, speed, flushed, machine, raced>>

-----------------------------------------------------------------------------
Least(a, b) == IF a <= b THEN a ELSE b

\* Block::max_allowable_speed
MaxAllowable(v, block) == v + block.reach

Pcs == {"idle", "reverse", "forward", "trapezoid", "last", "ready"}
Flag == {"recalculate", "nominalLength", "ticking", "ready"}

TypeOK ==
  /\ \A i \in DOMAIN queue :
       /\ \A f \in {"nominal", "reach", "maxEntry", "entry", "initial", "exit"} : queue[i][f] \in Nat
       /\ \A f \in Flag : queue[i][f] \in BOOLEAN
  /\ Len(queue) <= Length /\ done \in 0 .. Len(queue)
  /\ pc \in Pcs /\ at \in 0 .. Len(queue) /\ speed \in Nat
  /\ flushed \in BOOLEAN /\ machine \in Nat /\ raced \in BOOLEAN

Init ==
  /\ queue = <<>> /\ done = 0 /\ pc = "idle" /\ at = 0
  /\ speed = Minimum /\ flushed = FALSE /\ machine = Minimum /\ raced = FALSE

\* Blocks the interrupt may take: in the queue, neither finished nor flushed.
Published(i) == i \in DOMAIN queue /\ queue[i].ready
Ticking == {i \in DOMAIN queue : i > done /\ queue[i].ticking}

-----------------------------------------------------------------------------
(* Block: the two passes and the trapezoid *)

\* Mutant: the entry speed is not limited by what the block can brake.
ReverseEntryUnbraked(b, exit) == b.maxEntry

ReverseEntry(b, exit) ==
  IF b.entry = b.maxEntry THEN b.entry
  ELSE IF ~b.nominalLength /\ b.maxEntry > exit
       THEN Least(MaxAllowable(exit, b), b.maxEntry)
       ELSE b.maxEntry

\* Mutant: the exit speed of an executing block is worked out anew.
MaxExitUncached(b) ==
  IF b.nominalLength THEN b.nominal ELSE Least(MaxAllowable(b.entry, b), b.nominal)

MaxExit(b) ==
  IF b.ticking THEN b.exit
  ELSE IF b.nominalLength THEN b.nominal
  ELSE Least(MaxAllowable(b.entry, b), b.nominal)

\* Mutant: the flag is cleared by decel limited blocks too.
ForwardedAlways(b, prevExit) ==
  LET limit == Least(prevExit, Least(b.nominal, b.maxEntry)) IN
  [b EXCEPT !.entry = Least(limit, b.entry), !.recalculate = FALSE]

\* forward_pass: the entry speed, and the flag cleared if it is accel limited.
Forwarded(b, prevExit) ==
  LET limit == Least(prevExit, Least(b.nominal, b.maxEntry)) IN
  IF limit <= b.entry THEN [b EXCEPT !.entry = limit, !.recalculate = FALSE] ELSE b

\* calculate_trapezoid(entry_speed, exitspeed)
Trapezoid(b, exitspeed) ==
  IF b.ticking THEN b ELSE [b EXCEPT !.initial = b.entry, !.exit = exitspeed]

-----------------------------------------------------------------------------
(* Planner::append_block, up to the call of recalculate() *)

\* vmax_junction: the minimum on an empty queue, for a move that is not of the
\* primary axes, or at an acute corner; the lower nominal speed, or less, else.  The
\* minimum raises neither of the two.
JunctionSpeeds(m) ==
  {Minimum} \cup
  (IF queue = <<>> THEN {}
   ELSE {Least(Least(queue[Len(queue)].nominal, m.nominal), j) : j \in Junctions})

NewBlock(m, vmax) ==
  [nominal |-> m.nominal, reach |-> m.reach, maxEntry |-> vmax,
   entry |-> Least(vmax, Minimum + m.reach),
   nominalLength |-> m.nominal <= Minimum + m.reach,
   recalculate |-> TRUE, ticking |-> FALSE, ready |-> FALSE,
   initial |-> 0, exit |-> 0]

AppendBlock ==
  /\ pc = "idle" /\ Len(queue) < Length
  /\ \E m \in Moves : \E vmax \in JunctionSpeeds(m) :
       queue' = Append(queue, NewBlock(m, vmax))
  /\ at' = Len(queue) + 1 /\ speed' = Minimum
  /\ pc' = IF queue = <<>> THEN "last" ELSE "reverse"
  /\ raced' = (raced \/ flushed)
  /\ UNCHANGED <<done, flushed, machine>>

(* Planner::recalculate *)

ReverseStops(i) == i = 1 \/ ~queue[i].recalculate

ReversePass ==
  /\ pc = "reverse" /\ ~ReverseStops(at)
  /\ LET entry == ReverseEntry(queue[at], speed) IN
       /\ queue' = [queue EXCEPT ![at].entry = entry]
       /\ speed' = entry
  /\ at' = at - 1
  /\ UNCHANGED <<done, pc, flushed, machine, raced>>

ReverseEnd ==
  /\ pc = "reverse" /\ ReverseStops(at)
  /\ speed' = MaxExit(queue[at])
  /\ pc' = IF at = Len(queue) THEN "last" ELSE "forward"
  /\ UNCHANGED <<queue, done, at, flushed, machine, raced>>

ForwardPass ==
  /\ pc = "forward"
  /\ LET b == Forwarded(queue[at + 1], speed) IN
       /\ queue' = [queue EXCEPT ![at + 1] = b]
       /\ speed' = MaxExit(b)
  /\ at' = at + 1 /\ pc' = "trapezoid"
  /\ UNCHANGED <<done, flushed, machine, raced>>

\* previous->calculate_trapezoid(previous->entry_speed, current->entry_speed)
PreviousTrapezoid ==
  /\ pc = "trapezoid"
  /\ queue' = [queue EXCEPT ![at - 1] = Trapezoid(@, queue[at].entry)]
  /\ pc' = IF at = Len(queue) THEN "last" ELSE "forward"
  /\ UNCHANGED <<done, at, speed, flushed, machine, raced>>

\* Mutant: the newest block ends at the speed it may leave with.
LastTrapezoidFast ==
  /\ pc = "last"
  /\ queue' = [queue EXCEPT ![at] = Trapezoid(@, MaxExit(@))]
  /\ pc' = "ready" /\ at' = 0 /\ speed' = Minimum
  /\ UNCHANGED <<done, flushed, machine, raced>>

LastTrapezoid ==
  /\ pc = "last"
  /\ queue' = [queue EXCEPT ![at] = Trapezoid(@, Minimum)]
  /\ pc' = "ready" /\ at' = 0 /\ speed' = Minimum
  /\ UNCHANGED <<done, flushed, machine, raced>>

\* ready() and Conveyor::queue_head_block, which waits while the ring is full.
WaitsForRoom == pc = "ready" /\ Len(queue) = Length

Ready ==
  /\ pc = "ready" /\ ~WaitsForRoom
  /\ queue' = [queue EXCEPT ![Len(queue)].ready = TRUE]
  /\ pc' = "idle"
  /\ UNCHANGED <<done, at, speed, flushed, machine, raced>>

-----------------------------------------------------------------------------
(* The step interrupt and the collector *)

\* The first block of which the end is not that of its trapezoid any more: the new
\* block follows the last one, and a reverse pass changes the entry after it.
Behind == IF pc = "reverse" /\ at = Len(queue) THEN at - 1 ELSE at

\* The last block that the interrupt may take without harm: recalculate() has not
\* passed it yet, or has rewritten its trapezoid.  Of those in between it has used
\* an exit or an entry speed that get_next_block then does not find.
Takeable ==
  CASE pc = "idle"              -> Len(queue)
    [] pc = "reverse"           -> Behind
    [] pc = "forward"           -> at - 1
    [] pc = "trapezoid"         -> at - 2
    [] pc \in {"last", "ready"} -> Len(queue) - 1

\* Conveyor::get_next_block marks the block it gives out.
Taken(b) == [b EXCEPT !.ticking = TRUE, !.recalculate = FALSE]

StartBlock ==
  /\ Ticking = {} /\ Published(done + 1)
  /\ queue' = [queue EXCEPT ![done + 1] = Taken(@)]
  /\ raced' = (raced \/ done + 1 > Takeable)
  /\ UNCHANGED <<done, pc, at, speed, flushed, machine>>

\* The tick that ends a block starts the next one; the motors stop if there is none.
FinishBlock ==
  /\ Ticking # {}
  /\ done' = done + 1
  /\ \/ /\ Published(done + 2)
        /\ queue' = [queue EXCEPT ![done + 2] = Taken(@)]
        /\ machine' = queue[done + 1].exit
        /\ raced' = (raced \/ done + 2 > Takeable)
     \/ /\ ~Published(done + 2)
        /\ queue' = queue /\ machine' = Minimum
        /\ raced' = (raced \/ queue[done + 1].exit # Minimum)
  /\ UNCHANGED <<pc, at, speed, flushed>>

\* A thread that waits for room when the queue is flushed clears the block at the head.
Kept == IF WaitsForRoom THEN SubSeq(queue, 1, Len(queue) - 1) ELSE queue

\* A halt or abort: the interrupt drops the running block and marks the rest.
Flush ==
  /\ pc = "idle" \/ WaitsForRoom
  /\ done < Len(Kept)
  /\ queue' = Kept /\ done' = Len(Kept)
  /\ flushed' = TRUE /\ machine' = Minimum /\ pc' = "idle"
  /\ UNCHANGED <<at, speed, raced>>

\* Conveyor::on_idle collects one block.
Collect ==
  /\ pc = "idle" \/ WaitsForRoom
  /\ done > 0
  /\ queue' = Tail(queue) /\ done' = done - 1
  /\ flushed' = (flushed /\ done > 1)
  /\ raced' = (raced /\ queue' # <<>>)
  /\ UNCHANGED <<pc, at, speed, machine>>

Next ==
  \/ AppendBlock \/ ReversePass \/ ReverseEnd \/ ForwardPass
  \/ PreviousTrapezoid \/ LastTrapezoid \/ Ready
  \/ StartBlock \/ FinishBlock \/ Flush \/ Collect

Spec == Init /\ [][Next]_vars

-----------------------------------------------------------------------------
(* Properties *)

Waiting(i) == i \in DOMAIN queue /\ i > done /\ ~queue[i].ticking

\* The speed at which the machine will arrive at block i.
Arrival(i) == IF i > done + 1 THEN queue[i - 1].exit ELSE machine

\* What runs has not overtaken the planner when every block was taken before
\* recalculate() passed it or after its trapezoid was rewritten, the queue never ran
\* dry while a faster end was being planned, and no move was planned on blocks that
\* a flush has dropped.

\* The speed never jumps: between two plans each block that is still to run
\* starts at the speed at which the block before it ends, and the last one ends
\* at the minimum speed, unless what runs has overtaken the planner.  The
\* trapezoids are rewritten one at a time while blocks are taken and finished,
\* those of running blocks not at all, and recalculate() skips most of the queue.
SpeedIsContinuous ==
  ~raced /\ pc = "idle" =>
    /\ \A i \in DOMAIN queue : Waiting(i) => queue[i].initial = Arrival(i)
    /\ done < Len(queue) => queue[Len(queue)].exit = Minimum

\* The same for the machine itself: a block that the interrupt starts begins at
\* the speed the machine has, also when recalculate() is at work on other blocks.
StartsAtMachineSpeed ==
  [][~raced' => \A i \in DOMAIN queue' \cap DOMAIN queue :
       /\ Len(queue') = Len(queue) /\ queue'[i].ticking /\ ~queue[i].ticking
       => queue'[i].initial = machine']_vars

\* Every number has its type, and every trapezoid can be driven, unless what runs has
\* overtaken the planner: the block can go from its initial to its exit speed within
\* its length, and neither is above its nominal speed.  Else the times of calculate_trapezoid would be negative and
\* their conversion to uint32_t undefined.
TrapezoidFeasible ==
  /\ TypeOK
  /\ ~raced /\ pc = "idle" =>
     \A i \in DOMAIN queue : i > done =>
       LET b == queue[i] IN
       /\ b.initial <= b.nominal /\ b.exit <= b.nominal
       /\ b.exit <= b.initial + b.reach /\ b.initial <= b.exit + b.reach

\* What the planner is for, unless what runs has overtaken it: the entry speeds are the highest that all limits
\* ahead and behind allow.  From a junction j the limit spreads by the reach of
\* the blocks in between; the end of the queue is at the minimum speed, and the
\* block after a running one starts at its cached exit speed.
Reach ==  \* what the blocks before i gain together
  LET sum[i \in 1 .. Len(queue) + 1] == IF i = 1 THEN 0 ELSE sum[i - 1] + queue[i - 1].reach
  IN  sum

Between(i, j) == IF i <= j THEN Reach[j] - Reach[i] ELSE Reach[i] - Reach[j]

Limit(j) ==
  IF Waiting(j - 1) THEN queue[j].maxEntry ELSE Least(queue[j].maxEntry, Arrival(j))

Limits(i) ==
  {Limit(j) + Between(i, j) : j \in {k \in DOMAIN queue : Waiting(k)}}
  \cup {Minimum + Between(i, Len(queue) + 1)}

FastestEntry(i) == CHOOSE v \in Limits(i) : \A w \in Limits(i) : v <= w

PlanIsFastest ==
  ~raced /\ pc = "idle" => \A i \in DOMAIN queue : Waiting(i) => queue[i].initial = FastestEntry(i)

\* "This ensures that a block following a currently executing block will have
\* correct entry speed", says max_exit_speed, which tests whether the block
\* executes long before calculate_trapezoid tests it again: the code does not keep this.
FollowsExecuting ==
  pc = "idle" => \A i \in Ticking : Waiting(i + 1) => queue[i + 1].initial = queue[i].exit

\* "The factors represent a factor of braking and must be in the range 0.0-1.0", says
\* calculate_trapezoid of the speeds it is given, parts of the nominal speed.  The code
\* keeps this unless Minimum is above the speed of a move.
FactorsInRange ==
  pc = "idle" => \A i \in DOMAIN queue : queue[i].initial <= queue[i].nominal
                                        /\ queue[i].exit <= queue[i].nominal
=============================================================================
