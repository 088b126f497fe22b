---------------------------- MODULE PlannerProofs ----------------------------
(***************************************************************************)
(* The planner, for every set of moves, every junction speed and every     *)
(* length of the queue: whatever recalculate() visits and skips, and       *)
(* wherever TIMER0 takes and finishes blocks meanwhile, each block starts  *)
(* at the speed at which the one before it ends, can be driven, and is as  *)
(* fast as the limits ahead of it and behind it allow, until what runs     *)
(* overtakes the planner (raced), and again from the next empty queue on.  *)
(* The minimum speed is taken to be the lowest (MinimumIsLowest).          *)
(***************************************************************************)
EXTENDS Planner, SequenceTheorems, WellFoundedInduction, TLAPS

Block == [nominal : Nat, reach : Nat, maxEntry : Nat, entry : Nat, nominalLength : BOOLEAN,
          recalculate : BOOLEAN, ticking : BOOLEAN, ready : BOOLEAN, initial : Nat, exit : Nat]

TypeInv ==
  /\ queue \in Seq(Block) /\ Len(queue) <= Length
  /\ done \in 0 .. Len(queue) /\ pc \in Pcs /\ at \in 0 .. Len(queue) /\ speed \in Nat
  /\ flushed \in BOOLEAN /\ machine \in Nat

\* Where recalculate() is in the queue, and a queue that has run dry leaves the machine
\* at the minimum speed.  This holds whatever overtakes what.
ShapeInv ==
  /\ raced \in BOOLEAN
  /\ pc \in {"idle", "ready"} => at = 0
  /\ pc \in {"reverse", "forward", "last"} => at >= 1
  /\ pc = "forward" => at < Len(queue)
  /\ pc = "trapezoid" => at >= 2
  /\ pc # "idle" => Len(queue) >= 1
  /\ done = Len(queue) => machine = Minimum

\* The block that the interrupt runs is the first that is not finished, and
\* recalculate() passes none that it has taken.
ControlInv ==
  /\ flushed => pc = "idle" /\ done = Len(queue) /\ machine = Minimum
  /\ ~flushed => \A i \in 1 .. done : queue[i].ticking
  /\ \A i \in 1 .. Len(queue) : ~flushed /\ queue[i].ticking => i <= done + 1 /\ ~queue[i].recalculate
  /\ pc \in {"idle", "ready"} => at = 0
  /\ pc = "reverse" => /\ at >= 1 /\ Len(queue) > 1
                       /\ at = Len(queue) => queue[at].recalculate
  /\ pc \in {"reverse", "forward"} => \A i \in at + 1 .. Len(queue) : Waiting(i)
  /\ pc = "forward" => at >= 1 /\ at < Len(queue)
  /\ pc = "trapezoid" => at >= 2 /\ \A i \in at .. Len(queue) : Waiting(i)
  /\ pc = "last" => at = Len(queue)
  /\ pc # "idle" => done < Len(queue) /\ ~queue[Len(queue)].ticking

\* What append_block and the passes keep of each block.
LimitsInv ==
  /\ \A i \in 1 .. Len(queue) :
       /\ Minimum <= queue[i].maxEntry /\ queue[i].maxEntry <= queue[i].nominal
       /\ queue[i].nominalLength <=> queue[i].nominal <= Minimum + queue[i].reach
       /\ Waiting(i) => Minimum <= queue[i].entry /\ queue[i].entry <= queue[i].maxEntry
  /\ ~flushed => \A i \in 2 .. Len(queue) : queue[i].maxEntry <= queue[i - 1].nominal

\* The speed at which the block after i is entered, and the end of the queue.
EntryAfter(i) == IF i < Len(queue) THEN queue[i + 1].entry ELSE Minimum

\* Block i can brake to what follows it.
Brakes(i) == queue[i].entry <= EntryAfter(i) + queue[i].reach

\* Block i can reach what follows it.
Reaches(i) == EntryAfter(i) <= queue[i].entry + queue[i].reach

\* The trapezoid of block i is that of the entry speeds.
Planned(i) ==
  /\ queue[i].exit = EntryAfter(i)
  /\ Waiting(i) => queue[i].initial = queue[i].entry /\ Reaches(i)

\* The trapezoid of a block can be driven.
Feasible(b) ==
  /\ b.initial <= b.nominal /\ b.exit <= b.nominal /\ Minimum <= b.exit
  /\ b.exit <= b.initial + b.reach /\ b.initial <= b.exit + b.reach

\* The blocks whose trapezoids recalculate() has brought up to date, or has not
\* made out of date yet.
Settled ==
  CASE pc \in {"idle", "ready"}      -> Len(queue)
    [] pc \in {"reverse", "forward"} -> Behind - 1
    [] pc = "trapezoid"              -> at - 2
    [] pc = "last"                   -> Len(queue) - 1

PlanInv ==
  ~flushed =>
    /\ \A i \in 1 .. Len(queue) : Waiting(i) => Brakes(i)
    /\ \A i \in 1 .. Len(queue) : queue[i].ticking => Feasible(queue[i])
    /\ \A i \in 1 .. Settled : i >= done => Planned(i)

\* What is between the passes.
PassInv ==
  /\ pc = "reverse" => speed = EntryAfter(at)
  /\ pc \in {"reverse", "forward"} =>
       Behind >= done /\ (~Waiting(Behind) => queue[Behind].exit <= EntryAfter(Behind))
  /\ pc = "reverse" /\ Waiting(Behind) =>
       /\ queue[Behind].initial = queue[Behind].entry /\ Feasible(queue[Behind])
       /\ queue[Behind].exit <= EntryAfter(Behind)
  /\ pc \in {"forward", "trapezoid"} => speed = MaxExit(queue[at])
  /\ pc = "trapezoid" =>
       /\ at - 1 >= done
       /\ Waiting(at - 1) => Reaches(at - 1)
       /\ ~Waiting(at - 1) => queue[at - 1].exit = EntryAfter(at - 1)

\* The machine has the speed at which the first block that is to run starts.
MachineInv ==
  ~flushed =>
    /\ done >= 1 => queue[done].exit = machine
    /\ Waiting(1) => queue[1].entry = machine
    /\ queue = <<>> => machine = Minimum

PlannerInv == TypeInv /\ ControlInv /\ LimitsInv /\ PlanInv /\ PassInv /\ MachineInv

\* The plan stands until what runs overtakes the planner.
PlanStands == TypeInv /\ ShapeInv /\ (raced \/ PlannerInv)

\* The corner or the block before holds block i back: it will never be faster.
\* The first block that is to run follows the speed the machine will have.
FromBehind(i) ==
  \/ ~Waiting(i - 1) \/ queue[i].entry = queue[i].maxEntry
  \/ queue[i].entry = queue[i - 1].entry + queue[i - 1].reach

\* The corner or the block after holds block i back.
FromAhead(i) ==
  queue[i].entry = queue[i].maxEntry \/ queue[i].entry = EntryAfter(i) + queue[i].reach

\* The last block that the passes have visited, or need not visit, and the last of
\* those for which the block after has not got another entry speed since.
Visited == IF pc \in {"idle", "ready"} THEN Len(queue) ELSE at
Tight   == IF pc = "reverse" THEN Behind - 1 ELSE Visited

\* Only blocks held back from behind are not looked at again; those that the passes
\* have still to visit are as the reverse pass left them.
FastInv ==
  ~flushed => \A i \in 1 .. Len(queue) :
    /\ queue[i].reach > 0
    /\ Waiting(i) => /\ i <= Tight => FromBehind(i) \/ FromAhead(i)
                     /\ i <= Visited /\ ~queue[i].recalculate => FromBehind(i)
                     /\ i > Visited => FromAhead(i) /\ queue[i].recalculate

-----------------------------------------------------------------------------
(* The operators.                                                           *)

\* max_allowable_speed and the minima keep the type.
LEMMA Numbers ==
  ASSUME NEW x \in Nat, NEW y \in Nat
  PROVE  /\ Least(x, y) \in Nat /\ Least(x, y) <= x /\ Least(x, y) <= y
         /\ Least(x, y) = x \/ Least(x, y) = y
BY DEF Least

\* What a block is made of.
LEMMA Apart ==
  ASSUME NEW a \in Nat, NEW b \in Nat, a < b
  PROVE  a # b
OBVIOUS

LEMMA OnlyOne ==
  ASSUME NEW n \in Nat, NEW d \in 1 .. n, n - 1 = 0
  PROVE  n = 1 /\ d = 1
OBVIOUS

LEMMA Fields ==
  ASSUME NEW b \in Block
  PROVE  /\ b.nominal \in Nat /\ b.reach \in Nat /\ b.maxEntry \in Nat /\ b.entry \in Nat
         /\ b.initial \in Nat /\ b.exit \in Nat /\ b.nominalLength \in BOOLEAN
         /\ b.recalculate \in BOOLEAN /\ b.ticking \in BOOLEAN /\ b.ready \in BOOLEAN
BY DEF Block

\* The limits of a block that is not being stepped.
Limited(b) ==
  /\ Minimum <= b.entry /\ b.entry <= b.maxEntry /\ b.maxEntry <= b.nominal
  /\ b.nominalLength <=> b.nominal <= Minimum + b.reach

\* The reverse pass raises the entry speed, and to no more than the block can
\* brake from and the corner allows.
LEMMA ReverseEntryIs ==
  ASSUME NEW b \in Block, Limited(b), NEW v \in Nat, Minimum <= v, b.entry <= v + b.reach
  PROVE  /\ ReverseEntry(b, v) \in Nat
         /\ b.entry <= ReverseEntry(b, v) /\ ReverseEntry(b, v) <= b.maxEntry
         /\ ReverseEntry(b, v) <= v + b.reach
<1>1. /\ b.nominal \in Nat /\ b.reach \in Nat /\ b.maxEntry \in Nat /\ b.entry \in Nat
      /\ Minimum \in Nat
  BY Fields, PlannerAssumption
<1>2. CASE b.entry = b.maxEntry
  BY <1>1, <1>2 DEF ReverseEntry
<1>3. CASE b.entry # b.maxEntry /\ ~b.nominalLength /\ b.maxEntry > v
  BY <1>1, <1>3 DEF ReverseEntry, Limited, Least, MaxAllowable
<1>4. CASE b.entry # b.maxEntry /\ (b.nominalLength \/ ~(b.maxEntry > v))
  BY <1>1, <1>4 DEF ReverseEntry, Limited
<1> QED BY <1>2, <1>3, <1>4

\* A block that is not being stepped can leave with more than it entered with, as
\* far as it can accelerate and its nominal speed.
LEMMA MaxExitIs ==
  ASSUME NEW b \in Block
  PROVE  /\ MaxExit(b) \in Nat
         /\ b.ticking => MaxExit(b) = b.exit
         /\ ~b.ticking /\ Limited(b) => /\ b.entry <= MaxExit(b) /\ MaxExit(b) <= b.nominal
                                        /\ MaxExit(b) <= b.entry + b.reach
<1>1. /\ b.nominal \in Nat /\ b.reach \in Nat /\ b.maxEntry \in Nat /\ b.entry \in Nat
      /\ b.exit \in Nat /\ Minimum \in Nat
  BY Fields, PlannerAssumption
<1>2. CASE b.ticking
  BY <1>1, <1>2 DEF MaxExit
<1>3. CASE ~b.ticking /\ b.nominalLength
  BY <1>1, <1>3 DEF MaxExit, Limited
<1>4. CASE ~b.ticking /\ ~b.nominalLength
  BY <1>1, <1>4 DEF MaxExit, Limited, Least, MaxAllowable
<1> QED BY <1>2, <1>3, <1>4

\* The forward pass lowers the entry speed to what the block before it can reach.
LEMMA ForwardedIs ==
  ASSUME NEW b \in Block, Limited(b), NEW v \in Nat
  PROVE  /\ Forwarded(b, v) \in Block /\ Forwarded(b, v).entry = Least(v, b.entry)
         /\ \A f \in {"nominal", "reach", "maxEntry", "nominalLength", "ticking", "initial",
                      "exit", "ready"} : Forwarded(b, v)[f] = b[f]
<1> DEFINE limit == Least(v, Least(b.nominal, b.maxEntry))
<1>1. /\ b.nominal \in Nat /\ b.reach \in Nat /\ b.maxEntry \in Nat /\ b.entry \in Nat
  BY Fields
<1>2. limit \in Nat /\ (limit <= b.entry => limit = Least(v, b.entry))
      /\ (~(limit <= b.entry) => b.entry = Least(v, b.entry))
  BY <1>1 DEF Least, Limited
<1> HIDE DEF limit
<1>3. CASE limit <= b.entry
  <2>1. Forwarded(b, v) = [b EXCEPT !.entry = limit, !.recalculate = FALSE]
    BY <1>3 DEF Forwarded, limit
  <2> QED BY <1>2, <1>3, <2>1 DEF Block
<1>4. CASE ~(limit <= b.entry)
  <2>1. Forwarded(b, v) = b
    BY <1>4 DEF Forwarded, limit
  <2> QED BY <1>2, <1>4, <2>1
<1> QED BY <1>3, <1>4

\* What holds back a speed that the passes and append_block work out.
LEMMA HeldBack ==
  ASSUME NEW b \in Block, Limited(b), NEW v \in Nat
  PROVE  /\ ReverseEntry(b, v) = b.maxEntry \/ ReverseEntry(b, v) = v + b.reach
         /\ ~b.ticking => MaxExit(b) = b.nominal \/ MaxExit(b) = b.entry + b.reach
         /\ \/ Forwarded(b, v) = b
            \/ Forwarded(b, v).entry = b.maxEntry \/ Forwarded(b, v).entry = v
<1>1. /\ b.nominal \in Nat /\ b.reach \in Nat /\ b.maxEntry \in Nat /\ b.entry \in Nat
  BY Fields
<1>2. ReverseEntry(b, v) = b.maxEntry \/ ReverseEntry(b, v) = v + b.reach
  BY <1>1 DEF ReverseEntry, Least, MaxAllowable
<1>3. ~b.ticking => MaxExit(b) = b.nominal \/ MaxExit(b) = b.entry + b.reach
  BY <1>1 DEF MaxExit, Least, MaxAllowable
<1>4. \/ Forwarded(b, v) = b
      \/ Forwarded(b, v).entry = b.maxEntry \/ Forwarded(b, v).entry = v
  <2> DEFINE limit == Least(v, Least(b.nominal, b.maxEntry))
  <2>1. limit = v \/ limit = b.maxEntry
    BY <1>1 DEF Least, Limited
  <2>2. CASE limit <= b.entry
    <3>1. Forwarded(b, v) = [b EXCEPT !.entry = limit, !.recalculate = FALSE]
      BY <2>2 DEF Forwarded
    <3> HIDE DEF limit
    <3> QED BY <2>1, <3>1 DEF Block
  <2>3. CASE ~(limit <= b.entry)
    BY <2>3 DEF Forwarded
  <2> QED BY <2>2, <2>3
<1> QED BY <1>2, <1>3, <1>4

\* calculate_trapezoid.
LEMMA TrapezoidIs ==
  ASSUME NEW b \in Block, NEW v \in Nat
  PROVE  /\ Trapezoid(b, v) \in Block
         /\ \A f \in {"nominal", "reach", "maxEntry", "entry", "nominalLength", "ticking",
                      "recalculate", "ready"} : Trapezoid(b, v)[f] = b[f]
         /\ b.ticking => Trapezoid(b, v) = b
         /\ ~b.ticking => Trapezoid(b, v).initial = b.entry /\ Trapezoid(b, v).exit = v
<1>1. CASE b.ticking
  BY <1>1 DEF Trapezoid
<1>2. CASE ~b.ticking
  <2>1. Trapezoid(b, v) = [b EXCEPT !.initial = b.entry, !.exit = v]
    BY <1>2 DEF Trapezoid
  <2> QED BY <1>2, <2>1 DEF Block
<1> QED BY <1>1, <1>2

\* get_next_block.
LEMMA TakenIs ==
  ASSUME NEW b \in Block
  PROVE  /\ Taken(b) \in Block /\ Taken(b).ticking /\ ~Taken(b).recalculate
         /\ \A f \in {"nominal", "reach", "maxEntry", "entry", "nominalLength", "initial",
                      "exit", "ready"} : Taken(b)[f] = b[f]
BY DEF Taken, Block

\* A step that changes one block of the queue.
LEMMA Updated ==
  ASSUME queue \in Seq(Block), NEW k \in 1 .. Len(queue), NEW b \in Block,
         queue' = [queue EXCEPT ![k] = b]
  PROVE  /\ queue' \in Seq(Block) /\ Len(queue') = Len(queue) /\ queue'[k] = b
         /\ \A i \in 1 .. Len(queue) : i # k => queue'[i] = queue[i]
OBVIOUS

\* The blocks of the queue, now and after a step.
LEMMA QueueIs ==
  ASSUME TypeInv
  PROVE  /\ Len(queue) \in Nat /\ done \in Nat /\ at \in Nat /\ Minimum \in Nat
         /\ \A i : Waiting(i) <=> i \in 1 .. Len(queue) /\ i > done /\ ~queue[i].ticking
         /\ \A i \in 1 .. Len(queue) :
              /\ queue[i] \in Block
              /\ queue[i].nominal \in Nat /\ queue[i].reach \in Nat /\ queue[i].maxEntry \in Nat
              /\ queue[i].entry \in Nat /\ queue[i].initial \in Nat /\ queue[i].exit \in Nat
              /\ EntryAfter(i) \in Nat
<1>1. Len(queue) \in Nat /\ DOMAIN queue = 1 .. Len(queue) /\ Minimum \in Nat
      /\ done \in Nat /\ at \in Nat
  BY PlannerAssumption DEF TypeInv
<1>2. \A i \in 1 .. Len(queue) : queue[i] \in Block
  BY DEF TypeInv
<1>3. \A i \in 1 .. Len(queue) :
         /\ queue[i].nominal \in Nat /\ queue[i].reach \in Nat /\ queue[i].maxEntry \in Nat
         /\ queue[i].entry \in Nat /\ queue[i].initial \in Nat /\ queue[i].exit \in Nat
  BY <1>2, Fields
<1>4. \A i \in 1 .. Len(queue) : EntryAfter(i) \in Nat
  BY <1>1, <1>3 DEF EntryAfter
<1> QED BY <1>1, <1>2, <1>3, <1>4 DEF Waiting

-----------------------------------------------------------------------------
(* The steps.                                                               *)

\* How far the plan stands, and how far the interrupt may go.
LEMMA SettledIs ==
  ASSUME PlannerInv
  PROVE  /\ Settled \in Int /\ Settled <= Len(queue) /\ Takeable \in Int /\ Behind \in Int
         /\ pc \in {"idle", "ready"} => Settled = Len(queue)
         /\ Takeable <= Len(queue) /\ (pc # "idle" => Takeable <= Len(queue) - 1)
         /\ Takeable - 1 <= Settled /\ (pc # "reverse" => Takeable <= Settled)
         /\ pc = "reverse" => Takeable = Behind /\ Behind \in 1 .. Len(queue) - 1
                              /\ Behind <= at /\ Settled = Behind - 1
         /\ pc = "forward" => Takeable = at - 1 /\ Behind = at
         /\ pc = "trapezoid" => Takeable = at - 2
<1>1. Len(queue) \in Nat /\ at \in Nat /\ at <= Len(queue)
  BY QueueIs DEF PlannerInv, TypeInv
<1>2. CASE pc \in {"idle", "ready"}
  BY <1>1, <1>2 DEF Settled, Takeable, Behind
<1>3. CASE pc = "reverse"
  <2>1. at >= 1 /\ Len(queue) > 1
    BY <1>3 DEF PlannerInv, ControlInv
  <2>2. Behind \in 1 .. Len(queue) - 1 /\ Behind <= at
    BY <2>1, <1>1, <1>3 DEF Behind
  <2> QED BY <2>2, <1>1, <1>3 DEF Settled, Takeable
<1>4. CASE pc = "forward"
  BY <1>1, <1>4 DEF Settled, Takeable, Behind
<1>5. CASE pc = "trapezoid"
  BY <1>1, <1>5 DEF Settled, Takeable, Behind
<1>6. CASE pc = "last"
  BY <1>1, <1>6 DEF Settled, Takeable, Behind
<1> QED BY <1>2, <1>3, <1>4, <1>5, <1>6 DEF PlannerInv, TypeInv, Pcs

\* A trapezoid that is up to date can be driven.
LEMMA PlannedIsFeasible ==
  ASSUME PlannerInv, ~flushed, NEW i \in 1 .. Len(queue), Waiting(i), i <= Settled
  PROVE  /\ queue[i].initial = queue[i].entry /\ queue[i].exit = EntryAfter(i)
         /\ Feasible(queue[i])
<1> DEFINE n == Len(queue)
<1>1. /\ n \in Nat /\ Minimum \in Nat /\ i > done /\ done \in Nat
      /\ queue[i].nominal \in Nat /\ queue[i].reach \in Nat /\ queue[i].maxEntry \in Nat
      /\ queue[i].entry \in Nat /\ queue[i].exit \in Nat /\ EntryAfter(i) \in Nat
      /\ \A j : Waiting(j) <=> j \in 1 .. n /\ j > done /\ ~queue[j].ticking
  BY QueueIs DEF PlannerInv, TypeInv
<1>2. Planned(i) /\ Brakes(i)
  <2>1. i \in 1 .. Settled
    BY SettledIs
  <2> QED BY <2>1, <1>1 DEF PlannerInv, PlanInv
<1>3. /\ Minimum <= queue[i].entry /\ queue[i].entry <= queue[i].maxEntry
      /\ queue[i].maxEntry <= queue[i].nominal
  BY DEF PlannerInv, LimitsInv
<1>4. Minimum <= EntryAfter(i) /\ EntryAfter(i) <= queue[i].nominal
  <2>1. CASE i < n
    <3>1. i + 1 \in 1 .. n /\ i + 1 \in 2 .. n /\ (i + 1) - 1 = i
      BY <2>1, <1>1
    <3>2. ASSUME queue[i + 1].ticking PROVE FALSE
      <4>1. i + 1 <= done + 1
        BY <3>1, <3>2 DEF PlannerInv, ControlInv
      <4> QED BY <4>1, <3>1, <1>1
    <3>3. Waiting(i + 1)
      <4>1. i + 1 > done
        BY <1>1
      <4> QED BY <4>1, <3>1, <3>2, <1>1
    <3>4. /\ Minimum <= queue[i + 1].entry /\ queue[i + 1].entry <= queue[i + 1].maxEntry
      BY <3>1, <3>3 DEF PlannerInv, LimitsInv
    <3>5. queue[i + 1].maxEntry <= queue[i].nominal
      BY <3>1 DEF PlannerInv, LimitsInv
    <3>6. queue[i + 1].entry \in Nat /\ queue[i + 1].maxEntry \in Nat
      BY <3>1, QueueIs DEF PlannerInv
    <3> QED BY <2>1, <3>4, <3>5, <3>6, <1>1 DEF EntryAfter
  <2>2. CASE ~(i < n)
    BY <2>2, <1>1, <1>3 DEF EntryAfter
  <2> QED BY <2>1, <2>2
<1> QED BY <1>1, <1>2, <1>3, <1>4 DEF Planned, Brakes, Reaches, Feasible

\* The speeds that append_block gives a block.
LEMMA NewBlockIs ==
  ASSUME MinimumIsLowest, TypeInv, LimitsInv, ~flushed, NEW m \in Moves, NEW vmax \in JunctionSpeeds(m),
         NEW b, b = NewBlock(m, vmax)
  PROVE  /\ b \in Block /\ Limited(b) /\ ~b.ticking /\ ~b.ready /\ b.recalculate
         /\ b.entry <= Minimum + b.reach
         /\ queue = <<>> => b.entry = Minimum
         /\ queue # <<>> => b.maxEntry <= queue[Len(queue)].nominal
<1>1. /\ m.nominal \in Nat /\ m.reach \in Nat /\ Minimum \in Nat /\ Minimum <= m.nominal
      /\ \A j \in Junctions : j \in Nat /\ Minimum <= j
  BY PlannerAssumption DEF MinimumIsLowest
<1>2. queue # <<>> => /\ Len(queue) \in 1 .. Len(queue) /\ queue[Len(queue)].nominal \in Nat
                      /\ Minimum <= queue[Len(queue)].nominal
  <2> SUFFICES ASSUME queue # <<>> PROVE Len(queue) \in 1 .. Len(queue)
        /\ queue[Len(queue)].nominal \in Nat /\ Minimum <= queue[Len(queue)].nominal
    OBVIOUS
  <2>1. Len(queue) \in 1 .. Len(queue)
    BY DEF TypeInv
  <2>2. queue[Len(queue)].nominal \in Nat /\ queue[Len(queue)].maxEntry \in Nat
    BY <2>1, QueueIs
  <2>3. Minimum <= queue[Len(queue)].maxEntry /\ queue[Len(queue)].maxEntry <= queue[Len(queue)].nominal
    BY <2>1 DEF LimitsInv
  <2> QED BY <1>1, <2>1, <2>2, <2>3
<1>3. /\ vmax \in Nat /\ Minimum <= vmax /\ vmax <= m.nominal
      /\ queue = <<>> => vmax = Minimum
      /\ queue # <<>> => vmax <= queue[Len(queue)].nominal
  <2>1. CASE vmax = Minimum
    BY <1>1, <1>2, <2>1
  <2>2. CASE vmax # Minimum
    <3>1. queue # <<>> /\ \E j \in Junctions :
            vmax = Least(Least(queue[Len(queue)].nominal, m.nominal), j)
      BY <2>2 DEF JunctionSpeeds
    <3>2. PICK j \in Junctions : vmax = Least(Least(queue[Len(queue)].nominal, m.nominal), j)
      BY <3>1
    <3> QED BY <1>1, <1>2, <3>1, <3>2 DEF Least
  <2> QED BY <2>1, <2>2
<1>4. /\ b.nominal = m.nominal /\ b.reach = m.reach /\ b.maxEntry = vmax
      /\ b.entry = Least(vmax, Minimum + m.reach)
      /\ b.initial = 0 /\ b.exit = 0
  BY DEF NewBlock
<1>5. /\ b.nominalLength = (m.nominal <= Minimum + m.reach)
      /\ b.recalculate = TRUE /\ b.ticking = FALSE /\ b.ready = FALSE
  BY DEF NewBlock
<1>6. /\ b.entry \in Nat /\ Minimum <= b.entry /\ b.entry <= vmax /\ b.entry <= Minimum + b.reach
      /\ vmax = Minimum => b.entry = Minimum
  BY <1>1, <1>3, <1>4 DEF Least
<1>7. b \in Block
  <2>1. Least(vmax, Minimum + m.reach) \in Nat
    BY <1>4, <1>6
  <2> QED BY <1>1, <1>3, <2>1 DEF Block, NewBlock
<1>8. Limited(b)
  BY <1>1, <1>3, <1>4, <1>5, <1>6 DEF Limited
<1> QED BY <1>3, <1>4, <1>5, <1>6, <1>7, <1>8

LEMMA AppendTypes ==
  ASSUME MinimumIsLowest, PlannerInv, AppendBlock, ~raced'
  PROVE  TypeInv' /\ ~flushed /\ \E m \in Moves : \E vmax \in JunctionSpeeds(m) :
           queue' = Append(queue, NewBlock(m, vmax))
<1>1. ~flushed
  <2>1. raced' = (raced \/ flushed)
    BY DEF AppendBlock
  <2> QED BY <2>1
<1>2. PICK m \in Moves : \E vmax \in JunctionSpeeds(m) : queue' = Append(queue, NewBlock(m, vmax))
  BY DEF AppendBlock
<1>3. PICK vmax \in JunctionSpeeds(m) : queue' = Append(queue, NewBlock(m, vmax))
  BY <1>2
<1>4. NewBlock(m, vmax) \in Block
  BY <1>1, NewBlockIs DEF PlannerInv
<1>5. queue' \in Seq(Block) /\ Len(queue') = Len(queue) + 1
  BY <1>3, <1>4 DEF PlannerInv, TypeInv
<1>6. Len(queue') <= Length /\ done' \in 0 .. Len(queue') /\ at' \in 0 .. Len(queue')
  BY <1>5, PlannerAssumption DEF PlannerInv, TypeInv, AppendBlock
<1>7. speed' \in Nat /\ pc' \in Pcs /\ flushed' \in BOOLEAN /\ machine' \in Nat
  BY PlannerAssumption DEF PlannerInv, TypeInv, AppendBlock, Pcs
<1> QED BY <1>1, <1>2, <1>5, <1>6, <1>7 DEF TypeInv

\* AppendBlock puts the new block last and leaves the others.
LEMMA AppendedIs ==
  ASSUME MinimumIsLowest, PlannerInv, AppendBlock, ~raced'
  PROVE  LET n == Len(queue) IN
         /\ TypeInv' /\ ~flushed /\ Len(queue') = n + 1
         /\ \A i \in 1 .. n : queue'[i] = queue[i]
         /\ queue'[n + 1] \in Block /\ Limited(queue'[n + 1])
         /\ ~queue'[n + 1].ticking /\ queue'[n + 1].recalculate
         /\ queue'[n + 1].entry <= Minimum + queue'[n + 1].reach
         /\ n = 0 => queue'[n + 1].entry = Minimum
         /\ n > 0 => queue'[n + 1].maxEntry <= queue[n].nominal
<1>1. TypeInv' /\ ~flushed
  BY AppendTypes
<1>0. PICK m \in Moves : \E vmax \in JunctionSpeeds(m) : queue' = Append(queue, NewBlock(m, vmax))
  BY AppendTypes
<1>2. PICK vmax \in JunctionSpeeds(m) : queue' = Append(queue, NewBlock(m, vmax))
  BY <1>0
<1> DEFINE b == NewBlock(m, vmax)
<1>3. /\ b \in Block /\ Limited(b) /\ ~b.ticking /\ b.recalculate
      /\ b.entry <= Minimum + b.reach
      /\ queue = <<>> => b.entry = Minimum
      /\ queue # <<>> => b.maxEntry <= queue[Len(queue)].nominal
  BY <1>1, NewBlockIs DEF PlannerInv
<1> HIDE DEF b
<1>4. /\ queue' = Append(queue, b) /\ queue \in Seq(Block) /\ Len(queue) \in Nat
      /\ Len(queue) = 0 <=> queue = <<>>
  BY <1>2 DEF b, PlannerInv, TypeInv
<1>5. Len(queue') = Len(queue) + 1 /\ queue'[Len(queue) + 1] = b
      /\ \A i \in 1 .. Len(queue) : queue'[i] = queue[i]
  BY <1>3, <1>4
<1> QED BY <1>1, <1>3, <1>4, <1>5

\* The blocks of a queue.
LEMMA BlocksOf ==
  ASSUME NEW q \in Seq(Block)
  PROVE  /\ Len(q) \in Nat /\ DOMAIN q = 1 .. Len(q) /\ Minimum \in Nat
         /\ \A i \in 1 .. Len(q) :
              /\ q[i] \in Block
              /\ q[i].nominal \in Nat /\ q[i].reach \in Nat /\ q[i].maxEntry \in Nat
              /\ q[i].entry \in Nat /\ q[i].initial \in Nat /\ q[i].exit \in Nat
<1>1. \A i \in 1 .. Len(q) : q[i] \in Block
  OBVIOUS
<1> QED BY <1>1, Fields, PlannerAssumption

LEMMA AppendStep ==
  ASSUME MinimumIsLowest, PlannerInv, AppendBlock, ~raced'
  PROVE  PlannerInv'
<1> DEFINE n == Len(queue)
<1> DEFINE b == queue'[n + 1]
<1>1. /\ TypeInv' /\ ~flushed /\ Len(queue') = n + 1
      /\ \A i \in 1 .. n : queue'[i] = queue[i]
      /\ b \in Block /\ Limited(b) /\ ~b.ticking /\ b.recalculate
      /\ b.entry <= Minimum + b.reach
      /\ n = 0 => b.entry = Minimum
      /\ n > 0 => b.maxEntry <= queue[n].nominal
  BY AppendedIs
<1>2. /\ pc = "idle" /\ at' = n + 1 /\ speed' = Minimum /\ done' = done
      /\ ~flushed' /\ machine' = machine
      /\ pc' = IF n = 0 THEN "last" ELSE "reverse"
  BY <1>1 DEF AppendBlock, PlannerInv, TypeInv
<1>3. /\ n \in Nat /\ done \in 0 .. n /\ Minimum \in Nat
      /\ \A i \in 1 .. n : /\ queue[i] \in Block /\ EntryAfter(i) \in Nat /\ queue[i].reach \in Nat
                           /\ queue[i].entry \in Nat /\ queue[i].exit \in Nat
      /\ \A i : Waiting(i) <=> i \in 1 .. n /\ i > done /\ ~queue[i].ticking
  BY QueueIs DEF PlannerInv, TypeInv
<1>4. /\ b.nominal \in Nat /\ b.reach \in Nat /\ b.maxEntry \in Nat /\ b.entry \in Nat
  BY <1>1, Fields
<1>5. \A i : Waiting(i)' <=> i \in 1 .. n + 1 /\ i > done /\ ~queue'[i].ticking
  BY <1>1, <1>2, BlocksOf DEF Waiting, TypeInv
<1>6. /\ \A i \in 1 .. n : Waiting(i)' <=> Waiting(i)
      /\ \A i : i = n + 1 => Waiting(i)'
  <2>1. ASSUME NEW i \in 1 .. n PROVE Waiting(i)' <=> Waiting(i)
    <3>1. queue'[i] = queue[i] /\ i \in 1 .. n + 1
      BY <1>1, <1>3
    <3>2. Waiting(i)' <=> i > done /\ ~queue'[i].ticking
      BY <3>1, <1>5
    <3>3. Waiting(i) <=> i > done /\ ~queue[i].ticking
      BY <1>3
    <3> QED BY <3>1, <3>2, <3>3
  <2>2. ASSUME NEW i, i = n + 1 PROVE Waiting(i)'
    BY <2>2, <1>1, <1>3, <1>5
  <2> QED BY <2>1, <2>2
<1>7. /\ \A i \in 1 .. n : i < n => EntryAfter(i)' = EntryAfter(i)
      /\ \A i \in 1 .. n : i = n => EntryAfter(i) = Minimum /\ EntryAfter(i)' = b.entry
      /\ \A i : i = n + 1 => EntryAfter(i)' = Minimum
  <2>1. ASSUME NEW i \in 1 .. n, i < n PROVE EntryAfter(i)' = EntryAfter(i)
    <3>1. queue'[i + 1] = queue[i + 1]
      BY <2>1, <1>1, <1>3
    <3> QED BY <2>1, <3>1, <1>1, <1>3 DEF EntryAfter
  <2>2. ASSUME NEW i \in 1 .. n, i = n PROVE EntryAfter(i) = Minimum /\ EntryAfter(i)' = b.entry
    BY <2>2, <1>1, <1>3 DEF EntryAfter
  <2>3. ASSUME NEW i, i = n + 1 PROVE EntryAfter(i)' = Minimum
    BY <2>3, <1>1, <1>3 DEF EntryAfter
  <2> QED BY <2>1, <2>2, <2>3
<1>8. Minimum <= b.entry /\ b.entry <= b.maxEntry /\ b.maxEntry <= b.nominal
  BY <1>1 DEF Limited
<1>9. b.nominalLength <=> b.nominal <= Minimum + b.reach
  BY <1>1 DEF Limited
<1> HIDE DEF b
<1>10. ControlInv'
  <2>1. \A i \in 1 .. done' : queue'[i].ticking
    BY <1>1, <1>2, <1>3 DEF PlannerInv, ControlInv
  <2>2. \A i \in 1 .. n : queue[i].ticking => i <= done + 1 /\ ~queue[i].recalculate
    BY <1>1, <1>3 DEF PlannerInv, ControlInv
  <2>3. \A i \in 1 .. n + 1 : queue'[i].ticking => i <= done' + 1 /\ ~queue'[i].recalculate
    BY <2>2, <1>1, <1>2, <1>3 DEF b
  <2>4. done' < Len(queue') /\ ~queue'[Len(queue')].ticking /\ queue'[at'].recalculate
    BY <1>1, <1>2, <1>3 DEF b
  <2> QED BY <2>1, <2>3, <2>4, <1>1, <1>2, <1>3 DEF ControlInv
<1>11. LimitsInv'
  <2>1. ASSUME NEW i \in 1 .. n + 1
        PROVE  /\ Minimum <= queue'[i].maxEntry /\ queue'[i].maxEntry <= queue'[i].nominal
               /\ queue'[i].nominalLength <=> queue'[i].nominal <= Minimum + queue'[i].reach
               /\ Waiting(i)' => Minimum <= queue'[i].entry /\ queue'[i].entry <= queue'[i].maxEntry
    <3>1. CASE i = n + 1
      BY <1>3, <1>4, <1>8, <1>9, <3>1 DEF b
    <3>2. CASE i \in 1 .. n
      BY <1>1, <1>6, <3>2 DEF PlannerInv, LimitsInv
    <3> QED BY <3>1, <3>2, <1>3
  <2>2. ASSUME NEW i \in 2 .. n + 1 PROVE queue'[i].maxEntry <= queue'[i - 1].nominal
    <3>1. CASE i = n + 1
      <4>1. i - 1 = n /\ n > 0 /\ queue'[n] = queue[n]
        BY <1>1, <1>3, <3>1
      <4> QED BY <4>1, <3>1, <1>1 DEF b
    <3>2. CASE i \in 2 .. n
      <4>1. queue'[i] = queue[i] /\ queue'[i - 1] = queue[i - 1]
        BY <1>1, <1>3, <3>2
      <4>2. queue[i].maxEntry <= queue[i - 1].nominal
        BY <1>1, <3>2 DEF PlannerInv, LimitsInv
      <4> QED BY <4>1, <4>2
    <3> QED BY <3>1, <3>2, <1>3
  <2> QED BY <2>1, <2>2, <1>1 DEF LimitsInv
<1>12. PlanInv'
  <2>1. ASSUME NEW i \in 1 .. n + 1, Waiting(i)' PROVE Brakes(i)'
    <3>1. CASE i = n + 1
      BY <1>1, <1>4, <1>7, <3>1 DEF b, Brakes
    <3>2. CASE i \in 1 .. n
      <4>1. Brakes(i) /\ queue'[i] = queue[i]
        BY <1>1, <1>6, <2>1, <3>2 DEF PlannerInv, PlanInv
      <4>2. EntryAfter(i) <= EntryAfter(i)' /\ EntryAfter(i)' \in Nat
        <5>1. CASE i < n
          BY <5>1, <3>2, <1>3, <1>7
        <5>2. CASE i = n
          BY <5>2, <3>2, <1>4, <1>7, <1>8
        <5> QED BY <5>1, <5>2, <3>2, <1>3
      <4> QED BY <4>1, <4>2, <1>3, <3>2 DEF Brakes
    <3> QED BY <3>1, <3>2, <1>3
  <2>2. ASSUME NEW i \in 1 .. n + 1, queue'[i].ticking PROVE Feasible(queue'[i])
    <3>1. i \in 1 .. n
      BY <2>2, <1>1, <1>3 DEF b
    <3> QED BY <2>2, <3>1, <1>1 DEF PlannerInv, PlanInv
  <2>3. Settled' = n - 1 \/ (n = 0 /\ Settled' = 0)
    BY <1>1, <1>2, <1>3 DEF Settled, Behind
  <2>4. ASSUME NEW i \in 1 .. Settled', i >= done' PROVE Planned(i)'
    <3>1. i \in 1 .. n /\ i < n
      BY <2>3, <1>3
    <3>2. Planned(i)
      BY <3>1, <2>4, <1>1, <1>2, <1>3 DEF PlannerInv, PlanInv, Settled
    <3> QED BY <3>1, <3>2, <1>1, <1>6, <1>7 DEF Planned, Reaches
  <2> QED BY <2>1, <2>2, <2>4, <1>1 DEF PlanInv
<1>13. PassInv'
  <2>1. pc' = "reverse" => speed' = EntryAfter(at)'
    <3>1. EntryAfter(at)' = Minimum
      BY <1>1, <1>2, <1>3 DEF EntryAfter
    <3> QED BY <3>1, <1>2
  <2>2. ASSUME pc' = "reverse"
        PROVE  Behind' >= done' /\ (~Waiting(Behind)' => queue'[Behind'].exit <= EntryAfter(Behind)')
    <3>1. n > 0 /\ Behind' = n
      BY <2>2, <1>1, <1>2, <1>3 DEF Behind
    <3>2. Behind' >= done'
      BY <3>1, <1>2, <1>3
    <3>4. EntryAfter(Behind)' = b.entry
      BY <3>1, <1>1, <1>3, <1>7 DEF EntryAfter, b
    <3>5. Planned(n)
      BY <3>1, <1>1, <1>2, <1>3 DEF PlannerInv, PlanInv, Settled
    <3>6. queue'[Behind'].exit = Minimum
      BY <3>1, <3>5, <1>1, <1>3, <1>7 DEF Planned
    <3> QED BY <3>2, <3>4, <3>6, <1>4, <1>8
  <2>3. ASSUME pc' = "reverse", Waiting(Behind)'
        PROVE  /\ queue'[Behind'].initial = queue'[Behind'].entry /\ Feasible(queue'[Behind'])
               /\ queue'[Behind'].exit <= EntryAfter(Behind)'
    <3>1. n > 0 /\ Behind' = n /\ queue'[n] = queue[n]
      BY <2>3, <1>1, <1>2, <1>3 DEF Behind
    <3>2. Waiting(n)
      <4>1. \A i : i = Behind' /\ Waiting(Behind)' => Waiting(i)'
        BY DEF Waiting
      <4> QED BY <4>1, <2>3, <3>1, <1>3, <1>6
    <3>3. n <= Settled
      BY <1>2, <1>3, SettledIs
    <3>4. /\ queue[n].initial = queue[n].entry /\ queue[n].exit = EntryAfter(n)
          /\ Feasible(queue[n])
      BY <3>1, <3>2, <3>3, <1>1, <1>3, PlannedIsFeasible
    <3>5. EntryAfter(n) = Minimum /\ EntryAfter(Behind)' = b.entry
      BY <3>1, <1>1, <1>3, <1>7 DEF EntryAfter, b
    <3> QED BY <3>1, <3>4, <3>5, <1>8
  <2> QED BY <2>1, <2>2, <2>3, <1>2 DEF PassInv
<1>14. MachineInv'
  <2>1. done' >= 1 => queue'[done'].exit = machine'
    BY <1>1, <1>2, <1>3 DEF PlannerInv, MachineInv
  <2>2. ASSUME Waiting(1)' PROVE queue'[1].entry = machine'
    <3>1. CASE n = 0
      <4>1. queue = <<>>
        BY <3>1 DEF PlannerInv, TypeInv
      <4> QED BY <3>1, <4>1, <1>1, <1>2 DEF b, PlannerInv, MachineInv
    <3>2. CASE n > 0
      BY <2>2, <3>2, <1>1, <1>2, <1>3, <1>6 DEF PlannerInv, MachineInv
    <3> QED BY <3>1, <3>2, <1>3
  <2>3. queue' # <<>>
    BY <1>1, <1>3
  <2> QED BY <2>1, <2>2, <2>3 DEF MachineInv
<1> QED BY <1>1, <1>10, <1>11, <1>12, <1>13, <1>14 DEF PlannerInv

\* A pass gives a block another entry speed.
LEMMA EntryChanged ==
  ASSUME NEW b \in Block, NEW e \in Nat, NEW c, c = [b EXCEPT !.entry = e]
  PROVE  /\ c \in Block /\ c.entry = e
         /\ c.nominal = b.nominal /\ c.reach = b.reach /\ c.maxEntry = b.maxEntry
         /\ c.nominalLength = b.nominalLength /\ c.ticking = b.ticking
         /\ c.recalculate = b.recalculate
BY DEF Block

\* The passes rewrite one block at a time, and of a block only the entry speed, the
\* trapezoid, and the flags recalculate and ready.
LEMMA Rewritten ==
  ASSUME PlannerInv, NEW k \in 1 .. Len(queue), NEW b \in Block,
         queue' = [queue EXCEPT ![k] = b], done' = done, flushed' = flushed,
         b.nominal = queue[k].nominal, b.reach = queue[k].reach,
         b.maxEntry = queue[k].maxEntry, b.nominalLength = queue[k].nominalLength,
         b.ticking = queue[k].ticking,
         Waiting(k) => Minimum <= b.entry /\ b.entry <= b.maxEntry
  PROVE  /\ queue' \in Seq(Block) /\ Len(queue') = Len(queue) /\ queue'[k] = b
         /\ \A i \in 1 .. Len(queue) : i # k => queue'[i] = queue[i]
         /\ \A i \in 1 .. Len(queue) :
              /\ queue'[i].reach = queue[i].reach
              /\ i # k - 1 => EntryAfter(i)' = EntryAfter(i)
              /\ i = k - 1 => EntryAfter(i)' = b.entry /\ EntryAfter(i) = queue[k].entry
         /\ \A i \in 1 .. Len(queue) : queue'[i].ticking = queue[i].ticking
         /\ \A i : Waiting(i)' <=> Waiting(i)
         /\ LimitsInv'
<1>1. /\ queue \in Seq(Block) /\ Len(queue) \in Nat /\ done \in Nat
  BY QueueIs DEF PlannerInv, TypeInv
<1>2. /\ queue' \in Seq(Block) /\ Len(queue') = Len(queue) /\ queue'[k] = b
      /\ \A i \in 1 .. Len(queue) : i # k => queue'[i] = queue[i]
  BY <1>1, Updated
<1>3. \A i \in 1 .. Len(queue) :
        /\ queue'[i].reach = queue[i].reach /\ queue'[i].nominal = queue[i].nominal
        /\ queue'[i].maxEntry = queue[i].maxEntry
  BY <1>2
<1>4. \A i \in 1 .. Len(queue) : queue'[i].ticking = queue[i].ticking
  BY <1>2
<1>5. \A i \in 1 .. Len(queue) : queue'[i].nominalLength = queue[i].nominalLength
  BY <1>2
<1>6. ASSUME NEW i \in 1 .. Len(queue), i # k - 1 PROVE EntryAfter(i)' = EntryAfter(i)
  <2>1. i < Len(queue) => queue'[i + 1] = queue[i + 1]
    BY <1>1, <1>2, <1>6
  <2> QED BY <2>1, <1>1, <1>2 DEF EntryAfter
<1>7. ASSUME NEW i \in 1 .. Len(queue), i = k - 1
      PROVE  EntryAfter(i)' = b.entry /\ EntryAfter(i) = queue[k].entry
  <2>1. i < Len(queue) /\ i + 1 = k
    BY <1>1, <1>7
  <2> QED BY <2>1, <1>1, <1>2 DEF EntryAfter
<1>8. ASSUME NEW i PROVE Waiting(i)' <=> Waiting(i)
  <2>1. DOMAIN queue' = 1 .. Len(queue) /\ DOMAIN queue = 1 .. Len(queue)
    BY <1>1, <1>2
  <2> QED BY <2>1, <1>4 DEF Waiting
<1>9. LimitsInv'
  <2>1. ASSUME NEW i \in 1 .. Len(queue)
        PROVE  /\ Minimum <= queue'[i].maxEntry /\ queue'[i].maxEntry <= queue'[i].nominal
               /\ queue'[i].nominalLength <=> queue'[i].nominal <= Minimum + queue'[i].reach
    BY <1>3, <1>5 DEF PlannerInv, LimitsInv
  <2>2. ASSUME NEW i \in 1 .. Len(queue), Waiting(i)'
        PROVE  Minimum <= queue'[i].entry /\ queue'[i].entry <= queue'[i].maxEntry
    <3>1. Waiting(i)
      BY <1>8, <2>2
    <3>2. CASE i = k
      BY <3>1, <3>2, <1>2
    <3>3. CASE i # k
      BY <3>1, <3>3, <1>2 DEF PlannerInv, LimitsInv
    <3> QED BY <3>2, <3>3
  <2>3. ASSUME ~flushed, NEW i \in 2 .. Len(queue)
        PROVE  queue'[i].maxEntry <= queue'[i - 1].nominal
    <3>1. i \in 1 .. Len(queue) /\ i - 1 \in 1 .. Len(queue)
      BY <1>1
    <3>2. queue[i].maxEntry <= queue[i - 1].nominal
      BY <2>3 DEF PlannerInv, LimitsInv
    <3> QED BY <3>1, <3>2, <1>3
  <2> QED BY <2>1, <2>2, <2>3, <1>2 DEF LimitsInv
<1> QED BY <1>2, <1>3, <1>4, <1>6, <1>7, <1>8, <1>9

\* reverse_pass at block_index: the block can still brake, to the entry speed that
\* the block before it may now leave with.
LEMMA ReversePassStep ==
  ASSUME PlannerInv, ReversePass
  PROVE  PlannerInv' /\ (FastInv => FastInv')
<1> DEFINE n == Len(queue)
           e == ReverseEntry(queue[at], speed)
           b == [queue[at] EXCEPT !.entry = e]
<1>1. /\ pc = "reverse" /\ at # 1 /\ queue[at].recalculate
      /\ queue' = [queue EXCEPT ![at].entry = e] /\ speed' = e /\ at' = at - 1
      /\ done' = done /\ pc' = pc /\ flushed' = flushed /\ machine' = machine
  BY DEF ReversePass, ReverseStops
<1>2. /\ n \in Nat /\ done \in 0 .. n /\ Minimum \in Nat /\ at \in 0 .. n /\ speed \in Nat
      /\ \A i \in 1 .. n : /\ queue[i] \in Block /\ EntryAfter(i) \in Nat /\ queue[i].reach \in Nat
                           /\ queue[i].entry \in Nat /\ queue[i].exit \in Nat
      /\ \A i : Waiting(i) <=> i \in 1 .. n /\ i > done /\ ~queue[i].ticking
  BY QueueIs DEF PlannerInv, TypeInv
<1>3. at \in 2 .. n /\ ~flushed /\ n > 1
  BY <1>1, <1>2 DEF PlannerInv, ControlInv
<1>4. Waiting(at) /\ \A i \in at .. n : Waiting(i)
  <2>1. ~queue[at].ticking
    BY <1>1, <1>3 DEF PlannerInv, ControlInv
  <2>2. at > done
    BY <2>1, <1>2, <1>3 DEF PlannerInv, ControlInv
  <2>3. \A i \in at + 1 .. n : Waiting(i)
    BY <1>1 DEF PlannerInv, ControlInv
  <2>4. \A i \in at .. n : i = at \/ i \in at + 1 .. n
    BY <1>2
  <2> QED BY <2>1, <2>2, <2>3, <2>4, <1>2, <1>3
<1>5. speed = EntryAfter(at) /\ Minimum <= speed
  <2>1. speed = EntryAfter(at)
    BY <1>1 DEF PlannerInv, PassInv
  <2>2. CASE at < n
    <3>1. at + 1 \in at .. n /\ at + 1 \in 1 .. n
      BY <2>2, <1>2, <1>3
    <3>2. Waiting(at + 1)
      BY <3>1, <1>4
    <3>3. Minimum <= queue[at + 1].entry
      BY <3>1, <3>2 DEF PlannerInv, LimitsInv
    <3> QED BY <2>1, <2>2, <3>3 DEF EntryAfter
  <2>3. CASE at = n
    BY <2>1, <2>3, <1>2 DEF EntryAfter
  <2> QED BY <2>1, <2>2, <2>3, <1>3
<1>6. Limited(queue[at]) /\ queue[at].entry <= speed + queue[at].reach
  <2>1. Limited(queue[at])
    BY <1>2, <1>3, <1>4 DEF PlannerInv, LimitsInv, Limited
  <2>2. Brakes(at)
    BY <1>3, <1>4 DEF PlannerInv, PlanInv
  <2> QED BY <2>1, <2>2, <1>5 DEF Brakes
<1>7. /\ e \in Nat /\ queue[at].entry <= e /\ e <= queue[at].maxEntry
      /\ e <= speed + queue[at].reach
  BY <1>2, <1>3, <1>5, <1>6, ReverseEntryIs
<1>8. Minimum <= e
  BY <1>6, <1>7, <1>2, <1>3 DEF Limited
<1>9. /\ b \in Block /\ b.entry = e /\ queue' = [queue EXCEPT ![at] = b]
      /\ b.nominal = queue[at].nominal /\ b.reach = queue[at].reach
      /\ b.maxEntry = queue[at].maxEntry /\ b.nominalLength = queue[at].nominalLength
      /\ b.ticking = queue[at].ticking /\ b.recalculate = queue[at].recalculate
  <2>1. queue[at] \in Block
    BY <1>2, <1>3
  <2>2. queue' = [queue EXCEPT ![at] = b]
    BY <1>1
  <2> QED BY <2>1, <2>2, <1>7, EntryChanged
<1> HIDE DEF e, b
<1>10. /\ queue' \in Seq(Block) /\ Len(queue') = n /\ queue'[at] = b
       /\ \A i \in 1 .. n : i # at => queue'[i] = queue[i]
       /\ \A i \in 1 .. n :
              /\ queue'[i].reach = queue[i].reach
              /\ i # at - 1 => EntryAfter(i)' = EntryAfter(i)
              /\ i = at - 1 => EntryAfter(i)' = e /\ EntryAfter(i) = queue[at].entry
       /\ \A i \in 1 .. n : queue'[i].ticking = queue[i].ticking
       /\ \A i : Waiting(i)' <=> Waiting(i)
       /\ LimitsInv'
  <2>1. at \in 1 .. n /\ Minimum <= b.entry /\ b.entry <= b.maxEntry
    BY <1>3, <1>7, <1>8, <1>9
  <2>2. /\ queue' \in Seq(Block) /\ Len(queue') = n /\ queue'[at] = b
        /\ \A i \in 1 .. n : i # at => queue'[i] = queue[i]
        /\ \A i \in 1 .. n :
              /\ queue'[i].reach = queue[i].reach
              /\ i # at - 1 => EntryAfter(i)' = EntryAfter(i)
              /\ i = at - 1 => EntryAfter(i)' = b.entry /\ EntryAfter(i) = queue[at].entry
        /\ \A i \in 1 .. n : queue'[i].ticking = queue[i].ticking
        /\ \A i : Waiting(i)' <=> Waiting(i)
        /\ LimitsInv'
    <3> HIDE DEF n
    <3> QED BY <2>1, <1>1, <1>9, Rewritten DEF n
  <2> QED BY <2>2, <1>9
<1>11. TypeInv'
  BY <1>1, <1>2, <1>3, <1>7, <1>10 DEF PlannerInv, TypeInv
<1>12. ControlInv'
  <2>1. \A i \in 1 .. n : queue'[i].recalculate = queue[i].recalculate
    BY <1>9, <1>10
  <2>2. \A i \in 1 .. done : queue'[i].ticking
    BY <1>2, <1>3, <1>10 DEF PlannerInv, ControlInv
  <2>3. \A i \in 1 .. n : queue'[i].ticking => i <= done + 1 /\ ~queue'[i].recalculate
    BY <2>1, <1>3, <1>10 DEF PlannerInv, ControlInv
  <2>4. at' >= 1 /\ at' # n /\ \A i \in at' + 1 .. n : Waiting(i)'
    BY <1>1, <1>2, <1>3, <1>4, <1>10
  <2>5. done < n /\ ~queue'[n].ticking
    BY <1>1, <1>2, <1>3, <1>10 DEF PlannerInv, ControlInv
  <2> QED BY <2>2, <2>3, <2>4, <2>5, <1>1, <1>3, <1>10 DEF ControlInv
<1>13. Behind' = at - 1 /\ (Behind = at - 1 \/ Behind = at)
  BY <1>1, <1>2, <1>3, <1>10 DEF Behind
<1>14. PlanInv'
  <2>1. ASSUME NEW i \in 1 .. n, Waiting(i)' PROVE Brakes(i)'
    <3>1. Brakes(i)
      BY <2>1, <1>3, <1>10 DEF PlannerInv, PlanInv
    <3>2. CASE i = at
      <4>1. EntryAfter(i)' = speed /\ queue'[i] = b
        BY <3>2, <1>2, <1>3, <1>5, <1>10
      <4> QED BY <4>1, <3>2, <1>7, <1>9 DEF Brakes
    <3>3. CASE i # at
      <4>1. EntryAfter(i) <= EntryAfter(i)' /\ EntryAfter(i)' \in Nat
        <5>1. CASE i = at - 1
          <6>1. EntryAfter(i)' = e /\ EntryAfter(i) = queue[at].entry
            BY <5>1, <1>10
          <6> QED BY <6>1, <1>7
        <5>2. CASE i # at - 1
          <6>1. EntryAfter(i)' = EntryAfter(i) /\ EntryAfter(i) \in Nat
            BY <5>2, <1>2, <1>10
          <6> QED BY <6>1
        <5> QED BY <5>1, <5>2
      <4>2. queue'[i] = queue[i]
        BY <3>3, <1>10
      <4> QED BY <3>1, <4>1, <4>2, <1>2 DEF Brakes
    <3> QED BY <3>2, <3>3
  <2>2. ASSUME NEW i \in 1 .. n, queue'[i].ticking PROVE Feasible(queue'[i])
    <3>1. queue[i].ticking /\ i # at
      BY <2>2, <1>2, <1>4, <1>10
    <3> QED BY <3>1, <1>3, <1>10 DEF PlannerInv, PlanInv
  <2>3. ASSUME NEW i \in 1 .. Settled', i >= done' PROVE Planned(i)'
    <3>1. Settled' = at - 2
      BY <1>1, <1>2, <1>3, <1>13 DEF Settled
    <3>2. i \in 1 .. n /\ i < at - 1 /\ i >= done /\ i \in 1 .. Settled
      BY <2>3, <3>1, <1>1, <1>2, <1>3, <1>13 DEF Settled
    <3>3. Planned(i)
      BY <3>2, <1>3 DEF PlannerInv, PlanInv
    <3>4. queue'[i] = queue[i] /\ EntryAfter(i)' = EntryAfter(i) /\ (Waiting(i)' <=> Waiting(i))
      BY <3>2, <1>2, <1>10
    <3> QED BY <3>3, <3>4 DEF Planned, Reaches
  <2> QED BY <2>1, <2>2, <2>3, <1>10 DEF PlanInv
<1>15. PassInv'
  <2>1. at - 1 \in 1 .. n /\ EntryAfter(at)' = e /\ Behind' >= done
    <3>1. at - 1 \in 1 .. n /\ at - 1 >= done
      BY <1>2, <1>3, <1>4
    <3>2. EntryAfter(at)' = e
      <4>1. at' < Len(queue') /\ at' + 1 = at
        BY <1>1, <1>2, <1>3, <1>10
      <4> QED BY <4>1, <1>9, <1>10 DEF EntryAfter
    <3> QED BY <3>1, <3>2, <1>13
  <2>2. ASSUME ~Waiting(at - 1) PROVE queue[at - 1].exit <= e
    <3>1. CASE Behind = at - 1
      <4>1. \A i \in 1 .. n : i = Behind /\ ~Waiting(i) => queue[i].exit <= EntryAfter(i)
        BY <1>1 DEF PlannerInv, PassInv
      <4>2. queue[at - 1].exit <= EntryAfter(at - 1)
        BY <4>1, <3>1, <2>1, <2>2
      <4>3. EntryAfter(at - 1) = queue[at].entry
        BY <2>1, <1>10
      <4>4. queue[at - 1].exit \in Nat /\ queue[at].entry \in Nat
        BY <2>1, <1>2, <1>3
      <4> QED BY <4>2, <4>3, <4>4, <1>7
    <3>2. CASE Behind = at
      <4>1. at - 1 \in 1 .. Settled /\ at - 1 >= done
        BY <3>2, <2>1, <1>1, <1>2, <1>3, <1>4 DEF Settled
      <4>2. queue[at - 1].exit = EntryAfter(at - 1)
        BY <4>1, <1>3 DEF PlannerInv, PlanInv, Planned
      <4>3. EntryAfter(at - 1) = queue[at].entry
        BY <2>1, <1>10
      <4>4. queue[at].entry \in Nat
        BY <1>2, <1>3
      <4> QED BY <4>2, <4>3, <4>4, <1>7
    <3> QED BY <3>1, <3>2, <1>13
  <2>3. ASSUME ~Waiting(Behind)' PROVE queue'[Behind'].exit <= EntryAfter(Behind)'
    <3>1. ~Waiting(at - 1)
      <4>1. \A i : i = Behind' /\ ~Waiting(Behind)' => ~Waiting(i)'
        BY DEF Waiting
      <4> QED BY <4>1, <2>3, <1>10, <1>13
    <3>2. queue'[at - 1] = queue[at - 1]
      BY <2>1, <1>10, <1>2
    <3>3. EntryAfter(Behind)' = EntryAfter(at)'
      BY <1>1, <1>13 DEF EntryAfter
    <3> QED BY <3>1, <3>2, <3>3, <2>1, <2>2, <1>13
  <2>4. pc' = "reverse" => speed' = EntryAfter(at)'
    BY <2>1, <1>1
  <2>5. ASSUME Waiting(Behind)'
        PROVE  /\ queue'[Behind'].initial = queue'[Behind'].entry /\ Feasible(queue'[Behind'])
               /\ queue'[Behind'].exit <= EntryAfter(Behind)'
    <3>1. Waiting(at - 1)
      <4>1. \A i : i = Behind' /\ Waiting(Behind)' => Waiting(i)'
        BY DEF Waiting
      <4> QED BY <4>1, <2>5, <1>10, <1>13
    <3>2. queue'[at - 1] = queue[at - 1]
      BY <2>1, <1>10, <1>2
    <3>3. EntryAfter(Behind)' = EntryAfter(at)' /\ EntryAfter(at - 1) = queue[at].entry
      BY <2>1, <1>1, <1>10, <1>13 DEF EntryAfter
    <3>4. /\ queue[at - 1].initial = queue[at - 1].entry /\ Feasible(queue[at - 1])
          /\ queue[at - 1].exit <= EntryAfter(at - 1)
      <4>1. CASE Behind = at - 1
        <5>1. \A i : i = Behind /\ Waiting(i) =>
                /\ queue[i].initial = queue[i].entry /\ Feasible(queue[i])
                /\ queue[i].exit <= EntryAfter(i)
          BY <1>1 DEF PlannerInv, PassInv
        <5> QED BY <4>1, <5>1, <3>1
      <4>2. CASE Behind = at
        <5>1. at - 1 <= Settled
          BY <4>2, <1>1, SettledIs
        <5>2. /\ queue[at - 1].initial = queue[at - 1].entry
              /\ queue[at - 1].exit = EntryAfter(at - 1) /\ Feasible(queue[at - 1])
          BY <5>1, <2>1, <3>1, <1>3, PlannedIsFeasible
        <5>3. EntryAfter(at - 1) \in Nat
          BY <2>1, <1>2
        <5> QED BY <5>2, <5>3
      <4> QED BY <4>1, <4>2, <1>13
    <3>5. queue[at - 1].exit \in Nat /\ queue[at].entry \in Nat
      BY <2>1, <1>2, <1>3
    <3> QED BY <3>2, <3>3, <3>4, <3>5, <2>1, <1>7, <1>13
  <2> QED BY <2>1, <2>3, <2>4, <2>5, <1>1 DEF PassInv
<1>16. MachineInv'
  <2>1. done >= 1 => queue'[done] = queue[done]
    BY <1>2, <1>3, <1>4, <1>10
  <2>2. queue'[1] = queue[1] /\ queue' # <<>> /\ queue # <<>> /\ (Waiting(1)' <=> Waiting(1))
    BY <1>2, <1>3, <1>10
  <2> QED BY <2>1, <2>2, <1>1, <1>3 DEF PlannerInv, MachineInv
<1>17. ASSUME FastInv PROVE FastInv'
  <2>1. b.entry = b.maxEntry \/ b.entry = EntryAfter(at) + b.reach
    BY <1>2, <1>3, <1>5, <1>6, <1>9, HeldBack DEF e
  <2>2. /\ Visited = at /\ Visited' = at - 1 /\ Tight' = at - 2
        /\ Tight = at - 2 \/ Tight = at - 1
    BY <1>1, <1>2, <1>3, <1>13 DEF Visited, Tight
  <2>3. ASSUME NEW i \in 1 .. n PROVE queue'[i].reach > 0
    BY <2>3, <1>3, <1>10, <1>17 DEF FastInv
  <2>4. ASSUME NEW i \in 1 .. n, Waiting(i), i > at - 1
        PROVE  FromAhead(i)' /\ queue'[i].recalculate
    <3>1. CASE i = at
      BY <2>1, <3>1, <1>1, <1>2, <1>3, <1>9, <1>10 DEF FromAhead
    <3>2. CASE i # at
      <4>1. i > Visited /\ i # at - 1
        BY <2>2, <2>4, <3>2, <1>2, <1>3
      <4>2. FromAhead(i) /\ queue[i].recalculate
        BY <2>4, <4>1, <1>3, <1>17 DEF FastInv
      <4> QED BY <4>1, <4>2, <3>2, <1>10 DEF FromAhead
    <3> QED BY <3>1, <3>2
  <2>5. ASSUME NEW i \in 1 .. n, i < at, FromBehind(i) PROVE FromBehind(i)'
    <3>1. i # at /\ i - 1 # at
      BY <2>5, <1>2, <1>3
    <3>2. CASE Waiting(i - 1)
      <4>1. i - 1 \in 1 .. n
        BY <3>2, <1>2
      <4> QED BY <2>5, <3>1, <4>1, <1>10 DEF FromBehind
    <3>3. CASE ~Waiting(i - 1)
      <4>1. ~Waiting(i - 1)'
        BY <3>3, <1>10
      <4> QED BY <4>1 DEF FromBehind
    <3> QED BY <3>2, <3>3
  <2>6. ASSUME NEW i \in 1 .. n, i <= at - 2, FromAhead(i) PROVE FromAhead(i)'
    <3>1. i # at /\ i # at - 1
      BY <2>6, <1>2, <1>3
    <3> QED BY <2>6, <3>1, <1>10 DEF FromAhead
  <2>7. ASSUME NEW i \in 1 .. n, Waiting(i), i <= at - 2 PROVE FromBehind(i)' \/ FromAhead(i)'
    <3>1. i <= Tight /\ i < at
      BY <2>2, <2>7, <1>2, <1>3
    <3>2. FromBehind(i) \/ FromAhead(i)
      BY <2>7, <3>1, <1>3, <1>17 DEF FastInv
    <3> QED BY <2>5, <2>6, <2>7, <3>1, <3>2
  <2>8. ASSUME NEW i \in 1 .. n, Waiting(i), i <= at - 1, ~queue'[i].recalculate
        PROVE  FromBehind(i)'
    <3>1. i <= Visited /\ i < at
      BY <2>2, <2>8, <1>2, <1>3
    <3>2. ~queue[i].recalculate
      BY <2>8, <3>1, <1>10
    <3> QED BY <2>5, <2>8, <3>1, <3>2, <1>3, <1>17 DEF FastInv
  <2>9. ASSUME NEW i \in 1 .. n
        PROVE  /\ queue'[i].reach > 0
               /\ Waiting(i)' =>
                    /\ i <= Tight' => FromBehind(i)' \/ FromAhead(i)'
                    /\ i <= Visited' /\ ~queue'[i].recalculate => FromBehind(i)'
                    /\ i > Visited' => FromAhead(i)' /\ queue'[i].recalculate
    BY <2>2, <2>3, <2>4, <2>7, <2>8, <1>10
  <2> QED BY <2>9, <1>10 DEF FastInv
<1> QED BY <1>10, <1>11, <1>12, <1>14, <1>15, <1>16, <1>17 DEF PlannerInv

\* While a block is planned nothing is flushed, and a block that is not to run any
\* more, or runs, has been taken by the interrupt.
LEMMA Running ==
  ASSUME PlannerInv, ~flushed, NEW i \in 1 .. Len(queue), i >= done, ~Waiting(i)
  PROVE  queue[i].ticking /\ Feasible(queue[i])
<1>1. Len(queue) \in Nat /\ done \in Nat /\ (i > done => queue[i].ticking)
  BY QueueIs DEF PlannerInv
<1>2. queue[i].ticking
  BY <1>1 DEF PlannerInv, ControlInv
<1> QED BY <1>2 DEF PlannerInv, PlanInv

\* Where the reverse passes end, the forward passes begin.
LEMMA ReverseEndStep ==
  ASSUME PlannerInv, ReverseEnd
  PROVE  PlannerInv'
<1> DEFINE n == Len(queue)
<1>1. /\ pc = "reverse" /\ (at = 1 \/ ~queue[at].recalculate)
      /\ queue' = queue /\ speed' = MaxExit(queue[at]) /\ at' = at
      /\ done' = done /\ flushed' = flushed /\ machine' = machine
      /\ pc' = IF at = n THEN "last" ELSE "forward"
  BY DEF ReverseEnd, ReverseStops
<1>2. n \in Nat /\ done \in Nat /\ at \in 1 .. n /\ at # n /\ ~flushed
  BY <1>1, QueueIs DEF PlannerInv, TypeInv, ControlInv
<1>3. pc' = "forward" /\ at < n
  BY <1>1, <1>2
<1>4. /\ \A i : Waiting(i)' <=> Waiting(i)
      /\ \A i : EntryAfter(i)' = EntryAfter(i)
      /\ \A i : Brakes(i)' <=> Brakes(i)
      /\ \A i : Planned(i)' <=> Planned(i)
  BY <1>1 DEF Waiting, EntryAfter, Brakes, Planned, Reaches
<1>5. Behind = at /\ Behind' = at
  BY <1>1, <1>2, <1>3 DEF Behind
<1>6. TypeInv'
  BY <1>1, <1>2, <1>3, QueueIs, MaxExitIs DEF PlannerInv, TypeInv, Pcs
<1>7. ControlInv'
  BY <1>1, <1>2, <1>3, <1>4 DEF PlannerInv, ControlInv
<1>8. LimitsInv'
  BY <1>1, <1>4 DEF PlannerInv, LimitsInv
<1>9. PlanInv'
  <2>1. Settled' = Settled
    BY <1>1, <1>3, <1>5 DEF Settled
  <2> QED BY <2>1, <1>1, <1>4 DEF PlannerInv, PlanInv
<1>10. PassInv'
  <2>1. Behind' >= done' /\ (~Waiting(Behind)' => queue'[Behind'].exit <= EntryAfter(Behind)')
    <3>1. Behind >= done /\ (~Waiting(Behind) => queue[Behind].exit <= EntryAfter(Behind))
      BY <1>1 DEF PlannerInv, PassInv
    <3>2. (Waiting(Behind)' <=> Waiting(Behind)) /\ EntryAfter(Behind)' = EntryAfter(Behind)
      BY <1>1, <1>5 DEF Waiting, EntryAfter
    <3> QED BY <3>1, <3>2, <1>1, <1>5
  <2> QED BY <2>1, <1>1, <1>3 DEF PassInv
<1>11. MachineInv'
  BY <1>1, <1>4 DEF PlannerInv, MachineInv
<1> QED BY <1>6, <1>7, <1>8, <1>9, <1>10, <1>11 DEF PlannerInv

\* forward_pass of the block after block_index: it is entered at no more than what the
\* block before can reach, and exactly at the exit speed of a block that runs.
LEMMA ForwardPassStep ==
  ASSUME PlannerInv, ForwardPass
  PROVE  PlannerInv' /\ (FastInv => FastInv')
<1> DEFINE n == Len(queue)
           k == at + 1
           b == Forwarded(queue[at + 1], speed)
<1>1. /\ pc = "forward" /\ queue' = [queue EXCEPT ![k] = b] /\ speed' = MaxExit(b)
      /\ at' = k /\ pc' = "trapezoid"
      /\ done' = done /\ flushed' = flushed /\ machine' = machine
  BY DEF ForwardPass
<1>2. /\ n \in Nat /\ done \in 0 .. n /\ Minimum \in Nat /\ speed \in Nat
      /\ \A i \in 1 .. n : /\ queue[i] \in Block /\ EntryAfter(i) \in Nat /\ queue[i].reach \in Nat
                           /\ queue[i].entry \in Nat /\ queue[i].exit \in Nat
      /\ \A i : Waiting(i) <=> i \in 1 .. n /\ i > done /\ ~queue[i].ticking
  BY QueueIs DEF PlannerInv, TypeInv
<1>3. at \in 1 .. n /\ at < n /\ at >= done /\ k \in 1 .. n /\ ~flushed /\ Behind = at
  BY <1>1, <1>2 DEF PlannerInv, ControlInv, PassInv, TypeInv, Behind
<1>4. \A i \in k .. n : Waiting(i)
  BY <1>1 DEF PlannerInv, ControlInv
<1>5. Waiting(k) /\ Limited(queue[k]) /\ queue[k] \in Block
  <2>1. Waiting(k)
    BY <1>2, <1>3, <1>4
  <2> QED BY <2>1, <1>2, <1>3 DEF PlannerInv, LimitsInv, Limited
<1>6. EntryAfter(at) = queue[k].entry
  BY <1>3 DEF EntryAfter
<1>7. /\ speed = MaxExit(queue[at]) /\ Minimum <= speed
      /\ Waiting(at) => queue[at].entry <= speed /\ speed <= queue[at].entry + queue[at].reach
      /\ ~Waiting(at) => speed = queue[at].exit /\ speed <= queue[k].entry
  <2>1. speed = MaxExit(queue[at])
    BY <1>1 DEF PlannerInv, PassInv
  <2>2. ASSUME Waiting(at)
        PROVE  /\ queue[at].entry <= speed /\ speed <= queue[at].entry + queue[at].reach
               /\ Minimum <= speed
    <3>1. Limited(queue[at]) /\ ~queue[at].ticking
      BY <2>2, <1>2, <1>3 DEF PlannerInv, LimitsInv, Limited
    <3>2. Minimum <= queue[at].entry
      BY <3>1 DEF Limited
    <3>3. queue[at].entry <= speed /\ speed <= queue[at].entry + queue[at].reach
      BY <2>1, <3>1, <1>2, <1>3, MaxExitIs
    <3> QED BY <3>2, <3>3, <1>2, <1>3
  <2>3. ASSUME ~Waiting(at)
        PROVE  speed = queue[at].exit /\ Minimum <= speed /\ speed <= queue[k].entry
    <3>1. queue[at].ticking /\ Feasible(queue[at])
      BY <2>3, <1>3, Running
    <3>2. speed = queue[at].exit
      BY <2>1, <3>1, <1>2, <1>3, MaxExitIs
    <3>3. \A i \in 1 .. n : i = Behind /\ ~Waiting(i) => queue[i].exit <= EntryAfter(i)
      BY <1>1 DEF PlannerInv, PassInv
    <3>4. queue[at].exit <= EntryAfter(at)
      BY <3>3, <2>3, <1>3
    <3> QED BY <3>1, <3>2, <3>4, <1>6 DEF Feasible
  <2> QED BY <2>1, <2>2, <2>3
<1>8. /\ b \in Block /\ b.entry = Least(speed, queue[k].entry)
      /\ b.nominal = queue[k].nominal /\ b.reach = queue[k].reach
      /\ b.maxEntry = queue[k].maxEntry /\ b.nominalLength = queue[k].nominalLength
      /\ b.ticking = queue[k].ticking
  BY <1>2, <1>5, ForwardedIs
<1>9. /\ b.entry \in Nat /\ b.entry <= speed /\ b.entry <= queue[k].entry
      /\ b.entry = speed \/ b.entry = queue[k].entry
      /\ speed <= queue[k].entry => b.entry = speed
  BY <1>2, <1>3, <1>8 DEF Least
<1>10. Minimum <= b.entry /\ b.entry <= b.maxEntry
  <2>1. Minimum <= queue[k].entry /\ queue[k].entry <= queue[k].maxEntry
        /\ queue[k].maxEntry \in Nat
    BY <1>5, Fields DEF Limited
  <2>2. Minimum <= speed /\ Minimum \in Nat /\ speed \in Nat /\ queue[k].entry \in Nat
    BY <1>2, <1>3, <1>7
  <2>3. b.maxEntry = queue[k].maxEntry
    BY <1>8
  <2> QED BY <2>1, <2>2, <2>3, <1>9
<1> HIDE DEF b
<1>11. /\ queue' \in Seq(Block) /\ Len(queue') = n /\ queue'[k] = b
       /\ \A i \in 1 .. n : i # k => queue'[i] = queue[i]
       /\ \A i \in 1 .. n :
             /\ queue'[i].reach = queue[i].reach
             /\ i # k - 1 => EntryAfter(i)' = EntryAfter(i)
             /\ i = k - 1 => EntryAfter(i)' = b.entry /\ EntryAfter(i) = queue[k].entry
       /\ \A i \in 1 .. n : queue'[i].ticking = queue[i].ticking
       /\ \A i : Waiting(i)' <=> Waiting(i)
       /\ LimitsInv'
  <2> HIDE DEF n, k
  <2> QED BY <1>1, <1>3, <1>8, <1>10, Rewritten DEF n
<1>12. TypeInv'
  <2>1. MaxExit(b) \in Nat
    BY <1>8, MaxExitIs
  <2> QED BY <2>1, <1>1, <1>2, <1>3, <1>11 DEF PlannerInv, TypeInv, Pcs
<1>13. ControlInv'
  <2>1. \A i \in 1 .. done : queue'[i].ticking
    BY <1>2, <1>3, <1>11 DEF PlannerInv, ControlInv
  <2>2. ASSUME NEW i \in 1 .. n, queue'[i].ticking PROVE i <= done + 1 /\ ~queue'[i].recalculate
    <3>1. queue[i].ticking /\ i # k
      BY <2>2, <1>2, <1>3, <1>5, <1>11
    <3> QED BY <3>1, <1>3, <1>11 DEF PlannerInv, ControlInv
  <2>3. k >= 2 /\ \A i \in k .. n : Waiting(i)'
    BY <1>2, <1>3, <1>4, <1>11
  <2>4. done < n /\ ~queue'[n].ticking
    <3>1. done < n /\ ~queue[n].ticking /\ n \in 1 .. n
      BY <1>1, <1>2, <1>3 DEF PlannerInv, ControlInv
    <3> QED BY <3>1, <1>11
  <2> QED BY <2>1, <2>2, <2>3, <2>4, <1>1, <1>3, <1>11 DEF ControlInv
<1>14. PlanInv'
  <2>1. ASSUME NEW i \in 1 .. n, Waiting(i)' PROVE Brakes(i)'
    <3>1. Brakes(i) /\ Waiting(i)
      BY <2>1, <1>3, <1>11 DEF PlannerInv, PlanInv
    <3>2. CASE i = k
      <4>1. EntryAfter(i)' = EntryAfter(i) /\ queue'[i] = b
        BY <3>2, <1>2, <1>3, <1>11
      <4> QED BY <4>1, <3>1, <3>2, <1>2, <1>3, <1>8, <1>9 DEF Brakes
    <3>3. CASE i = at
      <4>1. EntryAfter(i)' = b.entry /\ queue'[i] = queue[i] /\ EntryAfter(i) = queue[k].entry
        BY <3>3, <1>2, <1>3, <1>11
      <4>2. queue[i].entry <= speed
        BY <3>1, <3>3, <1>7
      <4> QED BY <4>1, <4>2, <3>1, <3>3, <1>2, <1>3, <1>9 DEF Brakes
    <3>4. CASE i # k /\ i # at
      <4>1. EntryAfter(i)' = EntryAfter(i) /\ queue'[i] = queue[i]
        BY <3>4, <1>2, <1>3, <1>11
      <4> QED BY <3>1, <4>1 DEF Brakes
    <3> QED BY <3>2, <3>3, <3>4
  <2>2. ASSUME NEW i \in 1 .. n, queue'[i].ticking PROVE Feasible(queue'[i])
    <3>1. queue[i].ticking /\ i # k
      BY <2>2, <1>2, <1>3, <1>5, <1>11
    <3> QED BY <3>1, <1>3, <1>11 DEF PlannerInv, PlanInv
  <2>3. ASSUME NEW i \in 1 .. Settled', i >= done' PROVE Planned(i)'
    <3>1. i \in 1 .. n /\ i < at /\ i >= done /\ i \in 1 .. Settled
      BY <2>3, <1>1, <1>2, <1>3 DEF Settled
    <3>2. Planned(i)
      BY <3>1, <1>3 DEF PlannerInv, PlanInv
    <3>3. queue'[i] = queue[i] /\ EntryAfter(i)' = EntryAfter(i) /\ (Waiting(i)' <=> Waiting(i))
      BY <3>1, <1>2, <1>3, <1>11
    <3> QED BY <3>2, <3>3 DEF Planned, Reaches
  <2> QED BY <2>1, <2>2, <2>3, <1>11 DEF PlanInv
<1>15. PassInv'
  <2>1. speed' = MaxExit(queue'[at'])
    BY <1>1, <1>11
  <2>2. EntryAfter(at - 1)' = b.entry /\ queue'[at' - 1] = queue[at] /\ at' - 1 = at
    <3>1. at' - 1 = at
      BY <1>1, <1>3, <1>2
    <3>2. Len(queue') = n /\ queue'[k] = b /\ queue'[at] = queue[at]
      <4>1. at \in 1 .. n /\ at # k
        BY <1>3
      <4> QED BY <4>1, <1>3, <1>11
    <3>3. at < Len(queue')
      BY <3>2, <1>3
    <3> QED BY <3>1, <3>2, <3>3 DEF EntryAfter
  <2>3. Waiting(at - 1)' <=> Waiting(at)
    <3>1. \A i : i = at' - 1 => (Waiting(i)' <=> Waiting(at - 1)')
      BY DEF Waiting
    <3> QED BY <3>1, <2>2, <1>11
  <2>4. ASSUME Waiting(at) PROVE Reaches(at - 1)'
    BY <2>2, <2>4, <1>2, <1>3, <1>7, <1>9 DEF Reaches
  <2>5. ASSUME ~Waiting(at) PROVE queue'[at' - 1].exit = EntryAfter(at - 1)'
    BY <2>2, <2>5, <1>7, <1>9
  <2>6. at' - 1 >= done'
    BY <2>2, <1>1, <1>3
  <2> QED BY <2>1, <2>3, <2>4, <2>5, <2>6, <1>1 DEF PassInv
<1>16. MachineInv'
  <2>1. done >= 1 => queue'[done] = queue[done]
    BY <1>2, <1>3, <1>11
  <2>2. queue'[1] = queue[1] /\ queue' # <<>> /\ queue # <<>> /\ (Waiting(1)' <=> Waiting(1))
    BY <1>2, <1>3, <1>11
  <2> QED BY <2>1, <2>2, <1>1, <1>3 DEF PlannerInv, MachineInv
<1>17. ASSUME FastInv PROVE FastInv'
  <2>1. /\ Visited = at /\ Tight = at /\ Visited' = k /\ Tight' = k
    BY <1>1, <1>3 DEF Visited, Tight
  <2>2. ASSUME NEW i \in 1 .. n PROVE queue'[i].reach > 0
    BY <2>2, <1>3, <1>11, <1>17 DEF FastInv
  <2>3. FromAhead(k) /\ queue[k].recalculate
    BY <2>1, <1>2, <1>3, <1>5, <1>17 DEF FastInv
  <2>4. b = queue[k] \/ b.entry = b.maxEntry \/ b.entry = speed
    BY <1>2, <1>3, <1>5, <1>8, HeldBack DEF b
  <2>5. ASSUME Waiting(at), b.entry = speed
        PROVE  b.entry = b.maxEntry \/ b.entry = queue[at].entry + queue[at].reach
    <3>1. Limited(queue[at]) /\ ~queue[at].ticking
      BY <2>5, <1>2, <1>3 DEF PlannerInv, LimitsInv, Limited
    <3>2. speed = queue[at].nominal \/ speed = queue[at].entry + queue[at].reach
      BY <3>1, <1>2, <1>3, <1>7, HeldBack
    <3>3. queue[k].maxEntry <= queue[at].nominal
      <4>1. k \in 2 .. n /\ k - 1 = at
        BY <1>2, <1>3
      <4> QED BY <4>1, <1>3 DEF PlannerInv, LimitsInv
    <3>4. b.maxEntry <= queue[at].nominal /\ b.maxEntry \in Nat /\ queue[at].nominal \in Nat
      BY <3>3, <1>2, <1>3, <1>8, Fields
    <3> QED BY <2>5, <3>2, <3>4, <1>9, <1>10
  <2>6. ASSUME NEW i \in 1 .. n, i = k PROVE (FromAhead(i)' /\ queue'[i].recalculate) \/ FromBehind(i)'
    <3>1. i # k - 1 /\ i - 1 = at /\ queue'[i] = b /\ queue'[at] = queue[at]
      BY <2>6, <1>2, <1>3, <1>11
    <3>2. CASE b = queue[k]
      <4>1. EntryAfter(i)' = EntryAfter(i)
        BY <3>1, <1>11
      <4> QED BY <2>3, <2>6, <3>1, <3>2, <4>1 DEF FromAhead
    <3>3. CASE b # queue[k]
      <4>1. Waiting(i - 1)' => Waiting(at)
        <5>1. Waiting(i - 1)' => Waiting(i - 1)
          BY <1>11
        <5> QED BY <5>1, <3>1
      <4> QED BY <2>4, <2>5, <3>1, <3>3, <4>1 DEF FromBehind
    <3> QED BY <3>2, <3>3
  <2>7. ASSUME NEW i \in 1 .. n, i > k, Waiting(i) PROVE FromAhead(i)' /\ queue'[i].recalculate
    <3>1. i # k /\ i # k - 1 /\ i > Visited
      BY <2>1, <2>7, <1>2, <1>3
    <3>2. FromAhead(i) /\ queue[i].recalculate
      BY <2>7, <3>1, <1>3, <1>17 DEF FastInv
    <3> QED BY <3>1, <3>2, <1>11 DEF FromAhead
  <2>8. ASSUME NEW i \in 1 .. n, i <= at, FromBehind(i) PROVE FromBehind(i)'
    <3>1. i # k /\ i - 1 # k
      BY <2>8, <1>2, <1>3
    <3>2. CASE Waiting(i - 1)
      <4>1. i - 1 \in 1 .. n
        BY <3>2, <1>2
      <4> QED BY <2>8, <3>1, <4>1, <1>11 DEF FromBehind
    <3>3. CASE ~Waiting(i - 1)
      <4>1. ~Waiting(i - 1)'
        BY <3>3, <1>11
      <4> QED BY <4>1 DEF FromBehind
    <3> QED BY <3>2, <3>3
  <2>9. ASSUME NEW i \in 1 .. n, i <= at, Waiting(i), FromAhead(i) PROVE FromAhead(i)'
    <3>1. CASE i = at
      <4>1. EntryAfter(i)' = b.entry /\ queue'[i] = queue[i] /\ EntryAfter(i) = queue[k].entry
        BY <3>1, <1>2, <1>3, <1>11
      <4>2. CASE queue[i].entry = queue[i].maxEntry
        BY <4>1, <4>2 DEF FromAhead
      <4>3. CASE queue[i].entry = queue[k].entry + queue[i].reach
        <5>1. queue[i].entry <= speed
          BY <2>9, <3>1, <1>7
        <5>2. /\ queue[i].entry \in Nat /\ queue[i].reach \in Nat /\ queue[k].entry \in Nat
              /\ speed \in Nat
          BY <1>2, <1>3
        <5>3. queue[k].entry <= speed
          BY <5>1, <5>2, <4>3
        <5>4. b.entry = queue[k].entry
          BY <5>2, <5>3, <1>8 DEF Least
        <5> QED BY <4>1, <4>3, <5>4 DEF FromAhead
      <4> QED BY <2>9, <4>1, <4>2, <4>3 DEF FromAhead
    <3>2. CASE i # at
      <4>1. i # k /\ i # k - 1
        BY <2>9, <3>2, <1>2, <1>3
      <4> QED BY <2>9, <4>1, <1>11 DEF FromAhead
    <3> QED BY <3>1, <3>2
  <2>10. ASSUME NEW i \in 1 .. n, i <= at, Waiting(i)
         PROVE  /\ FromBehind(i)' \/ FromAhead(i)'
                /\ ~queue'[i].recalculate => FromBehind(i)'
    <3>1. i # k /\ queue'[i] = queue[i]
      BY <2>10, <1>2, <1>3, <1>11
    <3>2. /\ FromBehind(i) \/ FromAhead(i)
          /\ ~queue[i].recalculate => FromBehind(i)
      BY <2>1, <2>10, <1>3, <1>17 DEF FastInv
    <3> QED BY <2>8, <2>9, <2>10, <3>1, <3>2
  <2>11. ASSUME NEW i \in 1 .. n, Waiting(i)'
         PROVE  /\ i <= k => FromBehind(i)' \/ FromAhead(i)'
                /\ i <= k /\ ~queue'[i].recalculate => FromBehind(i)'
                /\ i > k => FromAhead(i)' /\ queue'[i].recalculate
    <3>1. Waiting(i) /\ (i > k \/ i = k \/ i <= at)
      BY <2>11, <1>2, <1>3, <1>11
    <3>2. i <= at => ~(i > k)
      BY <1>2, <1>3
    <3> QED BY <2>6, <2>7, <2>10, <3>1, <3>2
  <2> QED BY <2>1, <2>2, <2>11, <1>11 DEF FastInv
<1> QED BY <1>11, <1>12, <1>13, <1>14, <1>15, <1>16, <1>17 DEF PlannerInv

\* A step that rewrites the trapezoid of a block that is not taken, or its flag ready.
LEMMA Retimed ==
  ASSUME PlannerInv, ~flushed, NEW k \in 1 .. Len(queue), NEW b \in Block,
         queue' = [queue EXCEPT ![k] = b], done' = done, flushed' = flushed, machine' = machine,
         b.nominal = queue[k].nominal, b.reach = queue[k].reach,
         b.maxEntry = queue[k].maxEntry, b.nominalLength = queue[k].nominalLength,
         b.ticking = queue[k].ticking, b.recalculate = queue[k].recalculate,
         b.entry = queue[k].entry,
         b.ticking => b.initial = queue[k].initial /\ b.exit = queue[k].exit
  PROVE  /\ queue' \in Seq(Block) /\ Len(queue') = Len(queue) /\ queue'[k] = b
         /\ \A i \in 1 .. Len(queue) : i # k => queue'[i] = queue[i]
         /\ \A i \in 1 .. Len(queue) :
              /\ queue'[i].reach = queue[i].reach /\ queue'[i].entry = queue[i].entry
              /\ EntryAfter(i)' = EntryAfter(i)
         /\ \A i : Waiting(i)' <=> Waiting(i)
         /\ \A i \in 1 .. done : queue'[i].ticking
         /\ \A i \in 1 .. Len(queue) : queue'[i].ticking => i <= done + 1 /\ ~queue'[i].recalculate
         /\ \A i \in 1 .. Len(queue) : queue'[i].ticking = queue[i].ticking
         /\ LimitsInv'
         /\ \A i \in 1 .. Len(queue) : Waiting(i)' => Brakes(i)'
         /\ \A i \in 1 .. Len(queue) : queue'[i].ticking => Feasible(queue'[i])
         /\ \A i \in 1 .. Len(queue) : i # k /\ Planned(i) => Planned(i)'
         /\ MachineInv'
<1>1. /\ Len(queue) \in Nat /\ done \in 0 .. Len(queue)
      /\ \A i : Waiting(i) <=> i \in 1 .. Len(queue) /\ i > done /\ ~queue[i].ticking
  BY QueueIs DEF PlannerInv, TypeInv
<1>2. Waiting(k) => Minimum <= b.entry /\ b.entry <= b.maxEntry
  BY DEF PlannerInv, LimitsInv
<1>3. /\ queue' \in Seq(Block) /\ Len(queue') = Len(queue) /\ queue'[k] = b
      /\ \A i \in 1 .. Len(queue) : i # k => queue'[i] = queue[i]
      /\ \A i \in 1 .. Len(queue) :
            /\ queue'[i].reach = queue[i].reach
            /\ i # k - 1 => EntryAfter(i)' = EntryAfter(i)
            /\ i = k - 1 => EntryAfter(i)' = b.entry /\ EntryAfter(i) = queue[k].entry
      /\ \A i \in 1 .. Len(queue) : queue'[i].ticking = queue[i].ticking
      /\ \A i : Waiting(i)' <=> Waiting(i)
      /\ LimitsInv'
  BY <1>2, Rewritten
<1>4. \A i \in 1 .. Len(queue) : queue'[i].entry = queue[i].entry /\ EntryAfter(i)' = EntryAfter(i)
  BY <1>3
<1>5. \A i \in 1 .. Len(queue) : queue'[i].recalculate = queue[i].recalculate
  BY <1>3
<1>6. ASSUME NEW i \in 1 .. done PROVE queue'[i].ticking
  <2>1. queue[i].ticking /\ i \in 1 .. Len(queue)
    BY <1>1 DEF PlannerInv, ControlInv
  <2> QED BY <2>1, <1>3
<1>7. \A i \in 1 .. Len(queue) : queue'[i].ticking => i <= done + 1 /\ ~queue'[i].recalculate
  BY <1>3, <1>5 DEF PlannerInv, ControlInv
<1>8. ASSUME NEW i \in 1 .. Len(queue), Waiting(i)' PROVE Brakes(i)'
  <2>1. Brakes(i)
    BY <1>3, <1>8 DEF PlannerInv, PlanInv
  <2> QED BY <2>1, <1>3, <1>4 DEF Brakes
<1>9. ASSUME NEW i \in 1 .. Len(queue), queue'[i].ticking PROVE Feasible(queue'[i])
  <2>1. Feasible(queue[i])
    BY <1>3, <1>9 DEF PlannerInv, PlanInv
  <2>2. CASE i = k
    BY <2>1, <2>2, <1>3, <1>9 DEF Feasible
  <2>3. CASE i # k
    BY <2>1, <2>3, <1>3
  <2> QED BY <2>2, <2>3
<1>10. ASSUME NEW i \in 1 .. Len(queue), i # k, Planned(i) PROVE Planned(i)'
  BY <1>3, <1>4, <1>10 DEF Planned, Reaches
<1>11. MachineInv'
  <2>1. ASSUME done >= 1 PROVE queue'[done].exit = machine
    <3>1. done \in 1 .. Len(queue) /\ queue[done].ticking /\ queue[done].exit = machine
      BY <2>1, <1>1 DEF PlannerInv, ControlInv, MachineInv
    <3>2. CASE done = k
      BY <3>1, <3>2, <1>3
    <3>3. CASE done # k
      BY <3>1, <3>3, <1>3
    <3> QED BY <3>2, <3>3
  <2>2. ASSUME Waiting(1)' PROVE queue'[1].entry = machine
    <3>1. Waiting(1) /\ 1 \in 1 .. Len(queue)
      BY <2>2, <1>1, <1>3
    <3> QED BY <3>1, <1>4 DEF PlannerInv, MachineInv
  <2>3. queue' # <<>>
    BY <1>1, <1>3
  <2> QED BY <2>1, <2>2, <2>3 DEF MachineInv
<1> QED BY <1>3, <1>4, <1>6, <1>7, <1>8, <1>9, <1>10, <1>11

\* The block before the one that forward_pass visited gets its trapezoid, which ends
\* where the next one starts; a block that runs has that one already.
LEMMA PreviousTrapezoidStep ==
  ASSUME PlannerInv, PreviousTrapezoid
  PROVE  PlannerInv'
<1> DEFINE n == Len(queue)
           k == at - 1
           b == Trapezoid(queue[k], queue[at].entry)
<1>1. /\ pc = "trapezoid" /\ queue' = [queue EXCEPT ![k] = b]
      /\ pc' = IF at = n THEN "last" ELSE "forward"
      /\ done' = done /\ at' = at /\ speed' = speed /\ flushed' = flushed /\ machine' = machine
  BY DEF PreviousTrapezoid
<1>2. n \in Nat /\ done \in 0 .. n /\ at \in 2 .. n /\ k \in 1 .. n /\ k >= done /\ ~flushed
  BY <1>1, QueueIs DEF PlannerInv, TypeInv, ControlInv, PassInv
<1>3. queue[k] \in Block /\ queue[at].entry \in Nat /\ EntryAfter(k) = queue[at].entry
  <2>1. k + 1 = at /\ k < n
    BY <1>2
  <2> QED BY <2>1, <1>2, QueueIs DEF PlannerInv, EntryAfter
<1>4. /\ b \in Block
      /\ \A f \in {"nominal", "reach", "maxEntry", "entry", "nominalLength", "ticking",
                   "recalculate", "ready"} : b[f] = queue[k][f]
      /\ queue[k].ticking => b = queue[k]
      /\ ~queue[k].ticking => b.initial = queue[k].entry /\ b.exit = queue[at].entry
  BY <1>3, TrapezoidIs
<1> HIDE DEF b
<1>5. /\ b.nominal = queue[k].nominal /\ b.reach = queue[k].reach
      /\ b.maxEntry = queue[k].maxEntry /\ b.nominalLength = queue[k].nominalLength
      /\ b.ticking = queue[k].ticking /\ b.recalculate = queue[k].recalculate
      /\ b.entry = queue[k].entry
      /\ b.ticking => b.initial = queue[k].initial /\ b.exit = queue[k].exit
  BY <1>4
<1>6. /\ queue' \in Seq(Block) /\ Len(queue') = n /\ queue'[k] = b
      /\ \A i \in 1 .. n : i # k => queue'[i] = queue[i]
      /\ \A i \in 1 .. n : /\ queue'[i].reach = queue[i].reach
                           /\ queue'[i].entry = queue[i].entry
                           /\ EntryAfter(i)' = EntryAfter(i)
      /\ \A i : Waiting(i)' <=> Waiting(i)
      /\ \A i \in 1 .. done : queue'[i].ticking
      /\ \A i \in 1 .. n : queue'[i].ticking => i <= done + 1 /\ ~queue'[i].recalculate
      /\ \A i \in 1 .. n : queue'[i].ticking = queue[i].ticking
      /\ LimitsInv'
      /\ \A i \in 1 .. n : Waiting(i)' => Brakes(i)'
      /\ \A i \in 1 .. n : queue'[i].ticking => Feasible(queue'[i])
      /\ \A i \in 1 .. n : i # k /\ Planned(i) => Planned(i)'
      /\ MachineInv'
  <2> HIDE DEF n, k
  <2> QED BY <1>1, <1>2, <1>4, <1>5, Retimed DEF n
<1>7. \A i \in at .. n : Waiting(i)
  BY <1>1 DEF PlannerInv, ControlInv
<1>8. TypeInv'
  BY <1>1, <1>2, <1>6 DEF PlannerInv, TypeInv, Pcs
<1>9. ControlInv'
  <2>1. \A i \in at + 1 .. n : Waiting(i)'
    <3>1. \A i \in at + 1 .. n : i \in at .. n
      BY <1>2
    <3> QED BY <3>1, <1>6, <1>7
  <2>2. done < n /\ ~queue'[n].ticking
    <3>1. done < n /\ ~queue[n].ticking /\ n \in 1 .. n
      BY <1>1, <1>2 DEF PlannerInv, ControlInv
    <3>2. queue'[n].ticking = queue[n].ticking
      BY <3>1, <1>6
    <3> QED BY <3>1, <3>2
  <2>3. \A i \in 1 .. done : queue'[i].ticking
    BY <1>6
  <2>4. \A i \in 1 .. n : queue'[i].ticking => i <= done + 1 /\ ~queue'[i].recalculate
    BY <1>6
  <2>5. Len(queue') = n
    BY <1>6
  <2>6. CASE at = n
    BY <2>2, <2>3, <2>4, <2>5, <2>6, <1>1, <1>2 DEF ControlInv
  <2>7. CASE at # n
    <3>1. pc' = "forward" /\ at' = at /\ at >= 1 /\ at < n
      BY <2>7, <1>1, <1>2
    <3> QED BY <2>1, <2>2, <2>3, <2>4, <2>5, <3>1, <1>1, <1>2 DEF ControlInv
  <2> QED BY <2>6, <2>7
<1>10. Planned(k)'
  <2>1. EntryAfter(k)' = queue[at].entry
    <3>1. \A i \in 1 .. n : i = k => EntryAfter(i)' = EntryAfter(k)
      BY <1>6
    <3> QED BY <3>1, <1>1, <1>2, <1>3 DEF EntryAfter
  <2>2. Waiting(k)' <=> Waiting(k)
    <3>1. Waiting(k)' <=> k \in DOMAIN queue' /\ k > done' /\ ~queue'[k].ticking
      BY <1>1 DEF Waiting
    <3> QED BY <3>1, <1>1, <1>2, <1>6, QueueIs DEF PlannerInv
  <2>3. CASE Waiting(k)
    <3>1. ~queue[k].ticking /\ Reaches(k)
      BY <2>3, <1>1, QueueIs DEF PlannerInv, PassInv
    <3>2. /\ queue'[at' - 1].exit = EntryAfter(k)' /\ queue'[at' - 1].initial = queue'[at' - 1].entry
          /\ queue'[at' - 1].reach = queue[k].reach /\ queue'[at' - 1].entry = queue[k].entry
      BY <3>1, <2>1, <1>1, <1>4, <1>5, <1>6
    <3> QED BY <3>1, <3>2, <2>1, <1>3 DEF Planned, Reaches
  <2>4. CASE ~Waiting(k)
    <3>1. queue[k].ticking
      BY <2>4, <1>2, Running
    <3>2. queue[k].exit = EntryAfter(k)
      BY <2>4, <1>1 DEF PlannerInv, PassInv
    <3>3. queue'[at' - 1].exit = EntryAfter(k)'
      BY <3>1, <3>2, <2>1, <1>1, <1>3, <1>4, <1>6
    <3> QED BY <3>3, <2>2, <2>4 DEF Planned
  <2> QED BY <2>3, <2>4
<1>11. PlanInv'
  <2>1. Settled = at - 2 /\ Settled' = at - 1
    BY <1>1, <1>2, <1>6 DEF Settled, Behind
  <2>2. ASSUME NEW i \in 1 .. Settled', i >= done' PROVE Planned(i)'
    <3>1. CASE i = k
      <4>1. \A j : j = k => (Planned(j)' <=> Planned(k)')
        BY <1>1 DEF Planned, Waiting, Reaches, EntryAfter
      <4> QED BY <3>1, <4>1, <1>10
    <3>2. CASE i # k
      <4>1. Planned(i) /\ i \in 1 .. n
        BY <3>2, <2>1, <2>2, <1>1, <1>2 DEF PlannerInv, PlanInv
      <4> QED BY <3>2, <4>1, <1>6
    <3> QED BY <3>1, <3>2
  <2> QED BY <2>2, <1>6 DEF PlanInv
<1>12. PassInv'
  <2>1. CASE at = n
    BY <2>1, <1>1 DEF PassInv
  <2>2. CASE at # n
    <3>1. pc' = "forward" /\ Behind' = at /\ at >= done /\ queue'[at] = queue[at]
      <4>1. at \in 1 .. n /\ at # k /\ at >= done
        BY <1>2
      <4>2. pc' = "forward"
        BY <2>2, <1>1
      <4> QED BY <4>1, <4>2, <1>1, <1>6 DEF Behind
    <3>2. Waiting(Behind)'
      <4>1. Waiting(at) /\ Waiting(at)'
        <5>1. \A i : i = at => Waiting(i) /\ Waiting(i)'
          BY <1>2, <1>6, <1>7
        <5> QED BY <5>1, <1>1 DEF Waiting
      <4> QED BY <4>1, <3>1, <1>1 DEF Waiting
    <3>3. speed' = MaxExit(queue'[at'])
      BY <3>1, <1>1 DEF PlannerInv, PassInv
    <3> QED BY <3>1, <3>2, <3>3, <1>1 DEF PassInv
  <2> QED BY <2>1, <2>2
<1> QED BY <1>6, <1>8, <1>9, <1>11, <1>12 DEF PlannerInv

\* The newest block ends at the minimum speed.
LEMMA LastTrapezoidStep ==
  ASSUME PlannerInv, LastTrapezoid
  PROVE  PlannerInv'
<1> DEFINE n == Len(queue)
           b == Trapezoid(queue[at], Minimum)
<1>1. /\ pc = "last" /\ queue' = [queue EXCEPT ![at] = b] /\ pc' = "ready" /\ at' = 0
      /\ speed' = Minimum /\ done' = done /\ flushed' = flushed /\ machine' = machine
  BY DEF LastTrapezoid
<1>2. n \in Nat /\ done \in 0 .. n /\ at = n /\ done < n /\ n \in 1 .. n /\ ~flushed
      /\ Minimum \in Nat
  BY <1>1, QueueIs DEF PlannerInv, TypeInv, ControlInv
<1>3. ~queue[n].ticking /\ Waiting(n)
  <2>1. ~queue[n].ticking
    BY <1>1, <1>2 DEF PlannerInv, ControlInv
  <2> QED BY <2>1, <1>2, QueueIs DEF PlannerInv
<1>4. queue[n] \in Block /\ queue[n].entry \in Nat /\ queue[n].reach \in Nat
  BY <1>2, QueueIs DEF PlannerInv
<1>5. /\ b \in Block
      /\ \A f \in {"nominal", "reach", "maxEntry", "entry", "nominalLength", "ticking",
                   "recalculate", "ready"} : b[f] = queue[at][f]
      /\ b.initial = queue[n].entry /\ b.exit = Minimum
  BY <1>2, <1>3, <1>4, TrapezoidIs
<1> HIDE DEF b
<1>6. /\ b.nominal = queue[at].nominal /\ b.reach = queue[at].reach
      /\ b.maxEntry = queue[at].maxEntry /\ b.nominalLength = queue[at].nominalLength
      /\ b.ticking = queue[at].ticking /\ b.recalculate = queue[at].recalculate
      /\ b.entry = queue[at].entry
      /\ b.ticking => b.initial = queue[at].initial /\ b.exit = queue[at].exit
  <2>1. /\ b.nominal = queue[at].nominal /\ b.reach = queue[at].reach
        /\ b.maxEntry = queue[at].maxEntry /\ b.nominalLength = queue[at].nominalLength
        /\ b.ticking = queue[at].ticking /\ b.recalculate = queue[at].recalculate
        /\ b.entry = queue[at].entry
    BY <1>5
  <2>2. ~b.ticking
    BY <2>1, <1>2, <1>3
  <2> QED BY <2>1, <2>2
<1>7. /\ queue' \in Seq(Block) /\ Len(queue') = n /\ queue'[at] = b
      /\ \A i \in 1 .. n : i # at => queue'[i] = queue[i]
      /\ \A i \in 1 .. n : /\ queue'[i].reach = queue[i].reach
                           /\ queue'[i].entry = queue[i].entry
                           /\ EntryAfter(i)' = EntryAfter(i)
      /\ \A i : Waiting(i)' <=> Waiting(i)
      /\ \A i \in 1 .. done : queue'[i].ticking
      /\ \A i \in 1 .. n : queue'[i].ticking => i <= done + 1 /\ ~queue'[i].recalculate
      /\ \A i \in 1 .. n : queue'[i].ticking = queue[i].ticking
      /\ LimitsInv'
      /\ \A i \in 1 .. n : Waiting(i)' => Brakes(i)'
      /\ \A i \in 1 .. n : queue'[i].ticking => Feasible(queue'[i])
      /\ \A i \in 1 .. n : i # at /\ Planned(i) => Planned(i)'
      /\ MachineInv'
  <2>1. at \in 1 .. Len(queue)
    BY <1>2
  <2> HIDE DEF n
  <2> QED BY <2>1, <1>1, <1>2, <1>5, <1>6, Retimed DEF n
<1>8. TypeInv'
  BY <1>1, <1>2, <1>7 DEF PlannerInv, TypeInv, Pcs
<1>9. ControlInv'
  <2>1. ~queue'[n].ticking
    BY <1>2, <1>3, <1>7
  <2> QED BY <2>1, <1>1, <1>2, <1>7 DEF ControlInv
<1>10. ASSUME NEW i \in 1 .. n, i >= done PROVE Planned(i)'
  <2>1. CASE i = n
    <3>1. EntryAfter(i)' = Minimum
      BY <2>1, <1>2, <1>7 DEF EntryAfter
    <3>2. /\ queue'[i].exit = Minimum /\ queue'[i].initial = queue[n].entry
          /\ queue'[i].entry = queue[n].entry /\ queue'[i].reach = queue[n].reach
      BY <2>1, <1>2, <1>5, <1>7
    <3>3. Minimum <= queue[n].entry
      BY <2>1, <1>3 DEF PlannerInv, LimitsInv
    <3> QED BY <3>1, <3>2, <3>3, <1>2, <1>4 DEF Planned, Reaches
  <2>2. CASE i # n
    <3>1. i \in 1 .. Settled
      BY <2>2, <1>1, <1>2 DEF Settled
    <3>2. Planned(i)
      BY <3>1, <1>2, <1>10 DEF PlannerInv, PlanInv
    <3> QED BY <3>2, <2>2, <1>2, <1>7
  <2> QED BY <2>1, <2>2
<1>11. PlanInv'
  <2>1. Settled' = n
    BY <1>1, <1>7 DEF Settled
  <2> QED BY <2>1, <1>1, <1>7, <1>10 DEF PlanInv
<1>12. PassInv'
  BY <1>1 DEF PassInv
<1> QED BY <1>7, <1>8, <1>9, <1>11, <1>12 DEF PlannerInv

\* The newest block is given to the interrupt.
LEMMA ReadyStep ==
  ASSUME PlannerInv, Ready
  PROVE  PlannerInv'
<1> DEFINE n == Len(queue)
           b == [queue[n] EXCEPT !.ready = TRUE]
<1>1. /\ pc = "ready" /\ queue' = [queue EXCEPT ![n].ready = TRUE] /\ pc' = "idle" /\ at' = at
      /\ speed' = speed /\ done' = done /\ flushed' = flushed /\ machine' = machine
  BY DEF Ready
<1>2. n \in Nat /\ done \in 0 .. n /\ at = 0 /\ done < n /\ n \in 1 .. n /\ ~flushed
  BY <1>1, QueueIs DEF PlannerInv, TypeInv, ControlInv
<1>3. queue[n] \in Block
  BY <1>2, QueueIs DEF PlannerInv
<1>4. /\ b \in Block
      /\ b.nominal = queue[n].nominal /\ b.reach = queue[n].reach
      /\ b.maxEntry = queue[n].maxEntry /\ b.nominalLength = queue[n].nominalLength
      /\ b.ticking = queue[n].ticking /\ b.recalculate = queue[n].recalculate
      /\ b.entry = queue[n].entry /\ b.initial = queue[n].initial /\ b.exit = queue[n].exit
  BY <1>3 DEF Block
<1>5. queue' = [queue EXCEPT ![n] = b]
  BY <1>1
<1> HIDE DEF b
<1>6. /\ queue' \in Seq(Block) /\ Len(queue') = n /\ queue'[n] = b
      /\ \A i \in 1 .. n : i # n => queue'[i] = queue[i]
      /\ \A i \in 1 .. n : /\ queue'[i].reach = queue[i].reach
                           /\ queue'[i].entry = queue[i].entry
                           /\ EntryAfter(i)' = EntryAfter(i)
      /\ \A i : Waiting(i)' <=> Waiting(i)
      /\ \A i \in 1 .. done : queue'[i].ticking
      /\ \A i \in 1 .. n : queue'[i].ticking => i <= done + 1 /\ ~queue'[i].recalculate
      /\ \A i \in 1 .. n : queue'[i].ticking = queue[i].ticking
      /\ LimitsInv'
      /\ \A i \in 1 .. n : Waiting(i)' => Brakes(i)'
      /\ \A i \in 1 .. n : queue'[i].ticking => Feasible(queue'[i])
      /\ \A i \in 1 .. n : i # n /\ Planned(i) => Planned(i)'
      /\ MachineInv'
  <2>1. n \in 1 .. n /\ ~flushed /\ done' = done /\ flushed' = flushed /\ machine' = machine
    BY <1>1, <1>2
  <2> QED BY <2>1, <1>4, <1>5, Retimed
<1>7. TypeInv'
  BY <1>1, <1>2, <1>6 DEF PlannerInv, TypeInv, Pcs
<1>8. ControlInv'
  BY <1>1, <1>2, <1>6 DEF ControlInv
<1>9. ASSUME NEW i \in 1 .. n, i >= done PROVE Planned(i)'
  <2>1. Planned(i)
    BY <1>1, <1>2, <1>9 DEF PlannerInv, PlanInv, Settled
  <2>2. queue'[i].initial = queue[i].initial /\ queue'[i].exit = queue[i].exit
    BY <1>4, <1>6
  <2> QED BY <2>1, <2>2, <1>6 DEF Planned, Reaches
<1>10. PlanInv'
  <2>1. Settled' = n
    BY <1>1, <1>6 DEF Settled
  <2> QED BY <2>1, <1>1, <1>6, <1>9 DEF PlanInv
<1>11. PassInv'
  BY <1>1 DEF PassInv
<1> QED BY <1>6, <1>7, <1>8, <1>10, <1>11 DEF PlannerInv

\* The interrupt takes a block, as it has nothing to step or when a block ends.
LEMMA TakenStep ==
  ASSUME PlannerInv, ~flushed, NEW k \in 1 .. Len(queue), ~queue[k].ticking,
         k = done + 1 \/ (k = done + 2 /\ queue[done + 1].ticking),
         queue' = [queue EXCEPT ![k] = Taken(@)], done' = k - 1,
         machine' = IF k = done + 1 THEN machine ELSE queue[done + 1].exit,
         UNCHANGED <<pc, at, speed, flushed>>, k <= Takeable
  PROVE  PlannerInv' /\ Feasible(queue'[k]) /\ queue'[k].initial = machine'
<1> DEFINE n == Len(queue)
           b == Taken(queue[k])
<1>1. /\ n \in Nat /\ Minimum \in Nat /\ done \in 0 .. n /\ queue[k] \in Block
      /\ queue \in Seq(Block) /\ at \in Nat
      /\ \A i : Waiting(i) <=> i \in 1 .. n /\ i > done /\ ~queue[i].ticking
      /\ \A i \in 1 .. n : queue[i].exit \in Nat
  BY QueueIs DEF PlannerInv, TypeInv
<1>2. Waiting(k)
  BY <1>1
<1>17. /\ Settled \in Int /\ k - 1 <= Settled /\ (pc # "reverse" => k <= Settled)
       /\ pc # "idle" => k < n
       /\ pc = "reverse" => k <= Behind /\ Behind \in 1 .. n /\ Behind <= at /\ Behind \in Int
       /\ pc = "forward" => k < at /\ Behind = at
       /\ pc = "trapezoid" => k < at - 1
  BY <1>1, SettledIs
<1>18. Settled <= n
  BY SettledIs
<1>3. /\ b \in Block /\ b.ticking /\ ~b.recalculate
      /\ \A f \in {"nominal", "reach", "maxEntry", "entry", "nominalLength", "initial",
                   "exit", "ready"} : b[f] = queue[k][f]
      /\ queue' = [queue EXCEPT ![k] = b]
  BY <1>1, TakenIs
<1> HIDE DEF b
<1>4. /\ queue' \in Seq(Block) /\ Len(queue') = n /\ queue'[k] = b
      /\ \A i \in 1 .. n : i # k => queue'[i] = queue[i]
  BY <1>1, <1>3, Updated
<1>5. \A i \in 1 .. n :
        /\ queue'[i].nominal = queue[i].nominal /\ queue'[i].reach = queue[i].reach
        /\ queue'[i].maxEntry = queue[i].maxEntry /\ queue'[i].entry = queue[i].entry
        /\ queue'[i].initial = queue[i].initial /\ queue'[i].exit = queue[i].exit
  BY <1>3, <1>4
<1>6. \A i \in 1 .. n : queue'[i].nominalLength = queue[i].nominalLength
  BY <1>3, <1>4
<1>7. ASSUME NEW i \in 1 .. n PROVE EntryAfter(i)' = EntryAfter(i)
  BY <1>1, <1>4, <1>5 DEF EntryAfter
<1>8. ASSUME NEW i, Waiting(i)' PROVE Waiting(i) /\ i # k /\ i \in 1 .. n
  <2>1. i \in 1 .. n /\ i > k - 1 /\ ~queue'[i].ticking
    BY <1>8, <1>4, BlocksOf DEF Waiting
  <2>2. i # k
    BY <2>1, <1>3, <1>4
  <2> QED BY <2>1, <2>2, <1>1, <1>4
<1>9. TypeInv'
  <2>1. done' \in 0 .. n /\ machine' \in Nat
    <3>1. CASE k = done + 1
      BY <3>1, <1>1 DEF PlannerInv, TypeInv
    <3>2. CASE k = done + 2
      <4>1. done + 1 \in 1 .. n /\ k # done + 1
        BY <3>2, <1>1
      <4> QED BY <3>2, <4>1, <1>1
    <3> QED BY <3>1, <3>2
  <2> QED BY <2>1, <1>4 DEF PlannerInv, TypeInv
<1>10. ControlInv'
  <2>1. ASSUME NEW i \in 1 .. k - 1 PROVE queue'[i].ticking
    <3>1. i \in 1 .. n /\ i # k /\ (i \in 1 .. done \/ (i = done + 1 /\ queue[done + 1].ticking))
      BY <1>1
    <3>2. queue[i].ticking
      BY <3>1 DEF PlannerInv, ControlInv
    <3> QED BY <3>1, <3>2, <1>4
  <2>2. ASSUME NEW i \in 1 .. n, queue'[i].ticking PROVE i <= k /\ ~queue'[i].recalculate
    <3>1. CASE i = k
      BY <3>1, <1>3, <1>4
    <3>2. CASE i # k
      <4>1. queue[i].ticking /\ queue'[i] = queue[i]
        BY <2>2, <3>2, <1>4
      <4>2. i <= done + 1 /\ ~queue[i].recalculate
        BY <4>1 DEF PlannerInv, ControlInv
      <4> QED BY <4>1, <4>2, <1>1
    <3> QED BY <3>1, <3>2
  <2>3. /\ pc \in {"idle", "ready"} => at = 0
        /\ pc = "reverse" => at >= 1 /\ n > 1
        /\ pc = "forward" => at >= 1 /\ at < n
        /\ pc = "trapezoid" => at >= 2
        /\ pc = "last" => at = n
    BY DEF PlannerInv, ControlInv
  <2>4. ASSUME pc # "idle" PROVE k - 1 < n /\ ~queue'[n].ticking
    <3>1. ~queue[n].ticking /\ n \in 1 .. n /\ n # k /\ k - 1 < n
      BY <2>4, <1>1, <1>17 DEF PlannerInv, ControlInv
    <3>2. queue'[n] = queue[n]
      BY <3>1, <1>4
    <3> QED BY <3>1, <3>2
  <2>6. ASSUME pc = "reverse", at = n PROVE queue'[at].recalculate
    <3>1. queue[at].recalculate /\ at \in 1 .. n /\ at # k
      BY <2>6, <1>1, <1>17 DEF PlannerInv, ControlInv
    <3> QED BY <3>1, <1>4
  <2>7. ASSUME NEW i \in 1 .. n, Waiting(i), i > k PROVE Waiting(i)'
    <3>1. queue'[i] = queue[i] /\ i > done' /\ i \in DOMAIN queue'
      BY <2>7, <1>1, <1>4
    <3> QED BY <3>1, <2>7, <1>1 DEF Waiting
  <2>8. ASSUME pc \in {"reverse", "forward"}, NEW i \in at + 1 .. n PROVE Waiting(i)'
    <3>1. Waiting(i) /\ i > k /\ i \in 1 .. n
      BY <2>8, <1>1, <1>17 DEF PlannerInv, ControlInv
    <3> QED BY <3>1, <2>7
  <2>9. ASSUME pc = "trapezoid", NEW i \in at .. n PROVE Waiting(i)'
    <3>1. Waiting(i) /\ i > k /\ i \in 1 .. n
      BY <2>9, <1>1, <1>17 DEF PlannerInv, ControlInv
    <3> QED BY <3>1, <2>7
  <2>5. pc' = pc /\ at' = at /\ ~flushed' /\ Len(queue') = n /\ done' = k - 1 /\ (k - 1) + 1 = k
    BY <1>1, <1>4
  <2> QED BY <2>1, <2>2, <2>3, <2>4, <2>5, <2>6, <2>8, <2>9 DEF ControlInv
<1>11. LimitsInv'
  <2>1. ASSUME NEW i \in 1 .. n
        PROVE  /\ Minimum <= queue'[i].maxEntry /\ queue'[i].maxEntry <= queue'[i].nominal
               /\ queue'[i].nominalLength <=> queue'[i].nominal <= Minimum + queue'[i].reach
    BY <1>5, <1>6 DEF PlannerInv, LimitsInv
  <2>2. ASSUME NEW i \in 1 .. n, Waiting(i)'
        PROVE  Minimum <= queue'[i].entry /\ queue'[i].entry <= queue'[i].maxEntry
    BY <2>2, <1>5, <1>8 DEF PlannerInv, LimitsInv
  <2>3. ASSUME NEW i \in 2 .. n PROVE queue'[i].maxEntry <= queue'[i - 1].nominal
    <3>1. i \in 1 .. n /\ i - 1 \in 1 .. n
      BY <1>1
    <3>2. queue[i].maxEntry <= queue[i - 1].nominal
      BY DEF PlannerInv, LimitsInv
    <3> QED BY <3>1, <3>2, <1>5
  <2> QED BY <2>1, <2>2, <2>3, <1>4 DEF LimitsInv
<1>12. Feasible(queue'[k]) /\ Feasible(queue[k]) /\ queue'[k].initial = queue[k].entry
  <2>1. Feasible(queue[k]) /\ queue[k].initial = queue[k].entry
    <3>1. CASE k <= Settled
      BY <3>1, <1>2, PlannedIsFeasible
    <3>2. CASE ~(k <= Settled)
      <4>1. pc = "reverse" /\ k = Behind
        BY <3>2, <1>1, <1>17, SettledIs
      <4>2. \A i : i = Behind /\ Waiting(i) => queue[i].initial = queue[i].entry
                                               /\ Feasible(queue[i])
        BY <4>1 DEF PlannerInv, PassInv
      <4> QED BY <4>1, <4>2, <1>2
    <3> QED BY <3>1, <3>2
  <2> QED BY <2>1, <1>5 DEF Feasible
<1>13. PlanInv'
  <2>1. ASSUME NEW i \in 1 .. n, Waiting(i)' PROVE Brakes(i)'
    <3>1. Brakes(i)
      BY <2>1, <1>8 DEF PlannerInv, PlanInv
    <3> QED BY <3>1, <1>5, <1>7 DEF Brakes
  <2>2. ASSUME NEW i \in 1 .. n, queue'[i].ticking PROVE Feasible(queue'[i])
    <3>1. CASE i = k
      BY <3>1, <1>12
    <3>2. CASE i # k
      BY <2>2, <3>2, <1>4 DEF PlannerInv, PlanInv
    <3> QED BY <3>1, <3>2
  <2>3. ASSUME NEW i \in 1 .. Settled, i >= k - 1 PROVE Planned(i)'
    <3>1. Planned(i) /\ i \in 1 .. n
      <4>1. ~flushed /\ i >= done /\ i \in 1 .. n
        BY <2>3, <1>1, <1>17, <1>18
      <4> QED BY <4>1 DEF PlannerInv, PlanInv
    <3> QED BY <3>1, <1>5, <1>7, <1>8 DEF Planned, Reaches
  <2>4. Settled' = Settled
    BY <1>4 DEF Settled, Behind
  <2> QED BY <2>1, <2>2, <2>3, <2>4, <1>4 DEF PlanInv
<1>14. PassInv'
  <2>1. Behind' = Behind /\ pc' = pc /\ at' = at /\ speed' = speed /\ done' = k - 1
    BY <1>4 DEF Behind
  <2>2. ASSUME NEW i \in 1 .. n, Waiting(i), i > k PROVE Waiting(i)'
    <3>1. queue'[i] = queue[i] /\ i > done' /\ i \in DOMAIN queue'
      BY <2>2, <1>1, <1>4
    <3> QED BY <3>1, <2>2, <1>1 DEF Waiting
  <2>3. CASE pc = "reverse"
    <3>1. at \in 1 .. n /\ speed = EntryAfter(at)
      BY <2>3, <1>1, <1>17 DEF PlannerInv, ControlInv, TypeInv, PassInv
    <3>2. EntryAfter(at)' = EntryAfter(at)
      BY <3>1, <2>1, <1>7 DEF EntryAfter
    <3>3. queue[Behind].exit <= EntryAfter(Behind)
      <4>1. \A i : i = Behind => queue[i].exit <= EntryAfter(i)
        BY <2>3 DEF PlannerInv, PassInv
      <4> QED BY <4>1
    <3>4. /\ EntryAfter(Behind)' = EntryAfter(Behind)
          /\ queue'[Behind'].exit = queue[Behind].exit
      <4>1. \A i : i = Behind => EntryAfter(Behind)' = EntryAfter(i)'
        BY <2>1 DEF EntryAfter
      <4> QED BY <4>1, <2>1, <2>3, <1>5, <1>7, <1>17
    <3>5. ASSUME Waiting(Behind)'
          PROVE  queue'[Behind'].initial = queue'[Behind'].entry /\ Feasible(queue'[Behind'])
      <4>1. Waiting(Behind)
        <5>1. \A i : i = Behind' /\ Waiting(Behind)' => Waiting(i)'
          BY DEF Waiting
        <5> QED BY <5>1, <3>5, <2>1, <1>8
      <4>2. queue[Behind].initial = queue[Behind].entry /\ Feasible(queue[Behind])
        <5>1. \A i : i = Behind /\ Waiting(i) => queue[i].initial = queue[i].entry
                                                 /\ Feasible(queue[i])
          BY <2>3 DEF PlannerInv, PassInv
        <5> QED BY <5>1, <4>1
      <4> QED BY <4>2, <2>1, <2>3, <1>5, <1>17 DEF Feasible
    <3>6. Behind' >= done'
      BY <2>1, <2>3, <1>1, <1>17
    <3> QED BY <2>1, <2>3, <3>1, <3>2, <3>3, <3>4, <3>5, <3>6 DEF PassInv
  <2>4. CASE pc = "forward"
    <3>1. /\ at \in 1 .. n /\ at # k /\ at > k /\ Behind = at /\ Behind' = at
          /\ speed = MaxExit(queue[at])
      BY <2>1, <2>4, <1>1, <1>17 DEF PlannerInv, ControlInv, TypeInv, PassInv
    <3>2. queue'[at] = queue[at] /\ EntryAfter(at)' = EntryAfter(at)
      BY <3>1, <2>1, <1>4, <1>7 DEF EntryAfter
    <3>3. ~Waiting(at) => queue[at].exit <= EntryAfter(at)
      <4>1. \A i : i = Behind /\ ~Waiting(i) => queue[i].exit <= EntryAfter(i)
        BY <2>4 DEF PlannerInv, PassInv
      <4> QED BY <4>1, <3>1
    <3>4. ~Waiting(Behind)' => ~Waiting(at)
      <4>1. \A i : i = Behind' /\ ~Waiting(Behind)' => ~Waiting(i)'
        BY DEF Waiting
      <4> QED BY <4>1, <3>1, <2>2
    <3>5. EntryAfter(Behind)' = EntryAfter(at)'
      BY <3>1, <2>1 DEF EntryAfter
    <3>6. Behind' >= done'
      BY <2>1, <3>1, <1>1
    <3> QED BY <2>1, <2>4, <3>1, <3>2, <3>3, <3>4, <3>5, <3>6 DEF PassInv
  <2>5. CASE pc = "trapezoid"
    <3>1. /\ at \in 2 .. n /\ at # k /\ at - 1 > k /\ speed = MaxExit(queue[at])
          /\ at - 1 \in 1 .. n
      BY <2>5, <1>1, <1>17 DEF PlannerInv, ControlInv, TypeInv, PassInv
    <3>2. /\ queue'[at] = queue[at] /\ queue'[at - 1] = queue[at - 1]
          /\ EntryAfter(at - 1)' = EntryAfter(at - 1)
      <4>1. at \in 1 .. n /\ at - 1 # k
        BY <3>1, <1>1
      <4>2. \A i : i = at - 1 => EntryAfter(at - 1)' = EntryAfter(i)'
        BY <2>1 DEF EntryAfter
      <4> QED BY <3>1, <4>1, <4>2, <1>4, <1>7
    <3>3. /\ Waiting(at - 1) => Reaches(at - 1)
          /\ ~Waiting(at - 1) => queue[at - 1].exit = EntryAfter(at - 1)
      BY <2>5 DEF PlannerInv, PassInv
    <3>4. Waiting(at - 1)' <=> Waiting(at - 1)
      <4>1. \A i : i = at - 1 => (Waiting(at - 1)' <=> Waiting(i)')
        BY <2>1 DEF Waiting
      <4> QED BY <4>1, <3>1, <2>2, <1>8
    <3>5. Reaches(at - 1) => Reaches(at - 1)'
      BY <3>2, <2>1 DEF Reaches
    <3>6. at' - 1 >= done'
      BY <2>1, <3>1, <1>1
    <3> QED BY <2>1, <2>5, <3>1, <3>2, <3>3, <3>4, <3>5, <3>6 DEF PassInv
  <2>6. CASE pc \notin {"reverse", "forward", "trapezoid"}
    BY <2>1, <2>6 DEF PassInv
  <2> QED BY <2>3, <2>4, <2>5, <2>6
<1>15. queue[k].entry = machine' /\ (done' >= 1 => queue[done'].exit = machine')
  <2>1. CASE k = done + 1
    <3>1. done' = done /\ machine' = machine
      BY <2>1, <1>1
    <3>2. done >= 1 => queue[done].exit = machine
      BY DEF PlannerInv, MachineInv
    <3>3. CASE done = 0
      BY <2>1, <3>1, <3>3, <1>2 DEF PlannerInv, MachineInv
    <3>4. CASE done # 0
      <4>1. Planned(done) /\ EntryAfter(done) = queue[k].entry /\ done >= 1
        <5>1. done \in 1 .. Settled /\ done < n /\ done + 1 = k
          BY <2>1, <3>4, <1>1, <1>17
        <5> QED BY <5>1, <1>1 DEF PlannerInv, PlanInv, EntryAfter
      <4> QED BY <4>1, <3>1, <3>2 DEF Planned
    <3> QED BY <3>1, <3>2, <3>3, <3>4
  <2>2. CASE k # done + 1
    <3>1. k = done + 2 /\ done' = done + 1 /\ machine' = queue[done + 1].exit
      <4>1. k = done + 2 /\ machine' = queue[done + 1].exit
        BY <2>2
      <4> QED BY <4>1, <1>1
    <3>2. Planned(done + 1) /\ EntryAfter(done + 1) = queue[k].entry
      <4>1. done + 1 \in 1 .. n /\ done + 1 >= done /\ done + 1 < n /\ (done + 1) + 1 = k
        BY <3>1, <1>1
      <4>2. done + 1 \in 1 .. Settled
        BY <3>1, <4>1, <1>1, <1>17
      <4>3. Planned(done + 1)
        BY <4>1, <4>2 DEF PlannerInv, PlanInv
      <4> QED BY <4>1, <4>3 DEF EntryAfter
    <3> QED BY <3>1, <3>2 DEF Planned
  <2> QED BY <2>1, <2>2
<1>16. MachineInv'
  <2>1. done' >= 1 => queue'[done'].exit = machine'
    BY <1>1, <1>5, <1>15
  <2>2. ~Waiting(1)'
    <3> SUFFICES ASSUME Waiting(1)' PROVE FALSE
      OBVIOUS
    <3>1. Waiting(1) /\ k # 1
      BY <1>8
    <3> QED BY <3>1, <1>1
  <2>3. queue' # <<>>
    BY <1>1, <1>4
  <2> QED BY <2>1, <2>2, <2>3 DEF MachineInv
<1> QED BY <1>9, <1>10, <1>11, <1>12, <1>13, <1>14, <1>15, <1>16 DEF PlannerInv

LEMMA StartBlockStep ==
  ASSUME PlannerInv, StartBlock, ~raced'
  PROVE  PlannerInv' /\ Feasible(queue'[done + 1]) /\ queue'[done + 1].initial = machine'
<1>1. /\ Ticking = {} /\ done + 1 \in DOMAIN queue
      /\ queue' = [queue EXCEPT ![done + 1] = Taken(@)]
      /\ UNCHANGED <<pc, at, speed, flushed>> /\ done' = done /\ machine' = machine
  BY DEF StartBlock, Published
<1>2. /\ Len(queue) \in Nat /\ done \in Nat /\ DOMAIN queue = 1 .. Len(queue)
  BY QueueIs DEF PlannerInv, TypeInv
<1>3. done + 1 \in 1 .. Len(queue) /\ done < Len(queue) /\ ~queue[done + 1].ticking
      /\ (done + 1) - 1 = done
  BY <1>1, <1>2 DEF Ticking
<1>4. ~flushed
  <2>1. flushed => done = Len(queue)
    BY DEF PlannerInv, ControlInv
  <2>2. done # Len(queue)
    <3>1. Len(queue) \in Nat /\ done \in Nat /\ done < Len(queue)
      BY <1>2, <1>3
    <3> QED BY <3>1, Apart
  <2> QED BY <2>1, <2>2
<1>5. done + 1 <= Takeable
  <2>1. raced' = (raced \/ done + 1 > Takeable)
    BY DEF StartBlock
  <2>2. Takeable \in Int
    BY SettledIs
  <2>3. ~(done + 1 > Takeable)
    BY <2>1
  <2> QED BY <2>2, <2>3, <1>2
<1> QED BY <1>1, <1>3, <1>4, <1>5, TakenStep

LEMMA FinishBlockStep ==
  ASSUME PlannerInv, FinishBlock, ~raced'
  PROVE  /\ PlannerInv'
         /\ \/ queue' = queue
            \/ /\ queue' = [queue EXCEPT ![done + 2] = Taken(@)] /\ done + 2 \in 1 .. Len(queue)
               /\ Feasible(queue'[done + 2]) /\ queue'[done + 2].initial = machine'
<1> DEFINE n == Len(queue)
<1>1. /\ Ticking # {} /\ done' = done + 1
      /\ UNCHANGED <<pc, at, speed, flushed>>
  BY DEF FinishBlock
<1>2. /\ n \in Nat /\ done \in Nat /\ DOMAIN queue = 1 .. n /\ done <= n /\ queue \in Seq(Block)
      /\ at \in Nat /\ Minimum \in Nat
      /\ \A i : Waiting(i) <=> i \in 1 .. n /\ i > done /\ ~queue[i].ticking
      /\ \A i \in 1 .. n : queue[i].exit \in Nat
  BY QueueIs DEF PlannerInv, TypeInv
<1>3. PICK i \in 1 .. n : i > done /\ queue[i].ticking
  BY <1>1, <1>2 DEF Ticking
<1>4. done < n
  BY <1>2, <1>3
<1>5. ~flushed
  <2>1. flushed => done = n
    BY DEF PlannerInv, ControlInv
  <2>2. done # n
    <3>1. n \in Nat /\ done \in Nat
      BY <1>2
    <3> QED BY <3>1, <1>4, Apart
  <2> QED BY <2>1, <2>2
<1>6. i = done + 1 /\ queue[done + 1].ticking /\ done + 1 \in 1 .. n
  <2>1. i <= done + 1
    BY <1>3, <1>5 DEF PlannerInv, ControlInv
  <2>2. i = done + 1
    BY <2>1, <1>2, <1>3
  <2> QED BY <2>2, <1>3
<1>7. CASE Published(done + 2)
  <2>1. /\ done + 2 \in 1 .. n /\ queue' = [queue EXCEPT ![done + 2] = Taken(@)]
        /\ machine' = queue[done + 1].exit /\ raced' = (raced \/ done + 2 > Takeable)
    BY <1>2, <1>7 DEF FinishBlock, Published
  <2>2. ~queue[done + 2].ticking
    <3> SUFFICES ASSUME queue[done + 2].ticking PROVE FALSE
      OBVIOUS
    <3>1. done + 2 <= done + 1
      BY <2>1, <1>5 DEF PlannerInv, ControlInv
    <3> QED BY <3>1, <1>2
  <2>3. done' = (done + 2) - 1 /\ done + 2 # done + 1
    BY <1>1, <1>2
  <2>4. machine' = IF done + 2 = done + 1 THEN machine ELSE queue[done + 1].exit
    BY <2>1, <2>3
  <2>5. done + 2 <= Takeable
    <3>1. Takeable \in Int
      BY SettledIs
    <3>2. ~(done + 2 > Takeable)
      BY <2>1
    <3> QED BY <3>1, <3>2, <1>2
  <2> QED BY <2>1, <2>2, <2>3, <2>4, <2>5, <1>1, <1>5, <1>6, TakenStep
<1>8. CASE ~Published(done + 2)
  <2>1. /\ queue' = queue /\ pc' = pc /\ at' = at /\ speed' = speed /\ flushed' = flushed
        /\ machine' = Minimum /\ raced' = (raced \/ queue[done + 1].exit # Minimum)
    BY <1>1, <1>8 DEF FinishBlock
  <2>2. \A j : (Waiting(j)' <=> Waiting(j)) /\ (Waiting(j) => j # 1)
    <3> SUFFICES ASSUME NEW j PROVE (Waiting(j)' <=> Waiting(j)) /\ (Waiting(j) => j # 1)
      OBVIOUS
    <3>1. Waiting(j)' <=> j \in 1 .. n /\ j > done + 1 /\ ~queue[j].ticking
      BY <2>1, <1>1, <1>2 DEF Waiting
    <3>2. Waiting(j) => j # done + 1
      BY <1>2, <1>6
    <3> QED BY <3>1, <3>2, <1>2
  <2>3. \A j : EntryAfter(j)' = EntryAfter(j)
    BY <2>1 DEF EntryAfter
  <2>4. TypeInv'
    BY <2>1, <1>1, <1>2, <1>4 DEF PlannerInv, TypeInv
  <2>10. /\ pc # "idle" => done + 1 < n
         /\ pc \in {"reverse", "forward"} => done + 1 <= at
         /\ pc = "trapezoid" => done + 1 <= at - 1
    <3>1. ASSUME pc # "idle" PROVE done + 1 < n
      <4>1. ~queue[n].ticking
        BY <3>1 DEF PlannerInv, ControlInv
      <4>2. done + 1 # n
        BY <4>1, <1>6
      <4>3. n \in Nat /\ done \in Nat
        BY <1>2
      <4> QED BY <4>2, <4>3, <1>4
    <3>2. ASSUME pc \in {"reverse", "forward"} PROVE done + 1 <= at
      <4>1. \A j \in at + 1 .. n : Waiting(j)
        BY <3>2 DEF PlannerInv, ControlInv
      <4>2. done + 1 \notin at + 1 .. n
        BY <4>1, <1>2, <1>6
      <4> QED BY <4>2, <1>2, <1>6
    <3>3. ASSUME pc = "trapezoid" PROVE done + 1 <= at - 1
      <4>1. \A j \in at .. n : Waiting(j)
        BY <3>3 DEF PlannerInv, ControlInv
      <4>2. done + 1 \notin at .. n
        BY <4>1, <1>2, <1>6
      <4> QED BY <4>2, <1>2, <1>6
    <3> QED BY <3>1, <3>2, <3>3
  <2>5. ControlInv'
    <3>1. ASSUME NEW j \in 1 .. done + 1 PROVE queue[j].ticking
      <4>1. j \in 1 .. done \/ j = done + 1
        BY <1>2
      <4> QED BY <4>1, <1>5, <1>6 DEF PlannerInv, ControlInv
    <3>2. ASSUME NEW j \in 1 .. n, queue[j].ticking
          PROVE  j <= (done + 1) + 1 /\ ~queue[j].recalculate
      <4>1. j <= done + 1 /\ ~queue[j].recalculate
        BY <3>2, <1>5 DEF PlannerInv, ControlInv
      <4> QED BY <4>1, <1>2
    <3>3. /\ pc \in {"idle", "ready"} => at = 0
          /\ pc = "reverse" => /\ at >= 1 /\ n > 1
                               /\ at = n => queue[at].recalculate
          /\ pc \in {"reverse", "forward"} => \A j \in at + 1 .. n : Waiting(j)'
          /\ pc = "forward" => at >= 1 /\ at < n
          /\ pc = "trapezoid" => at >= 2 /\ \A j \in at .. n : Waiting(j)'
          /\ pc = "last" => at = n
          /\ pc # "idle" => ~queue[n].ticking
      BY <2>2 DEF PlannerInv, ControlInv
    <3> QED BY <3>1, <3>2, <3>3, <2>1, <2>10, <1>1, <1>5 DEF ControlInv
  <2>6. LimitsInv'
    BY <2>1, <2>2 DEF PlannerInv, LimitsInv
  <2>7. PlanInv'
    <3>1. ASSUME NEW j \in 1 .. n, Waiting(j)' PROVE Brakes(j)'
      <4>1. Brakes(j)
        BY <3>1, <2>2, <1>5 DEF PlannerInv, PlanInv
      <4> QED BY <4>1, <2>1, <2>3 DEF Brakes
    <3>2. ASSUME NEW j \in 1 .. n, queue[j].ticking PROVE Feasible(queue[j])
      BY <3>2, <1>5 DEF PlannerInv, PlanInv
    <3>3. ASSUME NEW j \in 1 .. Settled, j >= done + 1 PROVE Planned(j)'
      <4>1. j >= done
        BY <3>3, <1>2, SettledIs
      <4>2. Planned(j)
        BY <4>1, <1>5 DEF PlannerInv, PlanInv
      <4> QED BY <4>2, <2>1, <2>2, <2>3 DEF Planned, Reaches
    <3>4. Settled' = Settled
      BY <2>1 DEF Settled, Behind
    <3> QED BY <3>1, <3>2, <3>3, <3>4, <2>1, <1>1 DEF PlanInv
  <2>8. PassInv'
    <3>1. Behind' = Behind
      BY <2>1 DEF Behind
    <3>2. /\ Waiting(Behind)' <=> Waiting(Behind)
          /\ EntryAfter(Behind)' = EntryAfter(Behind)
          /\ EntryAfter(at)' = EntryAfter(at) /\ EntryAfter(at - 1)' = EntryAfter(at - 1)
          /\ Waiting(at - 1)' <=> Waiting(at - 1)
          /\ Reaches(at - 1)' <=> Reaches(at - 1)
      <4>1. \A j : j = Behind => (Waiting(Behind)' <=> Waiting(j)')
        BY <3>1 DEF Waiting
      <4>2. \A j : j = at - 1 => (Waiting(at - 1)' <=> Waiting(j)')
        BY <2>1 DEF Waiting
      <4>3. /\ EntryAfter(Behind)' = EntryAfter(Behind)
            /\ EntryAfter(at)' = EntryAfter(at) /\ EntryAfter(at - 1)' = EntryAfter(at - 1)
        BY <2>1, <3>1 DEF EntryAfter
      <4>4. Reaches(at - 1)' <=> Reaches(at - 1)
        BY <2>1, <4>3 DEF Reaches
      <4> QED BY <4>1, <4>2, <4>3, <4>4, <2>2
    <3>3. ASSUME pc \in {"reverse", "forward"} PROVE Behind >= done + 1
      <4>1. done + 1 <= at /\ done + 1 < n /\ n \in Nat /\ done \in Nat /\ at \in Nat
        BY <2>10, <3>3, <1>2
      <4> QED BY <4>1 DEF Behind
    <3> QED BY <3>1, <3>2, <3>3, <2>1, <2>10, <1>1 DEF PassInv, PlannerInv
  <2>9. MachineInv'
    <3>1. ~Waiting(1)'
      BY <2>2
    <3>2. queue' # <<>>
      BY <2>1, <1>2, <1>4
    <3>3. queue[done + 1].exit = Minimum
      BY <2>1
    <3> QED BY <3>1, <3>2, <3>3, <2>1, <1>1 DEF MachineInv
  <2> QED BY <2>1, <2>4, <2>5, <2>6, <2>7, <2>8, <2>9 DEF PlannerInv
<1> QED BY <1>7, <1>8

\* A flush leaves the blocks to the collector; nothing moves.
LEMMA FlushStep ==
  ASSUME PlannerInv, Flush
  PROVE  PlannerInv'
<1>1. /\ flushed' = TRUE /\ machine' = Minimum /\ pc' = "idle" /\ at' = at /\ speed' = speed
  BY DEF Flush, WaitsForRoom
<1>2. pc \in {"idle", "ready"} /\ queue' = Kept /\ done' = Len(Kept)
  BY DEF Flush, WaitsForRoom
<1>3. Len(queue) \in Nat /\ queue \in Seq(Block) /\ Minimum \in Nat /\ speed \in Nat /\ at = 0
      /\ (WaitsForRoom => Len(queue) >= 1)
  BY <1>2, QueueIs DEF PlannerInv, TypeInv, ControlInv, WaitsForRoom
<1>4. /\ Kept \in Seq(Block) /\ Len(Kept) \in Nat /\ Len(Kept) <= Len(queue)
      /\ \A i \in 1 .. Len(Kept) : Kept[i] = queue[i] /\ i \in 1 .. Len(queue)
  BY <1>3 DEF Kept
<1>5. ASSUME NEW i, Waiting(i)' PROVE FALSE
  <2>1. i \in DOMAIN Kept /\ i > Len(Kept)
    BY <1>2, <1>5 DEF Waiting
  <2> QED BY <2>1, <1>4
<1>6. TypeInv'
  <2>1. Len(Kept) <= Length /\ Len(Kept) \in 0 .. Len(Kept) /\ at \in 0 .. Len(Kept)
    BY <1>3, <1>4, PlannerAssumption DEF PlannerInv, TypeInv
  <2>2. pc' \in Pcs /\ machine' \in Nat /\ flushed' \in BOOLEAN
    BY <1>1, <1>3 DEF Pcs
  <2> QED BY <2>1, <2>2, <1>1, <1>2, <1>3, <1>4 DEF TypeInv
<1>7. ControlInv'
  BY <1>1, <1>2, <1>3 DEF ControlInv
<1>8. LimitsInv'
  <2>1. ASSUME NEW i \in 1 .. Len(Kept)
        PROVE  /\ Minimum <= Kept[i].maxEntry /\ Kept[i].maxEntry <= Kept[i].nominal
               /\ Kept[i].nominalLength <=> Kept[i].nominal <= Minimum + Kept[i].reach
    BY <1>4 DEF PlannerInv, LimitsInv
  <2> QED BY <2>1, <1>1, <1>2, <1>5 DEF LimitsInv
<1>9. PlanInv' /\ MachineInv' /\ PassInv'
  BY <1>1 DEF PlanInv, MachineInv, PassInv
<1> QED BY <1>6, <1>7, <1>8, <1>9 DEF PlannerInv

\* The collector takes the first block away.
LEMMA CollectStep ==
  ASSUME PlannerInv, Collect
  PROVE  PlannerInv'
<1> DEFINE n == Len(queue)
<1>1. /\ done > 0 /\ queue' = Tail(queue) /\ done' = done - 1
      /\ pc' = pc /\ at' = at /\ speed' = speed /\ machine' = machine
  BY DEF Collect
<1>2. pc \in {"idle", "ready"} /\ at = 0
  BY DEF Collect, WaitsForRoom, PlannerInv, ControlInv
<1>3. /\ n \in Nat /\ done \in 1 .. n /\ Minimum \in Nat /\ queue \in Seq(Block) /\ queue # <<>>
      /\ \A i : Waiting(i) <=> i \in 1 .. n /\ i > done /\ ~queue[i].ticking
  BY <1>1, QueueIs DEF PlannerInv, TypeInv
<1>4. /\ queue' \in Seq(Block) /\ Len(queue') = n - 1
      /\ \A i \in 1 .. n - 1 : queue'[i] = queue[i + 1] /\ i + 1 \in 1 .. n
  BY <1>1, <1>3, HeadTailProperties
<1>5. ASSUME NEW i \in 1 .. n - 1
      PROVE  (Waiting(i)' <=> Waiting(i + 1)) /\ EntryAfter(i)' = EntryAfter(i + 1)
  <2>1. Waiting(i)' <=> i > done - 1 /\ ~queue'[i].ticking
    BY <1>1, <1>4, BlocksOf DEF Waiting
  <2>2. Waiting(i)' <=> Waiting(i + 1)
    BY <2>1, <1>3, <1>4
  <2>3. i < n - 1 => queue'[i + 1] = queue[(i + 1) + 1]
    BY <1>3, <1>4
  <2>4. EntryAfter(i)' = EntryAfter(i + 1)
    BY <2>3, <1>3, <1>4 DEF EntryAfter
  <2> QED BY <2>2, <2>4
<1>6. ASSUME NEW i, Waiting(i)' PROVE i \in 1 .. n - 1
  <2>1. i \in DOMAIN queue'
    BY <1>6 DEF Waiting
  <2> QED BY <2>1, <1>4
<1>7. TypeInv'
  <2>1. flushed' = (flushed /\ done > 1)
    BY DEF Collect
  <2>2. flushed' \in BOOLEAN
    BY <2>1
  <2>3. /\ queue' \in Seq(Block) /\ Len(queue') <= Length
        /\ done' \in 0 .. Len(queue') /\ at' \in 0 .. Len(queue')
    BY <1>1, <1>2, <1>3, <1>4, PlannerAssumption DEF PlannerInv, TypeInv
  <2>4. pc' \in Pcs /\ speed' \in Nat /\ machine' \in Nat
    BY <1>1 DEF PlannerInv, TypeInv
  <2> QED BY <2>2, <2>3, <2>4 DEF TypeInv
<1>10. /\ ~flushed' => ~flushed \/ (n = 1 /\ done = 1)
       /\ flushed' => flushed
  <2>1. flushed' = (flushed /\ done > 1)
    BY DEF Collect
  <2>2. flushed' => flushed
    BY <2>1
  <2>3. ~flushed' /\ flushed => ~(done > 1)
    BY <2>1
  <2>4. flushed /\ ~(done > 1) => n = 1 /\ done = 1
    BY <1>3 DEF PlannerInv, ControlInv
  <2> QED BY <2>2, <2>3, <2>4
<1>8. ControlInv'
  <2>1. flushed' => pc = "idle" /\ done - 1 = n - 1 /\ machine = Minimum
    BY <1>10 DEF PlannerInv, ControlInv
  <2>2. ASSUME ~flushed', NEW i \in 1 .. done - 1 PROVE queue'[i].ticking
    <3>1. ~flushed
      BY <2>2, <1>3, <1>10
    <3>2. i + 1 \in 1 .. done /\ i \in 1 .. n - 1
      BY <1>3
    <3>3. queue[i + 1].ticking
      BY <3>1, <3>2 DEF PlannerInv, ControlInv
    <3> QED BY <3>2, <3>3, <1>4
  <2>3. ASSUME NEW i \in 1 .. n - 1, ~flushed', queue'[i].ticking
        PROVE  i <= (done - 1) + 1 /\ ~queue'[i].recalculate
    <3>1. ~flushed
      BY <2>3, <1>3, <1>10
    <3>2. queue[i + 1].ticking /\ queue'[i] = queue[i + 1] /\ i + 1 \in 1 .. n
      BY <2>3, <1>4
    <3>3. i + 1 <= done + 1 /\ ~queue[i + 1].recalculate
      BY <3>1, <3>2 DEF PlannerInv, ControlInv
    <3> QED BY <3>2, <3>3, <1>3
  <2>4. ASSUME pc = "ready" PROVE done - 1 < n - 1 /\ ~queue'[n - 1].ticking
    <3>1. done < n /\ ~queue[n].ticking
      BY <2>4 DEF PlannerInv, ControlInv
    <3>2. n - 1 \in 1 .. n - 1 /\ (n - 1) + 1 = n
      BY <3>1, <1>3
    <3>3. queue'[n - 1] = queue[n]
      BY <3>2, <1>4
    <3> QED BY <3>1, <3>3, <1>3
  <2> QED BY <2>1, <2>2, <2>3, <2>4, <1>1, <1>2, <1>4 DEF ControlInv
<1>9. LimitsInv'
  <2>1. ASSUME NEW i \in 1 .. n - 1
        PROVE  /\ Minimum <= queue'[i].maxEntry /\ queue'[i].maxEntry <= queue'[i].nominal
               /\ queue'[i].nominalLength <=> queue'[i].nominal <= Minimum + queue'[i].reach
               /\ Waiting(i)' => Minimum <= queue'[i].entry /\ queue'[i].entry <= queue'[i].maxEntry
    BY <1>4, <1>5 DEF PlannerInv, LimitsInv
  <2>2. ASSUME ~flushed', NEW i \in 2 .. n - 1 PROVE queue'[i].maxEntry <= queue'[i - 1].nominal
    <3>1. ~flushed
      BY <2>2, <1>3, <1>10
    <3>2. i - 1 \in 1 .. n - 1 /\ i \in 1 .. n - 1 /\ (i - 1) + 1 = i /\ i + 1 \in 2 .. n
          /\ (i + 1) - 1 = i
      BY <1>3
    <3>3. queue'[i - 1] = queue[i] /\ queue'[i] = queue[i + 1]
      BY <3>2, <1>4
    <3>4. queue[i + 1].maxEntry <= queue[i].nominal
      BY <3>1, <3>2 DEF PlannerInv, LimitsInv
    <3> QED BY <3>3, <3>4
  <2> QED BY <2>1, <2>2, <1>4 DEF LimitsInv
<1>11. PlanInv'
  <2>1. ASSUME ~flushed, NEW i \in 1 .. n - 1, Waiting(i)' PROVE Brakes(i)'
    <3>1. Brakes(i + 1)
      BY <2>1, <1>4, <1>5 DEF PlannerInv, PlanInv
    <3> QED BY <3>1, <1>4, <1>5 DEF Brakes
  <2>2. ASSUME ~flushed, NEW i \in 1 .. n - 1, queue'[i].ticking PROVE Feasible(queue'[i])
    BY <2>2, <1>4 DEF PlannerInv, PlanInv
  <2>3. ASSUME ~flushed, NEW i \in 1 .. n - 1, i >= done - 1 PROVE Planned(i)'
    <3>1. i + 1 \in 1 .. n /\ i + 1 >= done
      BY <2>3, <1>3, <1>4
    <3>2. Settled = n
      BY <1>2 DEF Settled
    <3>3. Planned(i + 1)
      BY <3>1, <3>2, <2>3 DEF PlannerInv, PlanInv
    <3> QED BY <3>3, <1>4, <1>5 DEF Planned, Reaches
  <2>4. Settled' = n - 1
    BY <1>1, <1>2, <1>4 DEF Settled
  <2>5. CASE ~flushed
    BY <2>1, <2>2, <2>3, <2>4, <2>5, <1>1, <1>4 DEF PlanInv
  <2>6. CASE n = 1
    BY <2>4, <2>6, <1>4 DEF PlanInv
  <2> QED BY <2>5, <2>6, <1>10 DEF PlanInv
<1>12. PassInv'
  BY <1>1, <1>2 DEF PassInv
<1>13. MachineInv'
  <2>1. CASE ~flushed
    <3>1. queue[done].exit = machine /\ Planned(done)
      BY <2>1, <1>2, <1>3 DEF PlannerInv, MachineInv, PlanInv, Settled
    <3>2. done - 1 >= 1 => queue'[done - 1].exit = machine
      BY <3>1, <1>3, <1>4
    <3>3. ASSUME Waiting(1)' PROVE queue'[1].entry = machine
      <4>1. 1 \in 1 .. n - 1 /\ Waiting(1 + 1)
        BY <3>3, <1>5, <1>6
      <4>2. done = 1 /\ 1 < n /\ queue'[1] = queue[1 + 1]
        BY <4>1, <1>3, <1>4
      <4>3. EntryAfter(done) = queue[1 + 1].entry
        BY <4>2 DEF EntryAfter
      <4> QED BY <3>1, <4>2, <4>3 DEF Planned
    <3>4. ASSUME queue' = <<>> PROVE machine = Minimum
      <4>1. Len(queue') = 0
        <5>1. Len(<<>>) = 0
          BY EmptySeq
        <5> QED BY <3>4, <5>1
      <4>2. done = n
        <5>1. n - 1 = 0
          BY <4>1, <1>4
        <5> QED BY <5>1, <1>3
      <4>3. EntryAfter(done) = Minimum
        BY <4>2, <1>3 DEF EntryAfter
      <4> QED BY <3>1, <4>3 DEF Planned
    <3> QED BY <3>2, <3>3, <3>4, <1>1 DEF MachineInv
  <2>2. CASE flushed
    <3>1. machine = Minimum
      BY <2>2 DEF PlannerInv, ControlInv
    <3>2. ~flushed' => n = 1 /\ done = 1
      BY <2>2, <1>10
    <3>3. ASSUME ~flushed', Waiting(1)' PROVE FALSE
      <4>1. 1 \in 1 .. n - 1 /\ n = 1
        BY <3>2, <3>3, <1>6
      <4> QED BY <4>1
    <3> QED BY <3>1, <3>2, <3>3, <1>1 DEF MachineInv
  <2> QED BY <2>1, <2>2
<1> QED BY <1>7, <1>8, <1>9, <1>11, <1>12, <1>13 DEF PlannerInv

-----------------------------------------------------------------------------
(* The theorems.                                                            *)

LEMMA InitHolds ==
  ASSUME Init
  PROVE  PlannerInv
<1>1. /\ queue = <<>> /\ done = 0 /\ pc = "idle" /\ at = 0 /\ speed = Minimum
      /\ flushed = FALSE /\ machine = Minimum /\ Minimum \in Nat /\ Length \in Nat
  BY PlannerAssumption DEF Init
<1>2. Len(queue) = 0 /\ queue \in Seq(Block)
  <2>1. Len(<<>>) = 0 /\ <<>> \in Seq(Block)
    BY EmptySeq
  <2> QED BY <2>1, <1>1
<1>3. TypeInv
  <2>1. 0 \in 0 .. Len(queue) /\ Len(queue) <= Length
    BY <1>1, <1>2
  <2>2. flushed \in BOOLEAN /\ pc \in Pcs
    BY <1>1 DEF Pcs
  <2> QED BY <2>1, <2>2, <1>1, <1>2 DEF TypeInv
<1>4. ControlInv /\ LimitsInv
  BY <1>1, <1>2 DEF ControlInv, LimitsInv
<1>5. PlanInv
  <2>1. Settled = 0
    BY <1>1, <1>2 DEF Settled
  <2> QED BY <2>1, <1>2 DEF PlanInv
<1>6. PassInv /\ MachineInv
  <2>1. ~Waiting(1)
    BY <1>2, BlocksOf DEF Waiting
  <2> QED BY <2>1, <1>1 DEF PassInv, MachineInv
<1> QED BY <1>3, <1>4, <1>5, <1>6 DEF PlannerInv

LEMMA Stutter ==
  ASSUME PlannerInv, UNCHANGED vars
  PROVE  PlannerInv'
<1>1. /\ queue' = queue /\ done' = done /\ pc' = pc /\ at' = at /\ speed' = speed
      /\ flushed' = flushed /\ machine' = machine
  BY DEF vars
<1>2. TypeInv' /\ ControlInv' /\ LimitsInv'
  BY <1>1 DEF PlannerInv, TypeInv, ControlInv, LimitsInv, Waiting
<1>3. PlanInv'
  BY <1>1 DEF PlannerInv, PlanInv, Waiting, Brakes, EntryAfter, Planned, Reaches, Settled, Behind
<1>4. PassInv' /\ MachineInv'
  BY <1>1 DEF PlannerInv, PassInv, MachineInv, Waiting, EntryAfter, Reaches, Behind
<1> QED BY <1>2, <1>3, <1>4 DEF PlannerInv

LEMMA NextKeeps ==
  ASSUME MinimumIsLowest, PlannerInv, [Next]_vars, ~raced'
  PROVE  PlannerInv'
BY AppendStep, ReversePassStep, ReverseEndStep, ForwardPassStep, PreviousTrapezoidStep,
   LastTrapezoidStep, ReadyStep, StartBlockStep, FinishBlockStep, FlushStep, CollectStep,
   Stutter DEF Next

\* The types and the place of recalculate() are kept whatever overtakes what.
LEMMA AppendKeepsShape ==
  ASSUME TypeInv, ShapeInv, AppendBlock
  PROVE  TypeInv' /\ ShapeInv'
<1>1. /\ Len(queue) \in Nat /\ queue \in Seq(Block) /\ Minimum \in Nat
      /\ \A j \in Junctions : j \in Nat
  BY QueueIs, PlannerAssumption DEF TypeInv
<1>2. PICK m \in Moves : \E vmax \in JunctionSpeeds(m) : queue' = Append(queue, NewBlock(m, vmax))
  BY DEF AppendBlock
<1>3. PICK vmax \in JunctionSpeeds(m) : queue' = Append(queue, NewBlock(m, vmax))
  BY <1>2
<1>4. m.nominal \in Nat /\ m.reach \in Nat
  BY PlannerAssumption
<1>5. vmax \in Nat
  <2>1. CASE queue = <<>>
    BY <2>1, <1>1 DEF JunctionSpeeds
  <2>2. CASE queue # <<>>
    <3>1. queue[Len(queue)].nominal \in Nat
      <4>1. Len(queue) \in 1 .. Len(queue)
        BY <2>2, <1>1
      <4> QED BY <4>1, QueueIs
    <3>2. CASE vmax = Minimum
      BY <3>2, <1>1
    <3>3. CASE vmax # Minimum
      <4>1. PICK j \in Junctions : vmax = Least(Least(queue[Len(queue)].nominal, m.nominal), j)
        BY <2>2, <3>3 DEF JunctionSpeeds
      <4> QED BY <4>1, <3>1, <1>1, <1>4, Numbers
    <3> QED BY <3>2, <3>3
  <2> QED BY <2>1, <2>2
<1>6. NewBlock(m, vmax) \in Block
  <2>1. Least(vmax, Minimum + m.reach) \in Nat
    <3>1. Minimum + m.reach \in Nat
      BY <1>1, <1>4
    <3> QED BY <3>1, <1>5, Numbers
  <2> QED BY <1>4, <1>5, <2>1 DEF Block, NewBlock
<1>7. queue' \in Seq(Block) /\ Len(queue') = Len(queue) + 1
  BY <1>1, <1>3, <1>6
<1>8. /\ Len(queue) < Length /\ at' = Len(queue) + 1 /\ speed' = Minimum
      /\ pc' \in {"last", "reverse"} /\ done' = done /\ flushed' = flushed
      /\ machine' = machine /\ raced' \in BOOLEAN
  BY DEF AppendBlock, ShapeInv, TypeInv
<1>9. TypeInv'
  BY <1>1, <1>7, <1>8, PlannerAssumption DEF TypeInv, Pcs
<1> QED BY <1>1, <1>7, <1>8, <1>9 DEF ShapeInv, TypeInv

\* A pass or a taken block: one block is written.
LEMMA WriteKeepsTypes ==
  ASSUME TypeInv, NEW k \in 1 .. Len(queue), NEW b \in Block, queue' = [queue EXCEPT ![k] = b],
         done' \in 0 .. Len(queue), pc' \in Pcs, at' \in 0 .. Len(queue), speed' \in Nat,
         flushed' \in BOOLEAN, machine' \in Nat
  PROVE  TypeInv' /\ Len(queue') = Len(queue)
<1>1. queue' \in Seq(Block) /\ Len(queue') = Len(queue)
  BY Updated DEF TypeInv
<1> QED BY <1>1 DEF TypeInv

LEMMA PassKeepsShape ==
  ASSUME TypeInv, ShapeInv,
         \/ ReversePass \/ ReverseEnd \/ ForwardPass \/ PreviousTrapezoid \/ LastTrapezoid \/ Ready
  PROVE  TypeInv' /\ ShapeInv'
<1>1. /\ Len(queue) \in Nat /\ queue \in Seq(Block) /\ Minimum \in Nat /\ speed \in Nat
      /\ done \in 0 .. Len(queue) /\ at \in 0 .. Len(queue) /\ machine \in Nat
      /\ flushed \in BOOLEAN /\ raced \in BOOLEAN /\ Len(queue) <= Length
      /\ \A i \in 1 .. Len(queue) : queue[i] \in Block /\ queue[i].entry \in Nat
      /\ "forward" \in Pcs /\ "trapezoid" \in Pcs /\ "last" \in Pcs /\ "ready" \in Pcs
      /\ "idle" \in Pcs /\ "reverse" \in Pcs
  BY QueueIs DEF TypeInv, ShapeInv, Pcs
<1>2. done' = done /\ machine' = machine /\ raced' = raced /\ flushed' = flushed
  BY DEF ReversePass, ReverseEnd, ForwardPass, PreviousTrapezoid, LastTrapezoid, Ready
<1>3. CASE ReversePass
  <2> DEFINE e == ReverseEntry(queue[at], speed)
  <2>1. /\ pc = "reverse" /\ at # 1 /\ queue' = [queue EXCEPT ![at].entry = e] /\ speed' = e
        /\ at' = at - 1 /\ pc' = pc
    BY <1>3 DEF ReversePass, ReverseStops
  <2>2. at \in 1 .. Len(queue) /\ at' \in 0 .. Len(queue) /\ at' >= 1
    BY <2>1, <1>1 DEF ShapeInv
  <2>3. e \in Nat
    <3>1. /\ queue[at].reach \in Nat /\ queue[at].maxEntry \in Nat /\ queue[at].entry \in Nat
      BY <2>2, <1>1, Fields
    <3>2. MaxAllowable(speed, queue[at]) \in Nat
      BY <3>1, <1>1 DEF MaxAllowable
    <3>3. Least(MaxAllowable(speed, queue[at]), queue[at].maxEntry) \in Nat
      BY <3>1, <3>2, Numbers
    <3> QED BY <3>1, <3>3 DEF ReverseEntry
  <2>4. [queue[at] EXCEPT !.entry = e] \in Block
    BY <2>2, <2>3, <1>1, EntryChanged
  <2>5. TypeInv' /\ Len(queue') = Len(queue)
    <3> DEFINE b == [queue[at] EXCEPT !.entry = e]
    <3>1. b \in Block /\ queue' = [queue EXCEPT ![at] = b]
      BY <2>1, <2>4
    <3> HIDE DEF b, e
    <3> QED BY <3>1, <2>1, <2>2, <2>3, <1>1, <1>2, WriteKeepsTypes
  <2> QED BY <2>1, <2>2, <2>5, <1>1, <1>2 DEF ShapeInv
<1>4. CASE ReverseEnd
  <2>1. /\ pc = "reverse" /\ speed' = MaxExit(queue[at]) /\ queue' = queue /\ at' = at
        /\ pc' = IF at = Len(queue) THEN "last" ELSE "forward"
    BY <1>4 DEF ReverseEnd
  <2>2. at \in 1 .. Len(queue)
    BY <2>1, <1>1 DEF ShapeInv
  <2>3. speed' \in Nat
    BY <2>1, <2>2, <1>1, MaxExitIs
  <2>4. TypeInv'
    BY <2>1, <2>3, <1>1, <1>2 DEF TypeInv
  <2> QED BY <2>1, <2>2, <2>4, <1>1, <1>2 DEF ShapeInv
<1>5. CASE ForwardPass
  <2> DEFINE b == Forwarded(queue[at + 1], speed)
  <2>1. /\ pc = "forward" /\ queue' = [queue EXCEPT ![at + 1] = b] /\ speed' = MaxExit(b)
        /\ at' = at + 1 /\ pc' = "trapezoid"
    BY <1>5 DEF ForwardPass
  <2>2. at + 1 \in 1 .. Len(queue) /\ at' \in 0 .. Len(queue) /\ at' >= 2
    BY <2>1, <1>1 DEF ShapeInv
  <2>3. b \in Block
    <3> DEFINE c == queue[at + 1]
    <3>1. c \in Block /\ c.nominal \in Nat /\ c.maxEntry \in Nat /\ c.entry \in Nat
      BY <2>2, <1>1, Fields
    <3>2. Least(speed, Least(c.nominal, c.maxEntry)) \in Nat
      BY <3>1, <1>1, Numbers
    <3> HIDE DEF c
    <3>3. Forwarded(c, speed) \in Block
      BY <3>1, <3>2 DEF Forwarded, Block
    <3> QED BY <3>3 DEF c
  <2> HIDE DEF b
  <2>4. speed' \in Nat
    BY <2>1, <2>3, MaxExitIs
  <2>5. TypeInv' /\ Len(queue') = Len(queue)
    BY <2>1, <2>2, <2>3, <2>4, <1>1, <1>2, WriteKeepsTypes
  <2> QED BY <2>1, <2>2, <2>5, <1>1, <1>2 DEF ShapeInv
<1>6. CASE PreviousTrapezoid
  <2> DEFINE b == Trapezoid(queue[at - 1], queue[at].entry)
  <2>1. /\ pc = "trapezoid" /\ queue' = [queue EXCEPT ![at - 1] = b] /\ speed' = speed
        /\ at' = at /\ pc' = IF at = Len(queue) THEN "last" ELSE "forward"
    BY <1>6 DEF PreviousTrapezoid
  <2>2. at - 1 \in 1 .. Len(queue) /\ at \in 2 .. Len(queue)
    BY <2>1, <1>1 DEF ShapeInv
  <2>3. b \in Block
    <3>1. queue[at - 1] \in Block /\ queue[at].entry \in Nat
      BY <2>2, <1>1
    <3> QED BY <3>1, TrapezoidIs
  <2> HIDE DEF b
  <2>5. TypeInv' /\ Len(queue') = Len(queue)
    <3>1. pc' \in Pcs /\ at' \in 0 .. Len(queue) /\ speed' \in Nat
      BY <2>1, <1>1
    <3>2. done' \in 0 .. Len(queue) /\ flushed' \in BOOLEAN /\ machine' \in Nat
      BY <1>1, <1>2
    <3>3. queue' = [queue EXCEPT ![at - 1] = b] /\ at - 1 \in 1 .. Len(queue) /\ b \in Block
      BY <2>1, <2>2, <2>3
    <3> QED BY <3>1, <3>2, <3>3, WriteKeepsTypes
  <2>6. /\ pc' \in {"forward", "last"} /\ at' >= 1 /\ Len(queue') >= 1
        /\ pc' = "forward" => at' < Len(queue')
    <3>1. at \in Nat /\ at >= 2 /\ at <= Len(queue)
      BY <2>2, <1>1
    <3>2. at # Len(queue) => at < Len(queue)
      BY <3>1, <1>1
    <3>3. pc' \in {"forward", "last"} /\ (pc' = "forward" => at # Len(queue))
      BY <2>1
    <3>4. at' >= 1 /\ Len(queue') >= 1
      <4>1. at >= 1 /\ Len(queue) >= 1
        BY <3>1, <1>1
      <4> QED BY <4>1, <2>1, <2>5
    <3>5. ASSUME pc' = "forward" PROVE at' < Len(queue')
      BY <3>5, <3>3, <3>2, <2>1, <2>5
    <3> QED BY <3>3, <3>4, <3>5
  <2>7. (done' = Len(queue') => machine' = Minimum) /\ raced' \in BOOLEAN
    BY <2>5, <1>1, <1>2 DEF ShapeInv
  <2> QED BY <2>5, <2>6, <2>7 DEF ShapeInv
<1>7. CASE LastTrapezoid
  <2> DEFINE b == Trapezoid(queue[at], Minimum)
  <2>1. /\ pc = "last" /\ queue' = [queue EXCEPT ![at] = b] /\ speed' = Minimum
        /\ at' = 0 /\ pc' = "ready"
    BY <1>7 DEF LastTrapezoid
  <2>2. at \in 1 .. Len(queue) /\ 0 \in 0 .. Len(queue)
    BY <2>1, <1>1 DEF ShapeInv
  <2>3. b \in Block
    BY <2>2, <1>1, TrapezoidIs
  <2> HIDE DEF b
  <2>5. TypeInv' /\ Len(queue') = Len(queue)
    BY <2>1, <2>2, <2>3, <1>1, <1>2, WriteKeepsTypes
  <2> QED BY <2>1, <2>2, <2>5, <1>1, <1>2 DEF ShapeInv
<1>8. CASE Ready
  <2> DEFINE b == [queue[Len(queue)] EXCEPT !.ready = TRUE]
  <2>1. /\ pc = "ready" /\ queue' = [queue EXCEPT ![Len(queue)] = b] /\ speed' = speed
        /\ at' = at /\ pc' = "idle"
    BY <1>8 DEF Ready
  <2>2. Len(queue) \in 1 .. Len(queue) /\ at = 0
    BY <2>1, <1>1 DEF ShapeInv
  <2>3. b \in Block
    BY <2>2, <1>1 DEF Block
  <2> HIDE DEF b
  <2>5. TypeInv' /\ Len(queue') = Len(queue)
    BY <2>1, <2>2, <2>3, <1>1, <1>2, WriteKeepsTypes
  <2> QED BY <2>1, <2>2, <2>5, <1>1, <1>2 DEF ShapeInv
<1> QED BY <1>3, <1>4, <1>5, <1>6, <1>7, <1>8

LEMMA InterruptKeepsShape ==
  ASSUME TypeInv, ShapeInv, StartBlock \/ FinishBlock
  PROVE  TypeInv' /\ ShapeInv'
<1>1. /\ Len(queue) \in Nat /\ queue \in Seq(Block) /\ Minimum \in Nat /\ speed \in Nat
      /\ done \in 0 .. Len(queue) /\ at \in 0 .. Len(queue) /\ machine \in Nat /\ pc \in Pcs
      /\ flushed \in BOOLEAN /\ DOMAIN queue = 1 .. Len(queue)
      /\ \A i \in 1 .. Len(queue) : queue[i] \in Block /\ queue[i].exit \in Nat
  BY QueueIs DEF TypeInv
<1>2. pc' = pc /\ at' = at /\ speed' = speed /\ flushed' = flushed /\ raced' \in BOOLEAN
  BY DEF StartBlock, FinishBlock, ShapeInv
<1>3. CASE StartBlock
  <2> DEFINE b == Taken(queue[done + 1])
  <2>1. /\ queue' = [queue EXCEPT ![done + 1] = b] /\ done + 1 \in 1 .. Len(queue)
        /\ done' = done /\ machine' = machine
    BY <1>1, <1>3 DEF StartBlock, Published
  <2>2. b \in Block
    BY <2>1, <1>1, TakenIs
  <2> HIDE DEF b
  <2>3. TypeInv' /\ Len(queue') = Len(queue)
    BY <2>1, <2>2, <1>1, <1>2, WriteKeepsTypes
  <2> QED BY <2>1, <2>3, <1>1, <1>2 DEF ShapeInv
<1>4. CASE FinishBlock
  <2>1. PICK i \in 1 .. Len(queue) : i > done
    BY <1>1, <1>4 DEF FinishBlock, Ticking
  <2>2. done' = done + 1 /\ done + 1 \in 1 .. Len(queue)
    BY <2>1, <1>1, <1>4 DEF FinishBlock
  <2>3. CASE Published(done + 2)
    <3> DEFINE b == Taken(queue[done + 2])
    <3>1. /\ queue' = [queue EXCEPT ![done + 2] = b] /\ done + 2 \in 1 .. Len(queue)
          /\ machine' = queue[done + 1].exit
      BY <2>3, <1>1, <1>4 DEF FinishBlock, Published
    <3>2. b \in Block /\ machine' \in Nat /\ done' \in 0 .. Len(queue)
      BY <3>1, <2>2, <1>1, TakenIs
    <3> HIDE DEF b
    <3>3. TypeInv' /\ Len(queue') = Len(queue)
      <4>1. pc' \in Pcs /\ at' \in 0 .. Len(queue) /\ speed' \in Nat /\ flushed' \in BOOLEAN
        BY <1>1, <1>2
      <4> QED BY <4>1, <3>1, <3>2, WriteKeepsTypes
    <3>4. done' # Len(queue')
      <4>1. done + 2 \in 1 .. Len(queue) /\ Len(queue) \in Nat /\ done \in Nat
        BY <3>1, <1>1
      <4>2. done + 1 \in Nat /\ done + 1 < Len(queue)
        BY <4>1
      <4>3. done + 1 # Len(queue)
        BY <4>1, <4>2, Apart
      <4> QED BY <4>3, <3>3, <2>2
    <3> QED BY <3>3, <3>4, <1>1, <1>2 DEF ShapeInv
  <2>4. CASE ~Published(done + 2)
    <3>1. queue' = queue /\ machine' = Minimum
      BY <2>4, <1>4 DEF FinishBlock
    <3>2. TypeInv'
      BY <3>1, <2>2, <1>1, <1>2 DEF TypeInv
    <3> QED BY <3>1, <3>2, <1>1, <1>2 DEF ShapeInv
  <2> QED BY <2>3, <2>4
<1> QED BY <1>3, <1>4

LEMMA CollectorKeepsShape ==
  ASSUME TypeInv, ShapeInv, Flush \/ Collect
  PROVE  TypeInv' /\ ShapeInv'
<1>1. /\ Len(queue) \in Nat /\ queue \in Seq(Block) /\ Minimum \in Nat /\ speed \in Nat
      /\ done \in 0 .. Len(queue) /\ machine \in Nat /\ Len(queue) <= Length
      /\ flushed \in BOOLEAN /\ raced \in BOOLEAN /\ Length \in Nat /\ Length > 2
      /\ (Len(queue) = 0 <=> queue = <<>>)
  BY QueueIs, PlannerAssumption DEF TypeInv, ShapeInv
<1>2. pc = "idle" \/ WaitsForRoom
  BY DEF Flush, Collect
<1>3. pc \in {"idle", "ready"} /\ at = 0 /\ (WaitsForRoom => Len(queue) = Length)
  BY <1>2 DEF WaitsForRoom, ShapeInv
<1>4. CASE Flush
  <2>1. /\ queue' = Kept /\ done' = Len(Kept) /\ flushed' = TRUE /\ machine' = Minimum
        /\ pc' = "idle" /\ at' = at /\ speed' = speed /\ raced' = raced
    BY <1>4 DEF Flush
  <2>2. Kept \in Seq(Block) /\ Len(Kept) \in Nat /\ Len(Kept) <= Len(queue)
    BY <1>1, <1>3 DEF Kept
  <2>3. TypeInv'
    <3>1. "idle" \in Pcs
      BY DEF Pcs
    <3> QED BY <3>1, <2>1, <2>2, <1>1, <1>3 DEF TypeInv
  <2> QED BY <2>1, <2>3, <1>1, <1>3 DEF ShapeInv
<1>5. CASE Collect
  <2>1. /\ done > 0 /\ queue' = Tail(queue) /\ done' = done - 1
        /\ flushed' \in BOOLEAN /\ raced' \in BOOLEAN
        /\ pc' = pc /\ at' = at /\ speed' = speed /\ machine' = machine
    BY <1>5 DEF Collect
  <2>2. queue' \in Seq(Block) /\ Len(queue') = Len(queue) - 1
    BY <2>1, <1>1, HeadTailProperties
  <2>3. TypeInv'
    <3>1. pc' \in Pcs /\ at' = 0
      BY <2>1, <1>3 DEF Pcs
    <3>2. done' \in 0 .. Len(queue') /\ 0 \in 0 .. Len(queue')
      BY <2>1, <2>2, <1>1
    <3> QED BY <3>1, <3>2, <2>1, <2>2, <1>1 DEF TypeInv
  <2>4. ASSUME pc' # "idle" PROVE Len(queue') >= 1
    <3>1. Len(queue) = Length
      BY <2>4, <2>1, <1>2, <1>3
    <3> QED BY <3>1, <2>2, <1>1
  <2>5. ASSUME done' = Len(queue') PROVE machine' = Minimum
    <3>1. done = Len(queue)
      <4>1. done - 1 = Len(queue) - 1
        BY <2>5, <2>1, <2>2
      <4>2. done \in Nat /\ Len(queue) \in Nat
        BY <1>1
      <4> QED BY <4>1, <4>2
    <3> QED BY <3>1, <2>1 DEF ShapeInv
  <2>6. pc' \in {"idle", "ready"} /\ at' = 0
    BY <2>1, <1>3
  <2> QED BY <2>1, <2>3, <2>4, <2>5, <2>6 DEF ShapeInv
<1> QED BY <1>4, <1>5

LEMMA ShapeKept ==
  ASSUME TypeInv, ShapeInv, [Next]_vars
  PROVE  TypeInv' /\ ShapeInv'
<1>1. CASE UNCHANGED vars
  BY <1>1 DEF vars, TypeInv, ShapeInv
<1>2. CASE Next
  BY <1>2, AppendKeepsShape, PassKeepsShape, InterruptKeepsShape, CollectorKeepsShape DEF Next
<1> QED BY <1>1, <1>2

\* Only the collector ends what an overtaking did, when it has emptied the queue.
LEMMA EmptyAgain ==
  ASSUME TypeInv, ShapeInv, [Next]_vars, raced, ~raced'
  PROVE  PlannerInv' /\ Len(queue') = 0
<1>1. Collect
  BY DEF Next, vars, AppendBlock, ReversePass, ReverseEnd, ForwardPass, PreviousTrapezoid,
     LastTrapezoid, Ready, StartBlock, FinishBlock, Flush
<1>2. /\ queue' = <<>> /\ done > 0 /\ queue' = Tail(queue) /\ done' = done - 1
      /\ flushed' = (flushed /\ done > 1) /\ pc' = pc /\ machine' = machine
  BY <1>1 DEF Collect
<1>3. Len(queue') = 0 /\ Len(queue) = 1 /\ done = 1
  <2>1. Len(<<>>) = 0
    BY EmptySeq
  <2>2. Len(queue) \in Nat /\ queue \in Seq(Block) /\ done \in 1 .. Len(queue)
    BY <1>2, QueueIs DEF TypeInv
  <2>3. queue # <<>>
    BY <2>1, <2>2
  <2>4. Len(Tail(queue)) = Len(queue) - 1
    BY <2>2, <2>3, HeadTailProperties
  <2>5. Len(queue') = 0 /\ Len(queue) - 1 = 0
    BY <1>2, <2>1, <2>4
  <2> QED BY <2>2, <2>5, OnlyOne
<1>4. TypeInv' /\ ShapeInv'
  BY ShapeKept
<1>5. pc' = "idle" /\ at' = 0 /\ ~flushed' /\ machine' = Minimum
  <2>1. ~WaitsForRoom
    BY <1>3, PlannerAssumption DEF WaitsForRoom
  <2>2. pc = "idle"
    BY <2>1, <1>1 DEF Collect
  <2>3. ~flushed'
    <3>1. ~(done > 1)
      BY <1>3
    <3> QED BY <3>1, <1>2
  <2> QED BY <2>2, <2>3, <1>2, <1>3, <1>4 DEF ShapeInv
<1>6. done' = 0 /\ ~Waiting(1)'
  <2>1. DOMAIN queue' = {}
    BY <1>2
  <2> QED BY <2>1, <1>2, <1>3 DEF Waiting
<1>7. ControlInv' /\ LimitsInv' /\ PassInv' /\ MachineInv'
  BY <1>2, <1>3, <1>5, <1>6 DEF ControlInv, LimitsInv, PassInv, MachineInv
<1>8. PlanInv'
  <2>1. Settled' = 0
    BY <1>3, <1>5 DEF Settled
  <2> QED BY <2>1, <1>3 DEF PlanInv
<1> QED BY <1>3, <1>4, <1>7, <1>8 DEF PlannerInv

\* The plan stands until what runs overtakes the planner, and again from the next
\* empty queue on: whatever the passes of recalculate() skip and whatever is taken and
\* finished meanwhile, every block can brake to what follows it, and from the end of
\* the queue back to where the passes are each trapezoid is that of the entry speeds.
THEOREM PlannerInvariant ==
  ASSUME MinimumIsLowest
  PROVE  Spec => []PlanStands
<1>1. Init => PlanStands
  <2> SUFFICES ASSUME Init PROVE ShapeInv /\ PlannerInv
    BY DEF PlanStands, PlannerInv
  <2>1. ShapeInv
    BY DEF Init, ShapeInv
  <2> QED BY <2>1, InitHolds
<1>2. PlanStands /\ [Next]_vars => PlanStands'
  <2> SUFFICES ASSUME PlanStands, [Next]_vars PROVE PlanStands'
    OBVIOUS
  <2>1. TypeInv' /\ ShapeInv'
    BY ShapeKept DEF PlanStands
  <2>2. CASE raced'
    BY <2>1, <2>2 DEF PlanStands
  <2>3. CASE ~raced' /\ raced
    BY <2>1, <2>3, EmptyAgain DEF PlanStands
  <2>4. CASE ~raced' /\ ~raced
    BY <2>1, <2>4, NextKeeps DEF PlanStands
  <2> QED BY <2>2, <2>3, <2>4
<1> QED BY <1>1, <1>2, PTL DEF Spec

\* The planner hands no block to the interrupt: of the steps that keep the number of
\* blocks, only those of the interrupt mark one.
LEMMA PlannerTakesNone ==
  ASSUME PlannerInv, NEW i \in 1 .. Len(queue), Len(queue') = Len(queue),
         \/ AppendBlock \/ ReversePass \/ ReverseEnd \/ ForwardPass \/ PreviousTrapezoid
         \/ LastTrapezoid \/ Ready \/ Flush \/ Collect \/ UNCHANGED vars
  PROVE  queue'[i].ticking = queue[i].ticking
<1>1. queue \in Seq(Block) /\ queue[i] \in Block /\ Len(queue) \in Nat
  BY QueueIs DEF PlannerInv, TypeInv
<1>2. CASE AppendBlock
  <2>1. PICK b : queue' = Append(queue, b)
    BY <1>2 DEF AppendBlock
  <2> QED BY <2>1, <1>1
<1>3. CASE ReversePass
  <2>1. PICK e : queue' = [queue EXCEPT ![at].entry = e]
    BY <1>3 DEF ReversePass
  <2> QED BY <2>1, <1>1 DEF Block
<1>4. CASE ReverseEnd \/ UNCHANGED vars
  BY <1>4 DEF ReverseEnd, vars
<1>5. CASE ForwardPass
  <2>1. queue' = [queue EXCEPT ![at + 1] = Forwarded(queue[at + 1], speed)]
    BY <1>5 DEF ForwardPass
  <2>2. CASE i = at + 1
    <3>1. queue'[i] = Forwarded(queue[i], speed)
      BY <2>1, <2>2, <1>1
    <3> QED BY <3>1, <1>1 DEF Forwarded, Block
  <2>3. CASE i # at + 1
    BY <2>1, <2>3, <1>1
  <2> QED BY <2>2, <2>3
<1>6. CASE PreviousTrapezoid \/ LastTrapezoid
  <2>1. PICK k, v : queue' = [queue EXCEPT ![k] = Trapezoid(@, v)]
    BY <1>6 DEF PreviousTrapezoid, LastTrapezoid
  <2>2. CASE i = k
    <3>1. queue'[i] = Trapezoid(queue[i], v)
      BY <2>1, <2>2, <1>1
    <3> QED BY <3>1, <1>1 DEF Trapezoid, Block
  <2>3. CASE i # k
    BY <2>1, <2>3, <1>1
  <2> QED BY <2>2, <2>3
<1>7. CASE Ready
  <2>1. queue' = [queue EXCEPT ![Len(queue)].ready = TRUE]
    BY <1>7 DEF Ready
  <2> QED BY <2>1, <1>1 DEF Block
<1>8. CASE Flush
  <2>1. queue' = Kept
    BY <1>8 DEF Flush
  <2>2. CASE WaitsForRoom
    BY <2>1, <2>2, <1>1 DEF Kept
  <2>3. CASE ~WaitsForRoom
    BY <2>1, <2>3 DEF Kept
  <2> QED BY <2>2, <2>3
<1>9. CASE Collect
  <2>1. queue' = Tail(queue) /\ queue # <<>>
    BY <1>9, <1>1 DEF Collect
  <2> QED BY <2>1, <1>1, HeadTailProperties
<1> QED BY <1>2, <1>3, <1>4, <1>5, <1>6, <1>7, <1>8, <1>9

\* A step may not start a block at another speed than the machine has.
LEMMA StepStartsAtMachineSpeed ==
  ASSUME PlannerInv, [Next]_vars, ~raced',
         NEW i \in DOMAIN queue' \cap DOMAIN queue,
         Len(queue') = Len(queue), queue'[i].ticking, ~queue[i].ticking
  PROVE  queue'[i].initial = machine'
<1>1. queue \in Seq(Block) /\ Len(queue) \in Nat /\ i \in 1 .. Len(queue)
      /\ \A j \in 1 .. Len(queue) : queue[j] \in Block
  BY QueueIs DEF PlannerInv, TypeInv
<1>2. CASE StartBlock
  <2>1. queue' = [queue EXCEPT ![done + 1] = Taken(@)]
    BY <1>2 DEF StartBlock
  <2>2. i = done + 1
    <3> SUFFICES ASSUME i # done + 1 PROVE FALSE
      OBVIOUS
    <3>1. queue'[i] = queue[i]
      BY <2>1, <1>1
    <3> QED BY <3>1
  <2> QED BY <2>2, <1>2, StartBlockStep
<1>3. CASE FinishBlock
  <2>1. PICK k : queue' = queue \/ (queue' = [queue EXCEPT ![k] = Taken(@)] /\ k \in 1 .. Len(queue)
                                      /\ queue'[k].initial = machine')
    BY <1>3, FinishBlockStep
  <2>2. i = k /\ queue' # queue
    <3> SUFFICES ASSUME i # k \/ queue' = queue PROVE FALSE
      OBVIOUS
    <3>1. queue'[i] = queue[i]
      BY <2>1, <1>1
    <3> QED BY <3>1
  <2> QED BY <2>1, <2>2
<1>4. CASE ~StartBlock /\ ~FinishBlock
  <2>1. queue'[i].ticking = queue[i].ticking
    BY <1>1, <1>4, PlannerTakesNone DEF Next
  <2> QED BY <2>1
<1> QED BY <1>2, <1>3, <1>4

\* Until what runs overtakes the planner, the times of calculate_trapezoid are never
\* negative: between two plans every block that is to run, or runs, can go from its
\* initial to its exit speed within its length and its nominal speed.
THEOREM TrapezoidsAreFeasible ==
  ASSUME MinimumIsLowest
  PROVE  Spec => []TrapezoidFeasible
<1>1. PlanStands => TrapezoidFeasible
  <2> SUFFICES ASSUME PlanStands PROVE TrapezoidFeasible
    OBVIOUS
  <2>1. TypeOK
    <3>1. DOMAIN queue = 1 .. Len(queue) /\ \A i \in 1 .. Len(queue) : queue[i] \in Block
      BY BlocksOf DEF PlanStands, TypeInv
    <3>2. ASSUME NEW i \in DOMAIN queue
          PROVE  /\ \A f \in {"nominal", "reach", "maxEntry", "entry", "initial", "exit"} :
                      queue[i][f] \in Nat
                 /\ \A f \in Flag : queue[i][f] \in BOOLEAN
      <4>1. queue[i] \in Block
        BY <3>1, <3>2
      <4>2. \A f \in {"nominal", "reach", "maxEntry", "entry", "initial", "exit"} :
              queue[i][f] \in Nat
        BY <4>1 DEF Block
      <4>3. /\ queue[i].nominalLength \in BOOLEAN /\ queue[i].recalculate \in BOOLEAN
            /\ queue[i].ticking \in BOOLEAN /\ queue[i].ready \in BOOLEAN
        BY <4>1, Fields
      <4>4. \A f \in Flag : queue[i][f] \in BOOLEAN
        BY <4>3 DEF Flag
      <4> QED BY <4>2, <4>4
    <3> QED BY <3>2 DEF TypeOK, PlanStands, TypeInv, ShapeInv
  <2>2. ASSUME ~raced, pc = "idle", NEW i \in DOMAIN queue, i > done PROVE Feasible(queue[i])
    <3> PlannerInv
      BY <2>2 DEF PlanStands
    <3>1. i \in 1 .. Len(queue) /\ done \in Nat /\ Len(queue) \in Nat
      BY <2>2, QueueIs DEF PlannerInv, TypeInv
    <3>2. ~flushed
      BY <2>2, <3>1 DEF PlannerInv, ControlInv
    <3>3. CASE queue[i].ticking
      BY <3>1, <3>2, <3>3 DEF PlannerInv, PlanInv
    <3>4. CASE ~queue[i].ticking
      <4>1. Waiting(i) /\ i <= Settled
        BY <2>2, <3>1, <3>4, SettledIs DEF Waiting
      <4> QED BY <4>1, <2>2, <3>1, <3>2, PlannedIsFeasible
    <3> QED BY <3>3, <3>4
  <2> QED BY <2>1, <2>2 DEF TrapezoidFeasible, Feasible
<1> QED BY <1>1, PlannerInvariant, PTL

\* Between two plans each block that is to run starts at the speed at which the one
\* before it ends, and the last one ends at the minimum speed.
LEMMA BetweenPlans ==
  ASSUME PlannerInv, pc = "idle"
  PROVE  /\ \A i : Waiting(i) => queue[i].initial = Arrival(i)
         /\ done < Len(queue) => queue[Len(queue)].exit = Minimum
<1>1. Len(queue) \in Nat /\ done \in Nat /\ done <= Len(queue)
      /\ \A i : Waiting(i) <=> i \in 1 .. Len(queue) /\ i > done /\ ~queue[i].ticking
  BY QueueIs DEF PlannerInv, TypeInv
<1>2. done < Len(queue) => ~flushed
  BY <1>1 DEF PlannerInv, ControlInv
<1>3. ASSUME ~flushed, NEW i \in 1 .. Len(queue), i >= done PROVE Planned(i)
  BY <1>3 DEF PlannerInv, PlanInv, Settled
<1>4. ASSUME NEW i, Waiting(i) PROVE queue[i].initial = Arrival(i)
  <2>1. i \in 1 .. Len(queue) /\ i > done /\ ~flushed
    BY <1>1, <1>2, <1>4
  <2>2. queue[i].initial = queue[i].entry
    BY <1>3, <1>4, <2>1, <1>1 DEF Planned
  <2>3. CASE i = 1
    <3>1. queue[1].entry = machine
      BY <1>4, <2>1, <2>3 DEF PlannerInv, MachineInv
    <3> QED BY <3>1, <2>1, <2>2, <2>3, <1>1 DEF Arrival
  <2>4. CASE i # 1
    <3>1. i - 1 \in 1 .. Len(queue) /\ i - 1 >= done /\ i - 1 < Len(queue) /\ (i - 1) + 1 = i
      BY <2>1, <2>4, <1>1
    <3>2. queue[i - 1].exit = queue[i].entry
      BY <3>1, <1>3, <2>1 DEF Planned, EntryAfter
    <3>3. i = done + 1 => queue[i - 1].exit = machine
      <4>1. i = done + 1 => i - 1 = done /\ done >= 1
        BY <3>1, <1>1
      <4> QED BY <4>1, <2>1 DEF PlannerInv, MachineInv
    <3>4. i > done + 1 \/ i = done + 1
      BY <2>1, <1>1
    <3> QED BY <3>2, <3>3, <3>4, <2>2, <1>1 DEF Arrival
  <2> QED BY <2>3, <2>4
<1>5. ASSUME done < Len(queue) PROVE queue[Len(queue)].exit = Minimum
  <2>1. Planned(Len(queue))
    BY <1>1, <1>2, <1>3, <1>5
  <2> QED BY <2>1, <1>1 DEF Planned, EntryAfter
<1> QED BY <1>4, <1>5

\* Until what runs overtakes the planner, the speed never jumps from a block to the
\* next, and the queue ends at the minimum speed, however little of it recalculate()
\* visits and whatever is taken and finished meanwhile.
THEOREM SpeedStaysContinuous ==
  ASSUME MinimumIsLowest
  PROVE  Spec => []SpeedIsContinuous
<1>1. PlanStands => SpeedIsContinuous
  BY BetweenPlans DEF PlanStands, SpeedIsContinuous
<1> QED BY <1>1, PlannerInvariant, PTL

\* A block that the interrupt takes, between two plans or during one, starts at the
\* speed the machine has, until what runs overtakes the planner.
THEOREM BlocksStartAtMachineSpeed ==
  ASSUME MinimumIsLowest
  PROVE  Spec => StartsAtMachineSpeed
<1>1. PlanStands /\ [Next]_vars =>
        [~raced' => \A i \in DOMAIN queue' \cap DOMAIN queue :
           /\ Len(queue') = Len(queue) /\ queue'[i].ticking /\ ~queue[i].ticking
           => queue'[i].initial = machine']_vars
  <2> SUFFICES ASSUME PlanStands, [Next]_vars, ~raced',
                      NEW i \in DOMAIN queue' \cap DOMAIN queue, Len(queue') = Len(queue),
                      queue'[i].ticking, ~queue[i].ticking
               PROVE  queue'[i].initial = machine'
    OBVIOUS
  <2>1. CASE raced
    <3>1. Len(queue') = 0 /\ TypeInv'
      BY <2>1, EmptyAgain DEF PlanStands, PlannerInv
    <3>2. DOMAIN queue' = 1 .. 0
      BY <3>1, BlocksOf DEF TypeInv
    <3> QED BY <3>2
  <2>2. CASE ~raced
    BY <2>2, StepStartsAtMachineSpeed DEF PlanStands
  <2> QED BY <2>1, <2>2
<1> QED BY <1>1, PlannerInvariant, PTL DEF Spec, StartsAtMachineSpeed

-----------------------------------------------------------------------------
(* The plan is the fastest.  Every block that is to run is held back by     *)
(* something: by its corner, by what the block before it can gain, or by    *)
(* what it must lose before the block after it.                             *)

\* A step that gives no block another entry speed and lets none wait.
LEMMA SameEntries ==
  ASSUME PlannerInv, FastInv, ~flushed, Len(queue') = Len(queue),
         \A i \in 1 .. Len(queue) : /\ queue'[i].entry = queue[i].entry
                                    /\ queue'[i].reach = queue[i].reach
                                    /\ queue'[i].maxEntry = queue[i].maxEntry,
         \A i : Waiting(i)' => Waiting(i) /\ queue'[i].recalculate = queue[i].recalculate,
         Visited' = Visited, Tight' = Tight
  PROVE  FastInv'
<1>1. Len(queue) \in Nat /\ \A i : Waiting(i) => i \in 1 .. Len(queue)
  BY QueueIs DEF PlannerInv
<1>2. ASSUME NEW i \in 1 .. Len(queue) PROVE EntryAfter(i)' = EntryAfter(i)
  <2>1. i < Len(queue) => i + 1 \in 1 .. Len(queue)
    BY <1>1
  <2> QED BY <2>1 DEF EntryAfter
<1>3. ASSUME NEW i \in 1 .. Len(queue), FromAhead(i) PROVE FromAhead(i)'
  BY <1>2, <1>3 DEF FromAhead
<1>4. ASSUME NEW i \in 1 .. Len(queue), FromBehind(i) PROVE FromBehind(i)'
  <2>1. CASE ~Waiting(i - 1)
    BY <2>1 DEF FromBehind
  <2>2. CASE Waiting(i - 1)
    <3>1. i - 1 \in 1 .. Len(queue)
      BY <2>2, <1>1
    <3> QED BY <3>1, <1>4 DEF FromBehind
  <2> QED BY <2>1, <2>2
<1>5. ASSUME NEW i \in 1 .. Len(queue)
      PROVE  /\ queue'[i].reach > 0
             /\ Waiting(i)' => /\ i <= Tight' => FromBehind(i)' \/ FromAhead(i)'
                               /\ i <= Visited' /\ ~queue'[i].recalculate => FromBehind(i)'
                               /\ i > Visited' => FromAhead(i)' /\ queue'[i].recalculate
  BY <1>3, <1>4 DEF FastInv
<1> QED BY <1>5 DEF FastInv

\* The trapezoids and the flag ready are no part of the plan.
LEMMA OnlyTimes ==
  ASSUME PlannerInv, PreviousTrapezoid \/ LastTrapezoid \/ Ready
  PROVE  /\ Len(queue') = Len(queue) /\ ~flushed /\ done' = done
         /\ \A i \in 1 .. Len(queue) :
              /\ queue'[i].entry = queue[i].entry /\ queue'[i].reach = queue[i].reach
              /\ queue'[i].maxEntry = queue[i].maxEntry
              /\ queue'[i].ticking = queue[i].ticking
              /\ queue'[i].recalculate = queue[i].recalculate
<1>1. /\ queue \in Seq(Block) /\ Len(queue) \in Nat /\ Minimum \in Nat
      /\ \A i \in 1 .. Len(queue) : queue[i] \in Block /\ queue[i].entry \in Nat
  BY QueueIs DEF PlannerInv, TypeInv
<1>2. PICK k \in 1 .. Len(queue), b \in Block :
        /\ queue' = [queue EXCEPT ![k] = b]
        /\ b.entry = queue[k].entry /\ b.reach = queue[k].reach
        /\ b.maxEntry = queue[k].maxEntry /\ b.ticking = queue[k].ticking
        /\ b.recalculate = queue[k].recalculate
  <2>1. CASE PreviousTrapezoid
    <3>1. at - 1 \in 1 .. Len(queue) /\ at \in 1 .. Len(queue)
      BY <2>1, <1>1 DEF PreviousTrapezoid, PlannerInv, TypeInv, ControlInv
    <3> DEFINE b == Trapezoid(queue[at - 1], queue[at].entry)
    <3>2. /\ b \in Block
          /\ \A f \in {"nominal", "reach", "maxEntry", "entry", "nominalLength", "ticking",
                       "recalculate", "ready"} : b[f] = queue[at - 1][f]
      BY <3>1, <1>1, TrapezoidIs
    <3>3. queue' = [queue EXCEPT ![at - 1] = b]
      BY <2>1 DEF PreviousTrapezoid
    <3> HIDE DEF b
    <3> QED BY <3>1, <3>2, <3>3
  <2>2. CASE LastTrapezoid
    <3>1. at \in 1 .. Len(queue)
      BY <2>2, <1>1 DEF LastTrapezoid, PlannerInv, TypeInv, ControlInv
    <3> DEFINE b == Trapezoid(queue[at], Minimum)
    <3>2. /\ b \in Block
          /\ \A f \in {"nominal", "reach", "maxEntry", "entry", "nominalLength", "ticking",
                       "recalculate", "ready"} : b[f] = queue[at][f]
      BY <3>1, <1>1, TrapezoidIs
    <3>3. queue' = [queue EXCEPT ![at] = b]
      BY <2>2 DEF LastTrapezoid
    <3> HIDE DEF b
    <3> QED BY <3>1, <3>2, <3>3
  <2>3. CASE Ready
    <3>1. Len(queue) \in 1 .. Len(queue)
      BY <2>3, <1>1 DEF Ready, PlannerInv, TypeInv, ControlInv
    <3> DEFINE b == [queue[Len(queue)] EXCEPT !.ready = TRUE]
    <3>2. /\ b \in Block
          /\ b.entry = queue[Len(queue)].entry /\ b.reach = queue[Len(queue)].reach
          /\ b.maxEntry = queue[Len(queue)].maxEntry /\ b.ticking = queue[Len(queue)].ticking
          /\ b.recalculate = queue[Len(queue)].recalculate
      BY <3>1, <1>1 DEF Block
    <3>3. queue' = [queue EXCEPT ![Len(queue)] = b]
      BY <2>3 DEF Ready
    <3> HIDE DEF b
    <3> QED BY <3>1, <3>2, <3>3
  <2> QED BY <2>1, <2>2, <2>3
<1>3. /\ Len(queue') = Len(queue) /\ queue'[k] = b
      /\ \A i \in 1 .. Len(queue) : i # k => queue'[i] = queue[i]
  BY <1>1, <1>2, Updated
<1>4. ~flushed /\ done' = done
  BY DEF PreviousTrapezoid, LastTrapezoid, Ready, PlannerInv, ControlInv
<1> QED BY <1>2, <1>3, <1>4

\* The blocks that wait are those that waited.
LEMMA WaitingIs ==
  ASSUME PlannerInv, PlannerInv', NEW i
  PROVE  /\ Waiting(i)' <=> i \in 1 .. Len(queue') /\ i > done' /\ ~queue'[i].ticking
         /\ Waiting(i) <=> i \in 1 .. Len(queue) /\ i > done /\ ~queue[i].ticking
<1>1. DOMAIN queue = 1 .. Len(queue) /\ DOMAIN queue' = 1 .. Len(queue')
  BY BlocksOf DEF PlannerInv, TypeInv
<1> QED BY <1>1 DEF Waiting

LEMMA TrapezoidsKeepFast ==
  ASSUME PlannerInv, PlannerInv', FastInv, PreviousTrapezoid \/ LastTrapezoid \/ Ready
  PROVE  FastInv'
<1>1. /\ Len(queue') = Len(queue) /\ ~flushed /\ done' = done
      /\ \A i \in 1 .. Len(queue) :
           /\ queue'[i].entry = queue[i].entry /\ queue'[i].reach = queue[i].reach
           /\ queue'[i].maxEntry = queue[i].maxEntry
           /\ queue'[i].ticking = queue[i].ticking
           /\ queue'[i].recalculate = queue[i].recalculate
  BY OnlyTimes
<1>2. \A i : Waiting(i)' => Waiting(i) /\ queue'[i].recalculate = queue[i].recalculate
  BY <1>1, WaitingIs
<1>3. Visited' = Visited /\ Tight' = Tight
  <2>1. Len(queue) \in Nat
    BY QueueIs DEF PlannerInv
  <2>2. CASE PreviousTrapezoid
    BY <2>2 DEF PreviousTrapezoid, Visited, Tight
  <2>3. CASE LastTrapezoid
    BY <2>3, <1>1 DEF LastTrapezoid, Visited, Tight, PlannerInv, ControlInv
  <2>4. CASE Ready
    BY <2>4, <1>1 DEF Ready, Visited, Tight
  <2> QED BY <2>2, <2>3, <2>4
<1> QED BY <1>1, <1>2, <1>3, SameEntries

\* The interrupt takes a block: it waits no more.
LEMMA InterruptKeepsFast ==
  ASSUME PlannerInv, PlannerInv', FastInv, StartBlock \/ FinishBlock
  PROVE  FastInv'
<1>1. /\ queue \in Seq(Block) /\ Len(queue) \in Nat /\ done \in Nat
      /\ \A i \in 1 .. Len(queue) : queue[i] \in Block
  BY QueueIs DEF PlannerInv, TypeInv
<1>2. /\ pc' = pc /\ at' = at /\ flushed' = flushed /\ (done' = done \/ done' = done + 1)
  BY DEF StartBlock, FinishBlock
<1>3. queue' = queue \/ \E k \in 1 .. Len(queue) : queue' = [queue EXCEPT ![k] = Taken(@)]
  <2>1. CASE StartBlock
    <3>1. queue' = [queue EXCEPT ![done + 1] = Taken(@)] /\ done + 1 \in 1 .. Len(queue)
      BY <2>1, <1>1 DEF StartBlock, Published
    <3> QED BY <3>1
  <2>2. CASE FinishBlock
    <3>1. /\ queue' = IF Published(done + 2) THEN [queue EXCEPT ![done + 2] = Taken(@)] ELSE queue
          /\ Published(done + 2) => done + 2 \in 1 .. Len(queue)
      BY <2>2, <1>1 DEF FinishBlock, Published
    <3> QED BY <3>1
  <2> QED BY <2>1, <2>2
<1>4. /\ Len(queue') = Len(queue)
      /\ \A i \in 1 .. Len(queue) :
           /\ queue'[i].entry = queue[i].entry /\ queue'[i].reach = queue[i].reach
           /\ queue'[i].maxEntry = queue[i].maxEntry
           /\ ~queue'[i].ticking => /\ ~queue[i].ticking
                                    /\ queue'[i].recalculate = queue[i].recalculate
  <2>1. CASE queue' = queue
    BY <2>1
  <2>2. CASE queue' # queue
    <3>1. PICK k \in 1 .. Len(queue) : queue' = [queue EXCEPT ![k] = Taken(@)]
      BY <2>2, <1>3
    <3> DEFINE b == Taken(queue[k])
    <3>2. /\ b \in Block /\ b.ticking
          /\ \A f \in {"nominal", "reach", "maxEntry", "entry", "nominalLength", "initial",
                       "exit", "ready"} : b[f] = queue[k][f]
      BY <1>1, TakenIs
    <3>3. queue' = [queue EXCEPT ![k] = b]
      BY <3>1
    <3> HIDE DEF b
    <3>4. /\ Len(queue') = Len(queue) /\ queue'[k] = b
          /\ \A i \in 1 .. Len(queue) : i # k => queue'[i] = queue[i]
      BY <1>1, <3>2, <3>3, Updated
    <3> QED BY <3>2, <3>4
  <2> QED BY <2>1, <2>2
<1>5. \A i : Waiting(i)' => Waiting(i) /\ queue'[i].recalculate = queue[i].recalculate
  <2> SUFFICES ASSUME NEW i, Waiting(i)'
               PROVE  Waiting(i) /\ queue'[i].recalculate = queue[i].recalculate
    OBVIOUS
  <2>1. i \in 1 .. Len(queue) /\ i > done' /\ ~queue'[i].ticking
    BY <1>4, WaitingIs
  <2>2. i > done
    BY <2>1, <1>1, <1>2
  <2> QED BY <2>1, <2>2, <1>4, WaitingIs
<1>6. Visited' = Visited /\ Tight' = Tight
  BY <1>2, <1>4 DEF Visited, Tight, Behind
<1>7. CASE flushed
  BY <1>2, <1>7 DEF FastInv
<1>8. CASE ~flushed
  BY <1>4, <1>5, <1>6, <1>8, SameEntries
<1> QED BY <1>7, <1>8

\* The collector moves the queue by a block that does not wait.
LEMMA CollectKeepsFast ==
  ASSUME PlannerInv, PlannerInv', FastInv, Collect
  PROVE  FastInv'
<1> DEFINE n == Len(queue)
<1>1. /\ done > 0 /\ queue' = Tail(queue) /\ done' = done - 1 /\ pc' = pc /\ at' = at
      /\ flushed' = (flushed /\ done > 1) /\ pc \in {"idle", "ready"}
  BY DEF Collect, WaitsForRoom
<1>2. /\ n \in Nat /\ done \in 1 .. n /\ queue \in Seq(Block) /\ queue # <<>>
  BY <1>1, QueueIs DEF PlannerInv, TypeInv
<1>3. /\ Len(queue') = n - 1
      /\ \A i \in 1 .. n - 1 : queue'[i] = queue[i + 1] /\ i + 1 \in 1 .. n
  BY <1>1, <1>2, HeadTailProperties
<1>4. CASE flushed' \/ flushed
  <2>1. CASE flushed'
    BY <2>1 DEF FastInv
  <2>2. CASE flushed /\ ~flushed'
    <3>1. n = 1
      <4>1. ~(done > 1)
        BY <2>2, <1>1
      <4>2. done = n
        BY <2>2 DEF PlannerInv, ControlInv
      <4> QED BY <4>1, <4>2, <1>2
    <3> QED BY <3>1, <1>3 DEF FastInv
  <2> QED BY <1>4, <2>1, <2>2
<1>5. ASSUME ~flushed, NEW i \in 1 .. n - 1
      PROVE  /\ queue'[i].reach > 0
             /\ Waiting(i)' => /\ FromBehind(i)' \/ FromAhead(i)'
                               /\ ~queue'[i].recalculate => FromBehind(i)'
  <2>1. i + 1 \in 1 .. n /\ queue'[i] = queue[i + 1] /\ (i + 1) - 1 = i
    BY <1>2, <1>3
  <2>2. Waiting(i)' <=> Waiting(i + 1)
    BY <2>1, <1>1, <1>2, <1>3, WaitingIs
  <2>3. FromAhead(i + 1) => FromAhead(i)'
    <3>1. EntryAfter(i)' = EntryAfter(i + 1)
      <4>1. i < n - 1 => i + 1 \in 1 .. n - 1
        BY <1>2
      <4>2. i < n - 1 <=> i + 1 < n
        BY <1>2
      <4>3. i < n - 1 => queue'[i + 1] = queue[(i + 1) + 1]
        BY <4>1, <1>3
      <4> QED BY <4>2, <4>3, <1>3 DEF EntryAfter
    <3> QED BY <3>1, <2>1 DEF FromAhead
  <2>4. FromBehind(i + 1) => FromBehind(i)'
    <3>1. CASE i = 1
      <4>1. ~Waiting(i - 1)'
        <5>1. ~(i - 1 \in 1 .. Len(queue'))
          BY <3>1, <1>2, <1>3
        <5>2. \A j : Waiting(j)' => j \in 1 .. Len(queue')
          BY WaitingIs
        <5>3. Waiting(i - 1)' => i - 1 \in 1 .. Len(queue')
          BY <5>2
        <5> QED BY <5>1, <5>3
      <4> QED BY <4>1 DEF FromBehind
    <3>2. CASE i # 1
      <4>1. i - 1 \in 1 .. n - 1 /\ (i - 1) + 1 = i /\ i \in 1 .. n
        BY <3>2, <1>2
      <4>2. queue'[i - 1] = queue[i]
        BY <4>1, <1>3
      <4>3. Waiting(i - 1)' => Waiting(i)
        <5>1. i - 1 > done - 1 => i > done
          BY <1>2
        <5> QED BY <5>1, <4>1, <4>2, <1>1, WaitingIs
      <4> QED BY <4>2, <4>3, <2>1 DEF FromBehind
    <3> QED BY <3>1, <3>2
  <2>5. i + 1 <= Tight /\ i + 1 <= Visited
    BY <2>1, <1>1, <1>2 DEF Tight, Visited
  <2> QED BY <2>1, <2>2, <2>3, <2>4, <2>5, <1>5 DEF FastInv
<1>6. CASE ~flushed /\ ~flushed'
  <2>1. Visited' = n - 1 /\ Tight' = n - 1
    BY <1>1, <1>3 DEF Visited, Tight
  <2>2. \A i \in 1 .. n - 1 : ~(i > n - 1)
    BY <1>2
  <2> QED BY <2>1, <2>2, <1>3, <1>5, <1>6 DEF FastInv
<1> QED BY <1>4, <1>6

LEMMA FlushKeepsFast ==
  ASSUME Flush
  PROVE  FastInv'
BY DEF Flush, FastInv

LEMMA AppendKeepsFast ==
  ASSUME PlannerInv, PlannerInv', FastInv, AppendBlock, MinimumIsLowest, ~raced'
  PROVE  FastInv'
<1> DEFINE n == Len(queue)
<1>1. /\ ~flushed /\ Len(queue') = n + 1
      /\ \A i \in 1 .. n : queue'[i] = queue[i]
      /\ ~queue'[n + 1].ticking /\ queue'[n + 1].recalculate
  BY AppendedIs
<1>2. /\ pc = "idle" /\ at' = n + 1 /\ done' = done /\ flushed' = flushed
      /\ pc' = IF queue = <<>> THEN "last" ELSE "reverse"
  BY DEF AppendBlock
<1>3. n \in Nat /\ queue \in Seq(Block) /\ (n = 0 <=> queue = <<>>)
  BY QueueIs DEF PlannerInv, TypeInv
<1>4. queue'[n + 1].reach > 0
  <2>1. PICK m \in Moves : \E vmax \in JunctionSpeeds(m) : queue' = Append(queue, NewBlock(m, vmax))
    BY AppendTypes
  <2>2. PICK vmax \in JunctionSpeeds(m) : queue' = Append(queue, NewBlock(m, vmax))
    BY <2>1
  <2>3. queue'[n + 1] = NewBlock(m, vmax)
    BY <2>2, <1>3
  <2>4. NewBlock(m, vmax).reach = m.reach /\ m.reach > 0
    BY PlannerAssumption DEF NewBlock
  <2> QED BY <2>3, <2>4
<1>5. \A i \in 1 .. n : Waiting(i)' <=> Waiting(i)
  BY <1>1, <1>2, <1>3, WaitingIs
<1>6. ~Waiting(0) /\ ~Waiting(0)'
  BY WaitingIs
<1>7. ASSUME NEW i \in 1 .. n, FromBehind(i) PROVE FromBehind(i)'
  <2>1. CASE i = 1
    <3>1. ~Waiting(i - 1)'
      BY <2>1, <1>6
    <3> QED BY <3>1 DEF FromBehind
  <2>2. CASE i # 1
    <3>1. i - 1 \in 1 .. n
      BY <2>2, <1>3
    <3>2. Waiting(i - 1)' <=> Waiting(i - 1)
      BY <3>1, <1>5, <1>2, WaitingIs, <1>1
    <3> QED BY <3>1, <3>2, <1>1, <1>7 DEF FromBehind
  <2> QED BY <2>1, <2>2
<1>8. ASSUME NEW i \in 1 .. n, i < n, FromAhead(i) PROVE FromAhead(i)'
  <2>1. i + 1 \in 1 .. n
    BY <1>3, <1>8
  <2> QED BY <2>1, <1>1, <1>3, <1>8 DEF FromAhead, EntryAfter
<1>9. ASSUME NEW i \in 1 .. n
      PROVE  /\ queue'[i].reach > 0
             /\ Waiting(i)' => /\ i < n => FromBehind(i)' \/ FromAhead(i)'
                               /\ ~queue'[i].recalculate => FromBehind(i)'
  <2>1. i <= Tight /\ i <= Visited
    BY <1>2, <1>3 DEF Tight, Visited
  <2> QED BY <2>1, <1>1, <1>5, <1>7, <1>8 DEF FastInv
<1>10. CASE n = 0
  <2>1. \A i \in 1 .. n + 1 : i = n + 1 /\ i - 1 = 0
    BY <1>10
  <2>2. \A i \in 1 .. n + 1 : FromBehind(i)'
    <3> SUFFICES ASSUME NEW i \in 1 .. n + 1 PROVE FromBehind(i)'
      OBVIOUS
    <3>1. ~Waiting(i - 1)'
      BY <2>1, <1>6
    <3> QED BY <3>1 DEF FromBehind
  <2>3. \A i \in 1 .. n + 1 : ~(i > Visited')
    BY <1>2, <1>3, <1>10 DEF Visited
  <2> QED BY <2>1, <2>2, <2>3, <1>1, <1>4 DEF FastInv
<1>11. CASE n # 0
  <2>1. pc' = "reverse" /\ Visited' = n + 1 /\ Tight' = n - 1
    BY <1>1, <1>2, <1>3, <1>11 DEF Visited, Tight, Behind
  <2>2. \A i \in 1 .. n + 1 : ~(i > n + 1) /\ (i = n + 1 \/ i \in 1 .. n)
    BY <1>3
  <2>3. \A i \in 1 .. n : i <= n - 1 => i < n
    BY <1>3
  <2>4. ~(n + 1 <= n - 1)
    BY <1>3
  <2> QED BY <2>1, <2>2, <2>3, <2>4, <1>1, <1>4, <1>9 DEF FastInv
<1> QED BY <1>10, <1>11

\* The forward passes begin at a block that is held back from behind, or follows the
\* speed of the machine.
LEMMA ReverseEndKeepsFast ==
  ASSUME PlannerInv, PlannerInv', FastInv, ReverseEnd
  PROVE  FastInv'
<1>1. /\ pc = "reverse" /\ (at = 1 \/ ~queue[at].recalculate)
      /\ queue' = queue /\ at' = at /\ done' = done /\ flushed' = flushed
      /\ pc' = IF at = Len(queue) THEN "last" ELSE "forward"
  BY DEF ReverseEnd, ReverseStops
<1>2. /\ Len(queue) \in Nat /\ at \in 1 .. Len(queue) /\ at # Len(queue) /\ ~flushed
  BY <1>1, QueueIs DEF PlannerInv, TypeInv, ControlInv
<1>3. /\ \A i : Waiting(i)' <=> Waiting(i)
      /\ \A i : FromBehind(i)' <=> FromBehind(i)
      /\ \A i : FromAhead(i)' <=> FromAhead(i)
  BY <1>1 DEF Waiting, FromBehind, FromAhead, EntryAfter
<1>4. Visited = at /\ Visited' = at /\ Tight = at - 1 /\ Tight' = at
  BY <1>1, <1>2 DEF Visited, Tight, Behind
<1>5. Waiting(at) => FromBehind(at)
  <2>1. CASE at = 1
    <3>1. ~Waiting(at - 1)
      BY <2>1, WaitingIs
    <3> QED BY <3>1 DEF FromBehind
  <2>2. CASE at # 1
    BY <2>2, <1>1, <1>2, <1>4 DEF FastInv
  <2> QED BY <2>1, <2>2
<1>6. ASSUME NEW i \in 1 .. Len(queue), Waiting(i), i <= at PROVE FromBehind(i) \/ FromAhead(i)
  <2>1. CASE i = at
    BY <2>1, <1>5, <1>6
  <2>2. CASE i # at
    <3>1. i <= at - 1
      BY <2>2, <1>2, <1>6
    <3> QED BY <3>1, <1>2, <1>4, <1>6 DEF FastInv
  <2> QED BY <2>1, <2>2
<1> QED BY <1>1, <1>2, <1>3, <1>4, <1>6 DEF FastInv

-----------------------------------------------------------------------------
(* What holds of a chain of blocks, proved from its first, or its last,      *)
(* counterexample.                                                           *)

\* A set of numbers has a least one, and a bounded one a largest.
LEMMA LeastNumber ==
  ASSUME NEW T \in SUBSET Nat, T # {}
  PROVE  \E x \in T : \A y \in T : x <= y
<1> DEFINE less == {ss \in Nat \X Nat : ss[1] < ss[2]}
<1>1. IsWellFoundedOn(less, Nat)
  BY NatLessThanWellFounded DEF OpToRel
<1>2. \E x \in T : \A y \in T : ~ (<<y, x>> \in less)
  <2> HIDE DEF less
  <2> QED BY <1>1, WFMin
<1>3. PICK x \in T : \A y \in T : ~ (<<y, x>> \in less)
  BY <1>2
<1>4. \A y \in T : ~(y < x)
  BY <1>3
<1> QED BY <1>4

LEMMA LargestNumber ==
  ASSUME NEW n \in Nat, NEW T \in SUBSET (1 .. n), T # {}
  PROVE  \E x \in T : \A y \in T : y <= x
<1> DEFINE S == {n - x : x \in T}
<1>1. S \in SUBSET Nat /\ S # {}
  <2>1. \A x \in T : n - x \in Nat
    OBVIOUS
  <2>2. PICK x \in T : TRUE
    OBVIOUS
  <2>3. n - x \in S
    OBVIOUS
  <2> QED BY <2>1, <2>3
<1>2. PICK s \in S : \A y \in S : s <= y
  <2> HIDE DEF S
  <2> QED BY <1>1, LeastNumber
<1>3. PICK x \in T : s = n - x
  BY <1>2
<1>4. ASSUME NEW y \in T PROVE y <= x
  <2>1. n - y \in S
    OBVIOUS
  <2>2. n - x <= n - y
    BY <2>1, <1>2, <1>3
  <2> QED BY <2>2
<1> QED BY <1>4

\* The sum that Reach is defined as, over the first k blocks.
IsSum(g, k) == g = [i \in 1 .. k + 1 |-> IF i = 1 THEN 0 ELSE g[i - 1] + queue[i - 1].reach]

LEMMA SumExists ==
  ASSUME NEW k \in Nat
  PROVE  \E g : IsSum(g, k)
<1> DEFINE T == {l \in Nat : ~ \E g : IsSum(g, l)}
<1> SUFFICES ASSUME T # {} PROVE FALSE
  OBVIOUS
<1>1. PICK x \in T : \A y \in T : x <= y
  <2>1. T \in SUBSET Nat
    OBVIOUS
  <2> HIDE DEF T
  <2> QED BY <2>1, LeastNumber
<1>2. CASE x = 0
  <2> DEFINE g == [i \in 1 .. 1 |-> 0]
  <2>1. g = [i \in 1 .. 0 + 1 |-> IF i = 1 THEN 0 ELSE g[i - 1] + queue[i - 1].reach]
    OBVIOUS
  <2> HIDE DEF g
  <2>2. IsSum(g, 0)
    BY <2>1 DEF IsSum
  <2> QED BY <2>2, <1>1, <1>2
<1>3. CASE x # 0
  <2>1. x - 1 \in Nat /\ x \in Nat /\ ~(x <= x - 1)
    BY <1>3
  <2>2. x - 1 \notin T
    BY <2>1, <1>1
  <2>3. PICK g : IsSum(g, x - 1)
    BY <2>1, <2>2
  <2>4. \A i \in 1 .. x : g[i] = IF i = 1 THEN 0 ELSE g[i - 1] + queue[i - 1].reach
    <3>1. g = [i \in 1 .. x |-> IF i = 1 THEN 0 ELSE g[i - 1] + queue[i - 1].reach]
      BY <2>1, <2>3 DEF IsSum
    <3> QED BY <3>1
  <2> DEFINE h == [i \in 1 .. x + 1 |-> IF i <= x THEN g[i] ELSE g[x] + queue[x].reach]
  <2>5. ASSUME NEW i \in 1 .. x + 1
        PROVE  h[i] = IF i = 1 THEN 0 ELSE h[i - 1] + queue[i - 1].reach
    <3>1. CASE i = x + 1
      BY <3>1, <2>1
    <3>2. CASE i # x + 1
      <4>1. i \in 1 .. x /\ (i # 1 => i - 1 \in 1 .. x + 1 /\ i - 1 <= x)
        BY <3>2, <2>1
      <4> QED BY <4>1, <2>4
    <3> QED BY <3>1, <3>2
  <2>6. IsSum(h, x)
    <3>1. h = [i \in 1 .. x + 1 |-> h[i]]
      OBVIOUS
    <3> HIDE DEF h
    <3>2. h = [i \in 1 .. x + 1 |-> IF i = 1 THEN 0 ELSE h[i - 1] + queue[i - 1].reach]
      BY <3>1, <2>5
    <3> QED BY <3>2 DEF IsSum
  <2> QED BY <2>6, <1>1
<1> QED BY <1>2, <1>3

\* Reach adds up what the blocks gain.
LEMMA ReachIs ==
  ASSUME TypeInv
  PROVE  /\ Reach[1] = 0
         /\ \A i \in 1 .. Len(queue) : Reach[i + 1] = Reach[i] + queue[i].reach
         /\ \A i \in 1 .. Len(queue) + 1 : Reach[i] \in Nat
<1> DEFINE n == Len(queue)
<1>1. n \in Nat /\ \A i \in 1 .. n : queue[i].reach \in Nat
  BY QueueIs
<1>2. IsSum(Reach, n)
  <2>1. Reach = CHOOSE g : IsSum(g, n)
    BY DEF Reach, IsSum
  <2>2. \E g : IsSum(g, n)
    BY <1>1, SumExists
  <2> QED BY <2>1, <2>2
<1>3. ASSUME NEW i \in 1 .. n + 1
      PROVE  Reach[i] = IF i = 1 THEN 0 ELSE Reach[i - 1] + queue[i - 1].reach
  BY <1>2 DEF IsSum
<1>4. Reach[1] = 0
  BY <1>1, <1>3
<1>5. ASSUME NEW i \in 1 .. n PROVE Reach[i + 1] = Reach[i] + queue[i].reach
  <2>1. i + 1 \in 1 .. n + 1 /\ i + 1 # 1 /\ (i + 1) - 1 = i
    BY <1>1
  <2> QED BY <2>1, <1>3
<1>6. \A i \in 1 .. n + 1 : Reach[i] \in Nat
  <2> DEFINE T == {i \in 1 .. n + 1 : Reach[i] \notin Nat}
  <2> SUFFICES ASSUME T # {} PROVE FALSE
    OBVIOUS
  <2>1. PICK x \in T : \A y \in T : x <= y
    <3>1. T \in SUBSET Nat
      BY <1>1
    <3> HIDE DEF T
    <3> QED BY <3>1, LeastNumber
  <2>2. x # 1
    BY <2>1, <1>4
  <2>3. x - 1 \in 1 .. n /\ x - 1 \in 1 .. n + 1 /\ ~(x <= x - 1)
    BY <2>1, <2>2, <1>1
  <2>4. Reach[x - 1] \in Nat
    BY <2>1, <2>3
  <2>5. Reach[x] = Reach[x - 1] + queue[x - 1].reach
    BY <2>2, <2>1, <1>3
  <2> QED BY <2>1, <2>3, <2>4, <2>5, <1>1
<1> QED BY <1>4, <1>5, <1>6

\* A function that no step makes smaller.
LEMMA Monotone ==
  ASSUME NEW f \in Nat, NEW m \in Nat, NEW g, \A i \in f .. m : g[i] \in Int,
         \A i \in f .. m : i < m => g[i] <= g[i + 1]
  PROVE  \A i, j \in f .. m : i <= j => g[i] <= g[j]
<1> SUFFICES ASSUME NEW i \in f .. m PROVE \A j \in f .. m : i <= j => g[i] <= g[j]
  OBVIOUS
<1> DEFINE T == {j \in f .. m : i <= j /\ ~(g[i] <= g[j])}
<1> SUFFICES ASSUME T # {} PROVE FALSE
  OBVIOUS
<1>1. PICK x \in T : \A y \in T : x <= y
  <2>1. T \in SUBSET Nat
    OBVIOUS
  <2> HIDE DEF T
  <2> QED BY <2>1, LeastNumber
<1>2. x # i /\ x \in f .. m /\ i <= x
  OBVIOUS
<1>3. x - 1 \in f .. m /\ i <= x - 1 /\ ~(x <= x - 1) /\ x - 1 < m /\ (x - 1) + 1 = x
  BY <1>2
<1>4. g[i] <= g[x - 1]
  BY <1>1, <1>3
<1>5. g[x - 1] <= g[x]
  BY <1>3
<1> QED BY <1>2, <1>3, <1>4, <1>5

\* The entry speeds are a plan: no block gains or loses more than its reach, and each
\* waiting block has the speed of its trapezoid.
LEMMA EntriesAre ==
  ASSUME PlannerInv, pc = "idle", NEW i, Waiting(i)
  PROVE  /\ ~flushed /\ i \in 1 .. Len(queue)
         /\ i < Len(queue) => Waiting(i + 1)
         /\ queue[i].initial = queue[i].entry
         /\ queue[i].entry <= queue[i].maxEntry
         /\ ~Waiting(i - 1) => queue[i].entry = Arrival(i)
         /\ queue[i].entry <= EntryAfter(i) + queue[i].reach
         /\ EntryAfter(i) <= queue[i].entry + queue[i].reach
<1>1. /\ Len(queue) \in Nat /\ done \in Nat /\ done <= Len(queue)
      /\ \A k : Waiting(k) <=> k \in 1 .. Len(queue) /\ k > done /\ ~queue[k].ticking
  BY QueueIs DEF PlannerInv, TypeInv
<1>2. i \in 1 .. Len(queue) /\ i > done /\ ~flushed
  BY <1>1 DEF PlannerInv, ControlInv
<1>3. i < Len(queue) => Waiting(i + 1)
  BY <1>1, <1>2 DEF PlannerInv, ControlInv
<1>4. Planned(i) /\ Brakes(i)
  BY <1>2, <1>1 DEF PlannerInv, PlanInv, Settled
<1>5. queue[i].entry <= queue[i].maxEntry
  BY <1>2 DEF PlannerInv, LimitsInv
<1>6. queue[i].initial = queue[i].entry /\ queue[i].initial = Arrival(i)
  BY <1>4, BetweenPlans DEF Planned
<1> QED BY <1>2, <1>3, <1>4, <1>5, <1>6 DEF Planned, Brakes, Reaches

\* The speed at which the block after the last one is entered is that of the end.
Enter(i) == IF i \in 1 .. Len(queue) THEN queue[i].entry ELSE Minimum

LEMMA Regrouped ==
  ASSUME NEW a \in Nat, NEW b \in Int, NEW c \in Nat
  PROVE  (a + b) + c = a + (b + c)
OBVIOUS

LEMMA Gained ==
  ASSUME NEW r \in Nat, NEW q \in Nat, NEW e \in Nat, NEW f \in Nat, f <= e + q
  PROVE  r - e <= (r + q) - f
OBVIOUS

\* A limit spreads by what the blocks in between can gain or lose.
LEMMA Spread ==
  ASSUME PlannerInv, pc = "idle", NEW f, Waiting(f)
  PROVE  \A i, j \in f .. Len(queue) + 1 : Enter(i) <= Enter(j) + Between(i, j)
<1> DEFINE n == Len(queue)
           gains == [i \in f .. n + 1 |-> Reach[i] - Enter(i)]
           loses == [i \in f .. n + 1 |-> Reach[i] + Enter(i)]
<1>1. /\ n \in Nat /\ f \in 1 .. n /\ Minimum \in Nat
      /\ \A i \in 1 .. n : queue[i].entry \in Nat /\ queue[i].reach \in Nat
  BY QueueIs, EntriesAre DEF PlannerInv
<1>2. \A i \in f .. n + 1 : Reach[i] \in Nat /\ Enter(i) \in Nat
  <2>1. \A i \in 1 .. n + 1 : Reach[i] \in Nat
    BY ReachIs DEF PlannerInv
  <2> QED BY <2>1, <1>1 DEF Enter
<1>3. ASSUME NEW i \in f .. n
      PROVE  /\ Reach[i + 1] = Reach[i] + queue[i].reach
             /\ Enter(i) <= Enter(i + 1) + queue[i].reach
             /\ Enter(i + 1) <= Enter(i) + queue[i].reach
  <2>1. i \in 1 .. n /\ Reach[i + 1] = Reach[i] + queue[i].reach
    BY <1>1, ReachIs DEF PlannerInv
  <2>2. Waiting(i)
    <3> DEFINE T == {k \in f .. n : ~Waiting(k)}
    <3> SUFFICES ASSUME T # {} PROVE FALSE
      OBVIOUS
    <3>1. PICK x \in T : \A y \in T : x <= y
      <4>1. T \in SUBSET Nat
        BY <1>1
      <4> HIDE DEF T
      <4> QED BY <4>1, LeastNumber
    <3>2. x # f
      BY <3>1
    <3>3. x - 1 \in f .. n /\ x - 1 < n /\ (x - 1) + 1 = x /\ ~(x <= x - 1)
      BY <3>1, <3>2, <1>1
    <3>4. Waiting(x - 1)
      BY <3>1, <3>3
    <3>5. Waiting((x - 1) + 1)
      BY <3>3, <3>4, EntriesAre
    <3> QED BY <3>1, <3>3, <3>5
  <2>3. Enter(i) = queue[i].entry /\ Enter(i + 1) = EntryAfter(i)
    BY <2>1, <1>1 DEF Enter, EntryAfter
  <2> QED BY <2>1, <2>2, <2>3, EntriesAre
<1>4. \A i, j \in f .. n + 1 : i <= j => gains[i] <= gains[j] /\ loses[i] <= loses[j]
  <2>1. f \in Nat /\ n + 1 \in Nat
    BY <1>1
  <2>2. \A i \in f .. n + 1 : gains[i] \in Int /\ loses[i] \in Int
    BY <1>2
  <2>3. ASSUME NEW i \in f .. n + 1, i < n + 1
        PROVE  gains[i] <= gains[i + 1] /\ loses[i] <= loses[i + 1]
    <3>1. i \in f .. n /\ i + 1 \in f .. n + 1
      BY <1>1, <2>3
    <3>2. /\ queue[i].reach \in Nat /\ Reach[i] \in Nat /\ Enter(i) \in Nat
          /\ Reach[i + 1] \in Nat /\ Enter(i + 1) \in Nat
      BY <1>1, <1>2, <3>1
    <3>3. /\ gains[i] = Reach[i] - Enter(i) /\ gains[i + 1] = Reach[i + 1] - Enter(i + 1)
          /\ loses[i] = Reach[i] + Enter(i) /\ loses[i + 1] = Reach[i + 1] + Enter(i + 1)
      BY <3>1
    <3>4. /\ Reach[i + 1] = Reach[i] + queue[i].reach
          /\ Enter(i) <= Enter(i + 1) + queue[i].reach
          /\ Enter(i + 1) <= Enter(i) + queue[i].reach
      BY <3>1, <1>3
    <3>5. Reach[i] - Enter(i) <= Reach[i + 1] - Enter(i + 1)
      <4>1. Reach[i] - Enter(i) <= (Reach[i] + queue[i].reach) - Enter(i + 1)
        BY <3>2, <3>4, Gained
      <4> QED BY <4>1, <3>4
    <3>6. Reach[i] + Enter(i) <= Reach[i + 1] + Enter(i + 1)
      BY <3>2, <3>4
    <3> HIDE DEF gains, loses
    <3> QED BY <3>3, <3>5, <3>6
  <2> HIDE DEF gains, loses
  <2>4. \A i, j \in f .. n + 1 : i <= j => gains[i] <= gains[j]
    BY <2>1, <2>2, <2>3, Monotone
  <2>5. \A i, j \in f .. n + 1 : i <= j => loses[i] <= loses[j]
    BY <2>1, <2>2, <2>3, Monotone
  <2> QED BY <2>4, <2>5
<1> SUFFICES ASSUME NEW i \in f .. n + 1, NEW j \in f .. n + 1
             PROVE  Enter(i) <= Enter(j) + Between(i, j)
  OBVIOUS
<1>5. /\ Reach[i] \in Nat /\ Enter(i) \in Nat /\ Reach[j] \in Nat /\ Enter(j) \in Nat
  BY <1>2
<1>6. CASE i <= j
  <2>1. Reach[i] + Enter(i) <= Reach[j] + Enter(j)
    BY <1>4, <1>6
  <2>2. Between(i, j) = Reach[j] - Reach[i]
    BY <1>6 DEF Between
  <2> QED BY <2>1, <2>2, <1>5
<1>7. CASE ~(i <= j)
  <2>1. j <= i
    BY <1>7, <1>1
  <2>2. Reach[j] - Enter(j) <= Reach[i] - Enter(i)
    BY <1>4, <2>1
  <2>3. Between(i, j) = Reach[i] - Reach[j]
    BY <1>7 DEF Between
  <2> QED BY <2>2, <2>3, <1>5
<1> QED BY <1>6, <1>7

\* The limit of a block is that of its corner, or the speed before it.
LEMMA LimitIs ==
  ASSUME PlannerInv, pc = "idle", NEW i, Waiting(i)
  PROVE  /\ Limit(i) \in Nat /\ queue[i].entry <= Limit(i)
         /\ queue[i].entry = queue[i].maxEntry \/ ~Waiting(i - 1) => queue[i].entry = Limit(i)
<1>1. /\ i \in 1 .. Len(queue) /\ queue[i].entry \in Nat /\ queue[i].maxEntry \in Nat
      /\ queue[i].entry <= queue[i].maxEntry
      /\ ~Waiting(i - 1) => queue[i].entry = Arrival(i)
  BY EntriesAre, QueueIs DEF PlannerInv
<1> QED BY <1>1 DEF Limit, Least

\* What follows a block can hold it back from ahead or what precedes it from behind,
\* and the one that follows is not held back by this one then.
LEMMA NextIsAhead ==
  ASSUME PlannerInv, FastInv, pc = "idle", NEW i, Waiting(i), i < Len(queue),
         queue[i].entry = EntryAfter(i) + queue[i].reach
  PROVE  Waiting(i + 1) /\ FromAhead(i + 1)
<1>1. /\ ~flushed /\ i \in 1 .. Len(queue) /\ Waiting(i + 1)
      /\ i + 1 \in 1 .. Len(queue) /\ (i + 1) - 1 = i
  BY EntriesAre, QueueIs DEF PlannerInv
<1>2. /\ queue[i].entry \in Nat /\ queue[i].reach \in Nat /\ queue[i + 1].entry \in Nat
      /\ queue[i].reach > 0
  BY <1>1, QueueIs DEF PlannerInv, FastInv
<1>3. EntryAfter(i) = queue[i + 1].entry
  BY DEF EntryAfter
<1>4. FromBehind(i + 1) \/ FromAhead(i + 1)
  BY <1>1, QueueIs DEF FastInv, Tight, Visited, PlannerInv
<1>5. queue[i + 1].entry # queue[i].entry + queue[i].reach
  BY <1>2, <1>3
<1> QED BY <1>1, <1>4, <1>5 DEF FromBehind, FromAhead

LEMMA PreviousIsBehind ==
  ASSUME PlannerInv, FastInv, pc = "idle", NEW i, Waiting(i), Waiting(i - 1),
         queue[i].entry = queue[i - 1].entry + queue[i - 1].reach
  PROVE  FromBehind(i - 1)
<1>1. /\ ~flushed /\ i \in 1 .. Len(queue) /\ i - 1 \in 1 .. Len(queue)
      /\ (i - 1) + 1 = i /\ i - 1 < Len(queue)
  BY EntriesAre, QueueIs DEF PlannerInv
<1>2. /\ queue[i].entry \in Nat /\ queue[i - 1].reach \in Nat /\ queue[i - 1].entry \in Nat
      /\ queue[i - 1].reach > 0
  BY <1>1, QueueIs DEF PlannerInv, FastInv
<1>3. EntryAfter(i - 1) = queue[i].entry
  BY <1>1 DEF EntryAfter
<1>4. FromBehind(i - 1) \/ FromAhead(i - 1)
  BY <1>1, QueueIs DEF FastInv, Tight, Visited, PlannerInv
<1>5. queue[i - 1].entry # EntryAfter(i - 1) + queue[i - 1].reach
  BY <1>2, <1>3
<1> QED BY <1>4, <1>5 DEF FromBehind, FromAhead

\* The speed of a block that is held back from behind is that of a limit before it.
LEMMA HeldFromBehind ==
  ASSUME PlannerInv, FastInv, pc = "idle", NEW i, Waiting(i), FromBehind(i)
  PROVE  \E j \in 1 .. i : Waiting(j) /\ queue[i].entry = Limit(j) + Between(i, j)
<1> DEFINE Met(k) == \E j \in 1 .. k : Waiting(j) /\ queue[k].entry = Limit(j) + Between(k, j)
           T == {k \in 1 .. Len(queue) : Waiting(k) /\ FromBehind(k) /\ ~Met(k)}
<1>1. /\ Len(queue) \in Nat /\ i \in 1 .. Len(queue)
      /\ \A k \in 1 .. Len(queue) : Reach[k] \in Nat /\ Reach[k + 1] = Reach[k] + queue[k].reach
      /\ \A k \in 1 .. Len(queue) : queue[k].entry \in Nat /\ queue[k].reach \in Nat
  <2>1. /\ Len(queue) \in Nat /\ i \in 1 .. Len(queue)
        /\ \A k \in 1 .. Len(queue) : queue[k].entry \in Nat /\ queue[k].reach \in Nat
    BY EntriesAre, QueueIs DEF PlannerInv
  <2>2. \A k \in 1 .. Len(queue) : k \in 1 .. Len(queue) + 1
    BY <2>1
  <2> QED BY <2>1, <2>2, ReachIs DEF PlannerInv
<1> SUFFICES ASSUME T # {} PROVE FALSE
  <2>1. i \notin T
    OBVIOUS
  <2>2. Met(i)
    BY <2>1, <1>1
  <2> QED BY <2>2
<1>2. PICK x \in T : \A y \in T : x <= y
  <2>1. T \in SUBSET Nat
    BY <1>1
  <2> HIDE DEF T
  <2> QED BY <2>1, LeastNumber
<1>3. x \in 1 .. Len(queue) /\ Waiting(x) /\ FromBehind(x) /\ ~Met(x)
  OBVIOUS
<1>4. Between(x, x) = 0
  BY <1>1, <1>3 DEF Between
<1>5. queue[x].entry # Limit(x)
  <2> SUFFICES ASSUME queue[x].entry = Limit(x) PROVE Met(x)
    BY <1>3
  <2>1. x \in 1 .. x /\ queue[x].entry = Limit(x) + Between(x, x)
    BY <1>1, <1>3, <1>4
  <2> QED BY <2>1, <1>3
<1>6. Waiting(x - 1) /\ queue[x].entry = queue[x - 1].entry + queue[x - 1].reach
  BY <1>3, <1>5, LimitIs DEF FromBehind
<1>7. FromBehind(x - 1) /\ x - 1 \in 1 .. Len(queue) /\ ~(x <= x - 1)
  BY <1>1, <1>3, <1>6, PreviousIsBehind, EntriesAre
<1>8. Met(x - 1)
  BY <1>2, <1>6, <1>7
<1>9. PICK j \in 1 .. x - 1 : Waiting(j) /\ queue[x - 1].entry = Limit(j) + Between(x - 1, j)
  BY <1>8
<1>10. Between(x, j) = Between(x - 1, j) + queue[x - 1].reach
  <2>1. /\ j \in 1 .. Len(queue) /\ ~(x <= j) /\ (x - 1) + 1 = x
    BY <1>1, <1>7, <1>9
  <2>2. /\ Reach[x] = Reach[x - 1] + queue[x - 1].reach
        /\ Reach[x - 1] \in Nat /\ Reach[j] \in Nat /\ queue[x - 1].reach \in Nat
    BY <2>1, <1>1, <1>7
  <2>3. Between(x, j) = Reach[x] - Reach[j]
    BY <2>1 DEF Between
  <2>4. Between(x - 1, j) = Reach[x - 1] - Reach[j]
    <3>1. x - 1 <= j => x - 1 = j
      BY <1>9, <1>7
    <3> QED BY <3>1, <2>2 DEF Between
  <2> QED BY <2>2, <2>3, <2>4
<1>11. Met(x)
  <2>1. /\ j \in 1 .. x /\ Limit(j) \in Nat /\ queue[x - 1].reach \in Nat
    BY <1>1, <1>3, <1>7, <1>9, LimitIs
  <2>2. Between(x - 1, j) \in Int
    BY <1>1, <1>7, <1>9 DEF Between
  <2>3. queue[x].entry = Limit(j) + Between(x, j)
    BY <2>1, <2>2, <1>6, <1>9, <1>10
  <2> QED BY <2>1, <2>3, <1>9
<1> QED BY <1>3, <1>11

\* The speed of a block that is held back from ahead is that of a limit after it.
LEMMA HeldFromAhead ==
  ASSUME PlannerInv, FastInv, pc = "idle", NEW i, Waiting(i), FromAhead(i)
  PROVE  \/ \E j \in i .. Len(queue) : Waiting(j) /\ queue[i].entry = Limit(j) + Between(i, j)
         \/ queue[i].entry = Minimum + Between(i, Len(queue) + 1)
<1> DEFINE n == Len(queue)
           Met(k) == \/ \E j \in k .. n : Waiting(j) /\ queue[k].entry = Limit(j) + Between(k, j)
                     \/ queue[k].entry = Minimum + Between(k, n + 1)
           T == {k \in 1 .. n : Waiting(k) /\ FromAhead(k) /\ ~Met(k)}
<1>1. /\ n \in Nat /\ i \in 1 .. n /\ Minimum \in Nat
      /\ \A k \in 1 .. n : Reach[k + 1] = Reach[k] + queue[k].reach
      /\ \A k \in 1 .. n + 1 : Reach[k] \in Nat
      /\ \A k \in 1 .. n : queue[k].entry \in Nat /\ queue[k].reach \in Nat
  BY EntriesAre, QueueIs, ReachIs DEF PlannerInv
<1> SUFFICES ASSUME T # {} PROVE FALSE
  <2>1. i \notin T
    OBVIOUS
  <2>2. Met(i)
    BY <2>1, <1>1
  <2> QED BY <2>2
<1>2. PICK x \in T : \A y \in T : y <= x
  <2>1. T \in SUBSET (1 .. n)
    OBVIOUS
  <2> HIDE DEF T
  <2> QED BY <2>1, <1>1, LargestNumber
<1>3. x \in 1 .. n /\ Waiting(x) /\ FromAhead(x) /\ ~Met(x)
  OBVIOUS
<1>4. Between(x, x) = 0
  BY <1>1, <1>3 DEF Between
<1>5. queue[x].entry # queue[x].maxEntry
  <2> SUFFICES ASSUME queue[x].entry = queue[x].maxEntry PROVE Met(x)
    BY <1>3
  <2>1. x \in x .. n /\ queue[x].entry = Limit(x) + Between(x, x)
    BY <1>1, <1>3, <1>4, LimitIs
  <2> QED BY <2>1, <1>3
<1>6. queue[x].entry = EntryAfter(x) + queue[x].reach
  BY <1>3, <1>5 DEF FromAhead
<1>7. ASSUME NEW j \in x + 1 .. n + 1
      PROVE  Between(x, j) = Between(x + 1, j) + queue[x].reach /\ Between(x + 1, j) \in Int
  <2>1. x <= j /\ x + 1 <= j /\ x + 1 \in 1 .. n + 1 /\ x \in 1 .. n + 1 /\ j \in 1 .. n + 1
    BY <1>1, <1>3
  <2>2. Between(x, j) = Reach[j] - Reach[x] /\ Between(x + 1, j) = Reach[j] - Reach[x + 1]
    BY <2>1 DEF Between
  <2>3. /\ Reach[x + 1] = Reach[x] + queue[x].reach /\ queue[x].reach \in Nat
        /\ Reach[x] \in Nat /\ Reach[j] \in Nat
    BY <2>1, <1>1, <1>3
  <2> QED BY <2>2, <2>3
<1>8. CASE x = n
  <2>1. EntryAfter(x) = Minimum
    BY <1>8, <1>1 DEF EntryAfter
  <2>2. n + 1 \in x + 1 .. n + 1 /\ x + 1 = n + 1
    BY <1>8, <1>1
  <2>3. Between(n + 1, n + 1) = 0
    <3>1. n + 1 <= n + 1 /\ Reach[n + 1] \in Nat
      BY <1>1
    <3> QED BY <3>1 DEF Between
  <2>4. Between(x, n + 1) = queue[x].reach /\ queue[x].reach \in Nat
    BY <2>2, <2>3, <1>7, <1>1, <1>3
  <2> QED BY <2>1, <2>4, <1>3, <1>6
<1>9. CASE x # n
  <2>1. x < n /\ x + 1 \in 1 .. n /\ ~(x + 1 <= x)
    BY <1>9, <1>1, <1>3
  <2>2. Waiting(x + 1) /\ FromAhead(x + 1)
    BY <2>1, <1>3, <1>6, NextIsAhead
  <2>3. Met(x + 1)
    BY <2>1, <2>2, <1>2
  <2>4. /\ EntryAfter(x) = queue[x + 1].entry /\ queue[x].reach \in Nat
        /\ queue[x + 1].entry \in Nat
    BY <2>1, <1>1, <1>3 DEF EntryAfter
  <2>5. CASE queue[x + 1].entry = Minimum + Between(x + 1, n + 1)
    <3>1. n + 1 \in x + 1 .. n + 1
      BY <1>1, <1>3
    <3>2. Between(x, n + 1) = Between(x + 1, n + 1) + queue[x].reach /\ Between(x + 1, n + 1) \in Int
      BY <3>1, <1>7
    <3>3. queue[x].entry = Minimum + Between(x, n + 1)
      <4>1. queue[x].entry = (Minimum + Between(x + 1, n + 1)) + queue[x].reach
        BY <2>4, <2>5, <1>6
      <4>2. queue[x].entry = Minimum + (Between(x + 1, n + 1) + queue[x].reach)
        BY <4>1, <3>2, <2>4, <1>1, Regrouped
      <4> QED BY <4>2, <3>2
    <3> QED BY <3>3, <1>3
  <2>6. CASE \E j \in x + 1 .. n : Waiting(j) /\ queue[x + 1].entry = Limit(j) + Between(x + 1, j)
    <3>1. PICK j \in x + 1 .. n : Waiting(j) /\ queue[x + 1].entry = Limit(j) + Between(x + 1, j)
      BY <2>6
    <3>2. j \in x + 1 .. n + 1 /\ j \in x .. n /\ Limit(j) \in Nat
      BY <1>1, <1>3, <3>1, LimitIs
    <3>3. Between(x, j) = Between(x + 1, j) + queue[x].reach /\ Between(x + 1, j) \in Int
      BY <3>2, <1>7
    <3>4. queue[x].entry = Limit(j) + Between(x, j)
      BY <3>1, <3>2, <3>3, <2>4, <1>6
    <3> QED BY <3>1, <3>2, <3>4, <1>3
  <2> QED BY <2>3, <2>5, <2>6
<1> QED BY <1>8, <1>9

\* Every waiting block starts at the least of the limits.
LEMMA StartsAtFastest ==
  ASSUME PlannerInv, FastInv, pc = "idle", NEW i, Waiting(i)
  PROVE  queue[i].initial = FastestEntry(i)
<1> DEFINE n == Len(queue)
           v == queue[i].entry
<1>1. /\ n \in Nat /\ i \in 1 .. n /\ Minimum \in Nat /\ v \in Nat /\ ~flushed
      /\ queue[i].initial = v /\ DOMAIN queue = 1 .. n
      /\ \A k : Waiting(k) => k \in 1 .. n
      /\ \A k \in 1 .. n + 1 : Reach[k] \in Nat
  BY EntriesAre, QueueIs, ReachIs, BlocksOf DEF PlannerInv, TypeInv
<1>2. \A w \in Limits(i) : (\E j \in 1 .. n : Waiting(j) /\ w = Limit(j) + Between(i, j))
                           \/ w = Minimum + Between(i, n + 1)
  BY DEF Limits
<1>3. \A j \in 1 .. n : Waiting(j) => Limit(j) + Between(i, j) \in Limits(i)
  BY <1>1 DEF Limits
<1>4. Minimum + Between(i, n + 1) \in Limits(i)
  BY DEF Limits
<1>5. \A j \in 1 .. n + 1 : Between(i, j) \in Int
  BY <1>1 DEF Between
<1>6. v \in Limits(i)
  <2>1. FromBehind(i) \/ FromAhead(i)
    BY <1>1 DEF FastInv, Tight, Visited
  <2>2. CASE FromBehind(i)
    <3>1. PICK j \in 1 .. i : Waiting(j) /\ v = Limit(j) + Between(i, j)
      BY <2>2, HeldFromBehind
    <3> QED BY <3>1, <1>1, <1>3
  <2>3. CASE FromAhead(i)
    <3>1. \/ \E j \in i .. n : Waiting(j) /\ v = Limit(j) + Between(i, j)
          \/ v = Minimum + Between(i, n + 1)
      BY <2>3, HeldFromAhead
    <3> QED BY <3>1, <1>1, <1>3, <1>4
  <2> QED BY <2>1, <2>2, <2>3
<1>7. \A w \in Limits(i) : w \in Int /\ v <= w
  <2>1. ASSUME NEW j \in 1 .. n, Waiting(j)
        PROVE  Limit(j) + Between(i, j) \in Int /\ v <= Limit(j) + Between(i, j)
    <3>1. /\ Limit(j) \in Nat /\ Between(i, j) \in Int /\ queue[j].entry \in Nat
          /\ queue[j].entry <= Limit(j)
      BY <1>1, <1>5, <2>1, LimitIs, QueueIs DEF PlannerInv
    <3>2. v <= queue[j].entry + Between(i, j)
      <4>1. Enter(i) = v /\ Enter(j) = queue[j].entry
        BY <1>1 DEF Enter
      <4>2. CASE i <= j
        <5>1. i \in i .. n + 1 /\ j \in i .. n + 1
          BY <1>1, <4>2
        <5> QED BY <5>1, <4>1, Spread
      <4>3. CASE ~(i <= j)
        <5>1. i \in j .. n + 1 /\ j \in j .. n + 1
          BY <1>1, <4>3
        <5> QED BY <5>1, <4>1, <2>1, Spread
      <4> QED BY <4>2, <4>3
    <3> QED BY <3>1, <3>2, <1>1
  <2>2. Minimum + Between(i, n + 1) \in Int /\ v <= Minimum + Between(i, n + 1)
    <3>1. Enter(i) = v /\ Enter(n + 1) = Minimum
      BY <1>1 DEF Enter
    <3>2. i \in i .. n + 1 /\ n + 1 \in i .. n + 1 /\ n + 1 \in 1 .. n + 1
      BY <1>1
    <3>3. Enter(i) <= Enter(n + 1) + Between(i, n + 1)
      BY <3>2, Spread
    <3> QED BY <3>1, <3>2, <3>3, <1>1, <1>5
  <2> QED BY <2>1, <2>2, <1>2
<1>8. v = CHOOSE u \in Limits(i) : \A w \in Limits(i) : u <= w
  <2> HIDE DEF v
  <2> DEFINE c == CHOOSE u \in Limits(i) : \A w \in Limits(i) : u <= w
  <2>1. c \in Limits(i) /\ \A w \in Limits(i) : c <= w
    BY <1>6, <1>7
  <2> HIDE DEF c
  <2>2. c <= v /\ v <= c /\ c \in Int /\ v \in Int
    BY <2>1, <1>6, <1>7
  <2>3. v = c
    BY <2>2
  <2> QED BY <2>3 DEF c
<1> QED BY <1>1, <1>8 DEF FastestEntry

LEMMA FastKept ==
  ASSUME MinimumIsLowest, PlannerInv, FastInv, [Next]_vars, ~raced'
  PROVE  FastInv'
<1>1. PlannerInv'
  BY NextKeeps
<1>2. CASE UNCHANGED vars
  <2>1. queue' = queue /\ done' = done /\ pc' = pc /\ at' = at /\ flushed' = flushed
    BY <1>2 DEF vars
  <2>2. Visited' = Visited /\ Tight' = Tight
    BY <2>1 DEF Visited, Tight, Behind
  <2>3. \A i : /\ Waiting(i)' <=> Waiting(i)
               /\ FromBehind(i)' <=> FromBehind(i)
               /\ FromAhead(i)' <=> FromAhead(i)
    BY <2>1 DEF Waiting, FromBehind, FromAhead, EntryAfter
  <2> QED BY <2>1, <2>2, <2>3 DEF FastInv
<1>3. CASE Next
  BY <1>1, <1>3, AppendKeepsFast, ReversePassStep, ReverseEndKeepsFast, ForwardPassStep,
     TrapezoidsKeepFast, InterruptKeepsFast, FlushKeepsFast, CollectKeepsFast DEF Next
<1> QED BY <1>2, <1>3

\* Until what runs overtakes the planner, the plan is the fastest that the corners, the acceleration, the running block and the
\* end of the queue allow, although recalculate() visits only the blocks that were
\* limited by the end of the queue before.
THEOREM PlanStaysFastest ==
  ASSUME MinimumIsLowest
  PROVE  Spec => []PlanIsFastest
<1>1. Init => FastInv
  <2> SUFFICES ASSUME Init PROVE FastInv
    OBVIOUS
  <2>1. Len(queue) = 0
    <3>1. Len(<<>>) = 0
      BY EmptySeq
    <3> QED BY <3>1 DEF Init
  <2> QED BY <2>1 DEF FastInv
<1>2. (raced \/ FastInv) /\ PlanStands /\ [Next]_vars => (raced \/ FastInv)'
  <2> SUFFICES ASSUME raced \/ FastInv, PlanStands, [Next]_vars, ~raced' PROVE FastInv'
    OBVIOUS
  <2>1. CASE raced
    <3>1. Len(queue') = 0
      BY <2>1, EmptyAgain DEF PlanStands
    <3> QED BY <3>1 DEF FastInv
  <2>2. CASE ~raced
    BY <2>2, FastKept DEF PlanStands
  <2> QED BY <2>1, <2>2
<1>3. (raced \/ FastInv) /\ PlanStands => PlanIsFastest
  BY StartsAtFastest DEF PlanIsFastest, PlanStands
<1> QED BY <1>1, <1>2, <1>3, PlannerInvariant, PTL DEF Spec

=============================================================================
