----------------------------- MODULE MoveQueue ------------------------------
(***************************************************************************)
(* What the planner, the conveyor and the step ticker promise together,    *)
(* without the ring, the flags or the thread: every planned block is run at *)
(* most once, in the order of planning, one at a time, and blocks leave    *)
(* the queue otherwise only all at once, when somebody asked for a halt or *)
(* a flush.  MotionQueue implements this module.                           *)
(***************************************************************************)
EXTENDS Naturals, Sequences

CONSTANT None             \* no block

VARIABLES
  issued,                 \* blocks planned so far; blocks are named 1, 2, ...
  pending,                \* the block planned and not yet queued, or None
  queue,                  \* the queued blocks, the running one first
  running,                \* the block being stepped, or None
  drop                    \* a halt or a flush has been asked for

mqVars == <<issued, pending, queue, running, drop>>

Init ==
  /\ issued = 0 /\ pending = None
  /\ queue = <<>> /\ running = None /\ drop = FALSE

Plan ==
  /\ pending = None
  /\ issued' = issued + 1 /\ pending' = issued'
  /\ UNCHANGED <<queue, running, drop>>

Enqueue ==
  /\ pending # None
  /\ queue' = Append(queue, pending) /\ pending' = None
  /\ UNCHANGED <<issued, running, drop>>

\* After a halt the planned block is given up.
Refuse ==
  /\ pending # None /\ drop
  /\ pending' = None
  /\ UNCHANGED <<issued, queue, running, drop>>

Start ==
  /\ running = None /\ queue # <<>>
  /\ running' = Head(queue)
  /\ UNCHANGED <<issued, pending, queue, drop>>

\* The first block is done, and the next one may start at once.  A block of a
\* single step can start and be done at once.
Retire ==
  /\ queue # <<>>
  /\ queue' = Tail(queue)
  /\ running' \in {None} \cup (IF queue' = <<>> THEN {} ELSE {Head(queue')})
  /\ UNCHANGED <<issued, pending, drop>>

Drop ==
  /\ drop
  /\ queue' = <<>> /\ running' = None
  /\ drop' \in BOOLEAN
  /\ UNCHANGED <<issued, pending>>

Request ==
  /\ drop' \in BOOLEAN
  /\ UNCHANGED <<issued, pending, queue, running>>

Next == Plan \/ Enqueue \/ Refuse \/ Start \/ Retire \/ Drop \/ Request

Spec == Init /\ [][Next]_mqVars
=============================================================================
