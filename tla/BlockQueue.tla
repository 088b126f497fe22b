----------------------------- MODULE BlockQueue -----------------------------
(***************************************************************************)
(* The index arithmetic of the ring of blocks (BlockQueue.cpp).  One array *)
(* of Length blocks is shared by three indices; head_i = tail_i means      *)
(* empty, so the ring holds at most Length - 1 blocks.                     *)
(***************************************************************************)
EXTENDS Integers

CONSTANT Length          \* blocks in the ring (planner_queue_size)

\* A ring of one block is full and empty at once, so start() needs two.
ASSUME LengthAssumption == Length \in Nat /\ Length >= 2

Index == 0 .. Length - 1

NextIndex(i) == IF i + 1 >= Length THEN 0 ELSE i + 1
PrevIndex(i) == IF i = 0 THEN Length - 1 ELSE i - 1

IsEmpty(h, t) == h = t
IsFull(h, t)  == NextIndex(h) = t

\* Calls of NextIndex that take a to b.
Dist(a, b) == IF a <= b THEN b - a ELSE b - a + Length

\* Indices met by walking forward from a, b excluded.
Span(a, b) == {i \in Index : Dist(a, i) < Dist(a, b)}

\* Walking forward from a, b is met no later than c.
Ordered(a, b, c) == Dist(a, b) + Dist(b, c) = Dist(a, c)
=============================================================================
