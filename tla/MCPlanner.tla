------------------------------ MODULE MCPlanner ------------------------------
(* Values for the constants of Planner, speeds and reaches as squares.       *)
EXTENDS Planner

\* A short slow move, a short fast one, a long one that reaches its speed.
MixedMoves ==
  {[nominal |-> 2, reach |-> 1], [nominal |-> 5, reach |-> 2], [nominal |-> 4, reach |-> 6]}

\* Once what runs has overtaken the planner, the next moves come when the ring has
\* room, and what follows is checked again from the next empty queue on.
ShortRace == raced => Len(queue) < Length
=============================================================================
