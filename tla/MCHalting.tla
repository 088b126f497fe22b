----------------------------- MODULE MCHalting ------------------------------
(* Values for the constants of Halting.                                      *)
EXTENDS Halting

OneApproach == <<Axes>>
XThenZ == <<{1}, {2}>>

OneAxisJogs == {[m \in Axes |-> 2], [m \in Axes |-> -2]}
XJogs == {[m \in Axes |-> IF m = 1 THEN 3 ELSE 0], [m \in Axes |-> IF m = 1 THEN -3 ELSE 0]}
=============================================================================
