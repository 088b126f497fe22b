--------------------------- MODULE MCMotionQueue ---------------------------
(* Values for the constants of MotionQueue.                                *)
EXTENDS MotionQueue

CONSTANTS m1, m2

\* One axis moves by two steps, or by one.
TwoSteps == {[m \in Motors |-> 2]}
OneStep  == {[m \in Motors |-> 1]}

\* Two axes together; which of the two takes its step first is open.
TwoMotors == {[m \in Motors |-> 1]}
=============================================================================
