SPECIFICATION Spec
CONSTANTS
 m1=m1
 m2=m2
 Motors={m1, m2}
 Length=3
 MoveSet <- TwoMotors
 MaxBlocks=3
 MaxOwed=8
 Commands={"move", "wait", "abort", "kill"}
 LimitSwitches=TRUE
INVARIANTS RingOrder RunningBlockOwned
PROPERTIES UntornUntouched WaitMeansStopped ImplementsMoveQueue
