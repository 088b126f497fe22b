SPECIFICATION Spec
CONSTANTS
 m1=m1
 m2=m2
 Motors={m1}
 Length=4
 MoveSet <- OneStep
 MaxBlocks=4
 MaxOwed=8
 Commands={"jog", "move", "wait", "halt", "abort", "kill"}
 LimitSwitches=TRUE
INVARIANTS BreakNotReached  HoldOnlyWhenStopped
