SPECIFICATION FairSpec
CONSTANTS
 m1=m1
 m2=m2
 Motors={m1}
 Length=3
 MoveSet <- TwoSteps
 MaxBlocks=3
 MaxOwed=8
 Commands={"move", "wait", "abort"}
 LimitSwitches=FALSE
PROPERTIES QueueHeadReturns WaitReturns QueueDrains
