\* TIMER0 anywhere in recalculate(), halts and flushes included.
SPECIFICATION Spec
CONSTANTS
 Moves <- MixedMoves
 Junctions = {1, 9}
 Minimum = 0
 Length = 4
INVARIANTS SpeedIsContinuous TrapezoidFeasible PlanIsFastest
PROPERTIES StartsAtMachineSpeed
CONSTRAINT ShortRace
