SPECIFICATION Spec
CONSTANTS
 Motors = 2
 kill_button_enable = FALSE
 unkill_enable = TRUE
 toggle_enable = FALSE
 TwoSeconds = 2
 TimerBits = 2
 Polls = 2
 SlowThread = FALSE
 LimitAxes = {1}
 Approaches <- XThenZ
 max_travel = 8
 retract = 7
 debounce_ms = 1
 Bounce = 1
 Nowhere = Nowhere
 FastSteps = 2
 TickDuringStore = FALSE
 Start = {4}
 Length = 8
 Jogs <- XJogs
 Hasty = FALSE
INVARIANTS HomedIsTrue PositionKept
