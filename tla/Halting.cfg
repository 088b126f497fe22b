SPECIFICATION FairSpec
CONSTANTS
 Motors = 1
 kill_button_enable = TRUE
 unkill_enable = TRUE
 toggle_enable = FALSE
 TwoSeconds = 2
 TimerBits = 2
 Polls = 2
 SlowThread = FALSE
 LimitAxes = {1}
 Approaches <- OneApproach
 max_travel = 3
 retract = 2
 debounce_ms = 0
 Bounce = 0
 Nowhere = Nowhere
 FastSteps = 1
 TickDuringStore = FALSE
 Start = {2}
 Length = 3
 Jogs <- OneAxisJogs
 Hasty = FALSE
PROPERTIES UnkillNeedsHold PressHalts LimitIsTold
