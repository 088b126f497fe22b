\* Everything a host may send, the kill button and limit switches.
SPECIFICATION FairSpec
CONSTANTS
 FileLines <- File
 AfterSuspend = "move"
 BeforeResume = "move"
 SuspendLoops = 2
 MaxStates = 1
 Commands = {"move", "mode", "M120", "M121", "G28", "play", "abort", "suspend", "resume",
             "M23", "M24", "M25", "M26", "M32", "halt", "M999", "kill"}
 LimitSwitches = TRUE
 Careless = FALSE
INVARIANTS TypeOK ResumeRestores SuspendIsPopped
PROPERTIES HaltEndsPrint SuspendEnds
