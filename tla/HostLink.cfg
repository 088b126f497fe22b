SPECIFICATION FairSpec
CONSTANTS
 RingSize = 8
 CountBits = 3
 CharDuringStore = FALSE
 MaxTroubles = 2
 Program <- Upload
 Setup <- Recover
 Ending <- LF
 Window = 2
 Damage = {"sum", "start", "end"}
 Requests <- Anything
INVARIANTS ExecutedAsMeant SetupFits LinesCounted
PROPERTIES ImplementsNumberedLines StopIsObeyed JobIsDone
