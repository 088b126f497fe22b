SPECIFICATION FairSpec
CONSTANTS
 Degree=1
 Readings={20, 195, 9999}
 Targets={0, 1, 200}
 Preset1=60
 Preset2=0
 MaxTemp=300
 MinTemp=0
 Hysteresis=2
 BangBang=TRUE
 ErrorRange=5
 RunawayRange=20
 HeatingTimeout=2
 CoolingTimeout=1
 TimerSize=4
 Commands={"M109", "set", "kill"}
 QueueBusy=TRUE
INVARIANTS HaltTurnsOff Supervised
PROPERTIES WaitEndsHot BadReadingHalts HeatingEnds RunawayHalts
