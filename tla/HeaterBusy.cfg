SPECIFICATION Spec
CONSTANTS
 Degree=1
 Readings={20, 200}
 Targets={0, 200}
 Preset1=0
 Preset2=0
 MaxTemp=300
 MinTemp=0
 Hysteresis=2
 BangBang=FALSE
 ErrorRange=10
 RunawayRange=20
 HeatingTimeout=2
 CoolingTimeout=1
 TimerSize=4
 Commands={"M104", "kill"}
 QueueBusy=TRUE
INVARIANTS HaltedMeansOff
