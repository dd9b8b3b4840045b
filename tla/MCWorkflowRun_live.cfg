SPECIFICATION FairSpec
CONSTANTS
 p1 = p1
 p2 = p2
 Pods <- PodNames
 StepCount = 2
 Gates = {}
 MaxAttempts = 1
 MaxClaims = 1
 MaxCalls = 3
 Faults = {"crash","silence","error","sync","finalize","call"}
PROPERTY CancelIsNeverErased
PROPERTY CancelStopsRun
PROPERTY ResumeWakesRun
CHECK_DEADLOCK FALSE
