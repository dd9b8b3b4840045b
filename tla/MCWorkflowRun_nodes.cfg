SPECIFICATION Spec
CONSTANTS
 p1 = p1
 p2 = p2
 Pods <- PodNames
 StepCount = 2
 Gates = {1,2}
 MaxAttempts = 2
 MaxClaims = 3
 MaxCalls = 2
 Faults = {"crash","shutdown","silence","error","record","call"}
SYMMETRY Symmetry
INVARIANT StepsUnderLease
INVARIANT NodesEndWithRun
PROPERTY DecisionIsActedOn
PROPERTY RunLifecycleSpec
CHECK_DEADLOCK FALSE
