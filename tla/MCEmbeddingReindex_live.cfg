SPECIFICATION FairSpec
CONSTANTS
 p1 = p1
 p2 = p2
 j1 = j1
 j2 = j2
 Pods <- PodNames
 Collectors = {}
 Jobs = {j1}
 Writers = {"w1"}
 Faults = {"lapse","crash","stall"}
 MaxAttempts = 1
 MaxVersion = 2
 MaxFaults = 2
INVARIANT ActiveGenerationFollows
PROPERTY SwitchIsComplete
PROPERTY WritesResume
PROPERTY ChangesAreSynced
CHECK_DEADLOCK FALSE
