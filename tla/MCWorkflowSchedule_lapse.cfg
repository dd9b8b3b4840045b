SPECIFICATION FairSpec
CONSTANTS
 w1 = w1
 w2 = w2
 Workers <- WorkerNames
 Crons = {1,2}
 Lease = 2
 Slots = 1
 Backlog = 2
 Faults = {"silence","error"}
 MaxClaims = 2
 MaxCalls = 2
 LastStart = 5
 Horizon = 7
INVARIANT OneRunPerOccurrence
PROPERTY AbandonedClaimComesBack
CHECK_DEADLOCK FALSE
