SPECIFICATION FairSpec
CONSTANTS
 w1 = w1
 w2 = w2
 c1 = c1
 Tasks <- TaskSlots
 Callers = {c1}
 Contents = {"v1","v2"}
 Markers = {1,2,3,4,5,6,7}
 Faults = {"crash","shutdown","silence","lapse","error"}
 MaxWrites = 2
 MaxFaults = 1
INVARIANT TypeOK
INVARIANT VectorsFollowDocument
PROPERTY ChangesAreSynced
PROPERTY OrphansAreSwept
CHECK_DEADLOCK FALSE
