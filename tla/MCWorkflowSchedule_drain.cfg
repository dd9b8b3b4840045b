SPECIFICATION Spec
CONSTANTS
 w1 = w1
 w2 = w2
 Workers <- WorkerNames
 Crons = {1,2}
 Lease = 2
 Slots = 1
 Backlog = 2
 Faults = {"crash","shutdown","lateCommit"}
 MaxClaims = 2
 MaxCalls = 2
 LastStart = 5
 Horizon = 5
SYMMETRY WorkerSymmetry
INVARIANT NoUninvitedOverlap
INVARIANT EndedTaskLetsGo
PROPERTY NoRunOfDisabledWorkflow
CHECK_DEADLOCK FALSE
