SPECIFICATION Spec
CONSTANTS
 p1 = p1
 p2 = p2
 j1 = j1
 j2 = j2
 Pods <- PodNames
 Collectors = {p1}
 Jobs <- JobNames
 Writers = {}
 Faults = {"lapse","error","build"}
 MaxAttempts = 2
 MaxVersion = 1
 MaxFaults = 1
SYMMETRY JobSymmetry
INVARIANT TypeOK
INVARIANT OneWinner
INVARIANT ServedGenerationExists
CHECK_DEADLOCK FALSE
