SPECIFICATION Spec
CONSTANTS
 c1 = c1
 c2 = c2
 l1 = l1
 Base = Base
 None = None
 Calls = {c1, c2}
 Logins = {l1}
 Faults = {"crash","lapse","redis","mongo","silence","forget"}
SYMMETRY Symmetry
INVARIANT StoredIsHonoured
PROPERTY RefreshContinuesStored
CHECK_DEADLOCK FALSE
