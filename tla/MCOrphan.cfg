CONSTANTS
    t1 = t1
    t2 = t2
    Tasks = {t1, t2}
    Lifetime = 2
    Margin = 1
    Grants = {"refreshable"}
    MaxClients = 3
SPECIFICATION Spec
CHECK_DEADLOCK FALSE
INVARIANT NoOrphan
