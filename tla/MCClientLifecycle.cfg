CONSTANTS
    t1 = t1
    t2 = t2
    Tasks = {t1, t2}
    Lifetime = 2
    Margin = 1
    Grants = {"refreshable", "plain"}
    MaxClients = 3
SPECIFICATION FairSpec
CHECK_DEADLOCK FALSE
INVARIANTS TypeOK HandshakenFirst ClosedIsBeingForgotten FailedClientForgotten NoOrphanAlone
PROPERTIES ReturnsWithToken RefreshableRenewedInTime EveryTaskEnds
