\* Two networks, one of them in conflict, two starts.
CONSTANTS
    n1 = n1
    n2 = n2
    s1 = s1
    Networks = {n1, n2}
    Conflicts = {n2}
    Sockets = {s1}
    MaxBlock = 1
    MaxStarts = 2
    MaxLag = 2
    MaxSignals = 1
    FaultKinds = {"db", "peer", "kill", "child"}
    MaxFaults = 1
SPECIFICATION FairSpec
INVARIANT TypeOK
INVARIANT RowsSingle
INVARIANT NotificationsExact
PROPERTY ShutdownEndsAll
PROPERTY ConflictStopsExplorer
CHECK_DEADLOCK FALSE
