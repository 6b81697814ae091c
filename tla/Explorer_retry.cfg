\* The database does not answer the first connection.
CONSTANTS
    n1 = n1
    s1 = s1
    Networks = {n1}
    Conflicts = {}
    Sockets = {s1}
    MaxBlock = 1
    MaxStarts = 2
    MaxLag = 2
    MaxSignals = 0
    FaultKinds = {"db"}
    MaxFaults = 1
SPECIFICATION FairSpec
PROPERTY RetryReconnects
CHECK_DEADLOCK FALSE
