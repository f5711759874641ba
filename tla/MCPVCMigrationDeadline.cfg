SPECIFICATION Spec
CONSTANTS
    m1 = m1
    n0 = n0
    n1 = n1
    p0 = p0
    t1 = t1
    Migration = {m1}
    Origin = p0
    Node = {n0, n1}
    Home = n0
    Template = {t1}
    Deletable = {}
    Faults = {"refused"}
    MaxFaults = 0
    MaxDBFaults = 0
    MaxDeadlines = 1
    MaxCrashes = 0
    MaxReleases = 0
    MaxWrites = 2
PROPERTY RestoredOnFailure
CHECK_DEADLOCK FALSE
