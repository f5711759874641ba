SPECIFICATION MCSpec
CONSTANTS
    Parts = {"migration", "releases", "mirrors"}
    ReleaseId = {1, 2}
    Request = {1, 2}
    Image = {i1}
    None = None
    m2 = m2
    n2 = n2
    s1 = s1
    s2 = s2
    m1 = m1
    t1 = t1
    n1 = n1
    Migration = {m1}
    Origin = p0
    Node = {n0, n1}
    Home = n0
    Template = {t1, t2}
    Deletable = {}
    Faults = {"refused"}
    MaxFaults = 2
    MaxDBFaults = 1
    MaxDeadlines = 1
    MaxCrashes = 1
    MaxReleases = 0
    MaxWrites = 2
CONSTRAINT InOrder
INVARIANT CopyComplete
PROPERTY MovedOrRestored
PROPERTY ApplicationComesBack
PROPERTY ExecutionEnds
PROPERTY ApplyFinishes
CHECK_DEADLOCK FALSE
