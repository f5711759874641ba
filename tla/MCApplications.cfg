SPECIFICATION MCSpec
CONSTANTS
    Parts = {"releases", "rollbacks", "workspace", "templates", "resources", "domains", "editor", "integration"}
    ReleaseId = {1, 2}
    Request = {q1, q2}
    Image = {i1, i2}
    Template = {t1}
    MaxDBFaults = 1
    MaxCrashes = 1
    None = None
    Serial = {1, 2, 3}
    SerialFaults = 0
    SerialCrashes = 0
    Apps = {a1, a2}
    EnvironmentOf <- AppEnvironments
    ProjectOf <- AppProjects
    Capabilities = {"c"}
    Contents = {"x", "y"}
    Sessions = {"i"}
    ConsoleRequests = 4
    MaxTokens = 2
    a1 = a1
    a2 = a2
    e1 = e1
    e2 = e2
    h1 = h1
    h2 = h2
    i1 = i1
    k1 = k1
    n1 = n1
    n2 = n2
    p1 = p1
    p2 = p2
    r1 = r1
SYMMETRY Symmetry
CONSTRAINT Bounds
INVARIANTS SequenceDense OperationsMatchStatus SoloSuccess 
    WorkspaceReferences   ConsoleSessions
PROPERTIES ReleaseImmutable StatusMachine 
CHECK_DEADLOCK FALSE
