SPECIFICATION MCSpec
CONSTANTS
    Parts = {"issuance", "metrics", "components", "addons", "cluster", "runtimes", "chain", "mirrors", "managed", "catalog", "proxies", "platform", "endpoint", "webhook"}
    Charts = {"coredns"}
    Slots = {s1, s2}
    None = None
    Deliveries = {1}
    Skew = 1
    TTL = 3
    Prefixes = {"p", "q"}
    DefaultImagePrefix = "p"
    MaxTime = 4
    MaxKeys = 2
    MaxReceipts = 3
    MaxFailures = 1
    Handlers = {s1, s2}
    Null = None
    Nodes = {n1, n2}
    ControlPlane = {n1}
    Pods = {p1, p2, p3}
    Kind <- PodKinds
    Hosts = {n1, n2}
    Home = n1
    Callers = {s1, s2}
    Missing = None
    MaxSamples = 1
    MaxReceived = 3
    MaxBroken = 1
    Servers = {v1}
    Host <- ServerNodes
    MaxRequests = 3
    MaxFaults = 2
    a1 = a1
    a2 = a2
    h1 = h1
    k1 = k1
    n1 = n1
    n2 = n2
    p1 = p1
    p2 = p2
    p3 = p3
    r1 = r1
    r2 = r2
    v1 = v1
    v2 = v2
SYMMETRY Symmetry
CONSTRAINTS Bounds FirstNames
INVARIANTS MetricsKept   
      DeliveredOnce
 
CHECK_DEADLOCK FALSE
