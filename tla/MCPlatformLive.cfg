SPECIFICATION MCSpec
CONSTANTS
    Parts = {"platform", "dashboard", "terminal"}
    None = None
    Gets = {g1, g2, g3}
    Lists = {"nodes", "pods"}
    Sizes = {1, 2}
    Default = 0
    MaxFrames = 3
    MaxOutput = 2
    MaxId = 2
    Image = {i1, i2}
    BadImage = {i2}
    Request = {q1}
    Task = task
    Faults = {"refused", "lost"}
    MaxFaults = 1
    MaxDBFaults = 0
    MaxCrashes = 1
CONSTRAINT OneTrouble
INVARIANTS SharedApart DeploymentRecorded SucceededDeployed
PROPERTY Settles
 
CHECK_DEADLOCK FALSE
