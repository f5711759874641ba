SPECIFICATION FairSpec
CONSTANTS
    i1 = i1
    b1 = b1
    x1 = x1
    f1 = f1
    f2 = f2
    Import = {i1}
    Backup = {b1}
    Restore = {x1}
    Source = {f1, f2}
    Initial = {f1}
    MaxWrites = 1
    MaxTrouble = 1
INVARIANT ImportKeepsData
INVARIANT CopiesQuiet
INVARIANT RestoreExact
PROPERTY RecordedTruly
PROPERTY ReplicasRestored
PROPERTY ImportEnds
CHECK_DEADLOCK FALSE
