\* Two overlapping executions: one succeeds on the workload of the other.
SPECIFICATION Spec
CONSTANTS
  ReleaseId = {r1, r2}
  Request = {q1, q2}
  Image = {i1}
  Template = {t1}
  None = None
  MaxDBFaults = 0
  MaxCrashes = 0
SYMMETRY Symmetry
INVARIANTS SuccessWasReady
CHECK_DEADLOCK FALSE
