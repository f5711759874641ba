\* Two operations, two calls of the Runtime that may repeat a key, two
\* administrators, two notifications and one thing going wrong.
SPECIFICATION Spec
CONSTANTS
  Operation = {o1, o2}
  Key = {k1, k2}
  Call = {c1, c2}
  Approver = {a1, a2}
  Notice = {n1, n2}
  None = None
  MaxSurprises = 1
CONSTRAINT FourRequests
SYMMETRY Symmetry
INVARIANTS ExecutedOnce OutcomeHonest ScalesRequestedVersion OneOperationPerRequest NothingForgotten
CHECK_DEADLOCK FALSE
