\* Two notifications, the second one while the first is being analysed.
SPECIFICATION Spec
CONSTANTS
  Operation = {o1}
  Key = {k1}
  Call = {c1}
  Approver = {a1}
  Notice = {n1, n2}
  None = None
  MaxSurprises = 0
CONSTRAINT FourRequests
SYMMETRY Symmetry
INVARIANT AlertStateTrue
CHECK_DEADLOCK FALSE
