\* Requests, calls and faults that overlap on two endpoints.
\* The bounds let every task end: the system may stop.
CONSTANTS
  Endpoints = {e1, e2}
  MaxRequests = 3
  MaxCalls = 2
  Budgets <- ManyBudgets
SPECIFICATION Spec
SYMMETRY Symmetry
INVARIANTS SessionsAreWhole InputIsAccounted RevokedStreamsNothing
PROPERTIES NoRevival
CHECK_DEADLOCK FALSE
