CONSTANTS
  Req = {p1, p2, p3, p4}
  MaxRequests = 2
  Window = 2
  Concurrency = 2
  Horizon = 3
SPECIFICATION Spec
SYMMETRY AlikeRequests
INVARIANTS TypeOK FewForgotten OvershootBound RefusedOnlyOverLimit
CHECK_DEADLOCK FALSE
