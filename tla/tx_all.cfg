CONSTANTS
  OrderID = {o1}
  DroneID = {d1, d2}
  JobID = {j1, j2}
  Route = {r1}
  Nil = Nil
  Req = {p1, p2}
  Kinds = {"CREATE", "CANCEL", "RESERVE", "GRAB", "COMPLETE", "BROKEN", "BEAT", "FIXED", "ADMIN"}
  Alone = FALSE
SPECIFICATION Spec
SYMMETRY Symmetry
INVARIANTS OneLiveJob DeadlockNeedsReserveOrBroken
PROPERTIES ClosedJobsFinal
