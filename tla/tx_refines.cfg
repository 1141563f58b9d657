CONSTANTS
  OrderID = {o1, o2}
  DroneID = {d1, d2}
  JobID = {j1, j2, j3}
  Route = {r1}
  Nil = Nil
  Req = {p1, p2}
  Kinds = {"CREATE", "CANCEL", "RESERVE", "GRAB", "COMPLETE", "BROKEN", "BEAT", "FIXED", "ADMIN"}
  Alone = TRUE
SPECIFICATION Spec
SYMMETRY Symmetry
INVARIANTS TypeOK DeadlockNeedsReserveOrBroken
PROPERTIES Refines
