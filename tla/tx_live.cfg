CONSTANTS
  OrderID = {o1, o2}
  DroneID = {d1}
  JobID = {j1, j2}
  Route = {r1}
  Nil = Nil
  Req = {p1, p2}
  Kinds = {"CREATE", "CANCEL", "RESERVE", "GRAB", "COMPLETE", "BROKEN"}
  Alone = FALSE
SPECIFICATION LiveSpec
PROPERTIES Answered
