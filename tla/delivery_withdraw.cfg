CONSTANTS
  OrderID = {o1, o2}
  DroneID = {d1, d2}
  JobID = {j1, j2, j3}
  Route = {r1}
  Nil = Nil
SPECIFICATION Spec
PROPERTIES WithdrawalSparesDrones
