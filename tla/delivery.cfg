CONSTANTS
  OrderID = {o1, o2}
  DroneID = {d1, d2}
  JobID = {j1, j2, j3, j4}
  Route = {r1, r2}
  Nil = Nil
SPECIFICATION Spec
SYMMETRY Symmetry
INVARIANTS TypeOK Mirror DroneFollowsOrder CarrierBound OneLiveJob JobFollowsOrder OrderHasJob
PROPERTIES FinishedOrdersFrozen ReleasedTogether CreditedToCarrier ImplementsCustody
