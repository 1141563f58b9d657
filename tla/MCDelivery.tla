----------------------------- MODULE MCDelivery -----------------------------
(* Delivery on small tables, for TLC. *)
EXTENDS Delivery, TLC

(* No definition of Delivery tells two identifiers of a kind, or two       *)
(* routes, apart.                                                          *)
Symmetry ==
  Permutations(OrderID) \cup Permutations(DroneID)
    \cup Permutations(JobID) \cup Permutations(Route)
=============================================================================
