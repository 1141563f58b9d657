---------------------------- MODULE MCDeliveryTx ----------------------------
(* DeliveryTx on small tables and few concurrent requests, for TLC. *)
EXTENDS DeliveryTx, TLC

Symmetry ==
  Permutations(OrderID) \cup Permutations(DroneID) \cup Permutations(JobID)
    \cup Permutations(Route) \cup Permutations(Req)
=============================================================================
