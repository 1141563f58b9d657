------------------------------ MODULE MCService ------------------------------
EXTENDS Service, TLC

(* Requests and fresh identifiers are interchangeable. *)
Symmetry ==
  Permutations(Req) \cup Permutations(OrderID) \cup Permutations(JobID)
=============================================================================
