------------------------------- MODULE Custody -------------------------------
(***************************************************************************)
(* What customers are promised, without any table: every order is on offer *)
(* to all drones, in the hands of one, or done with.  Delivery implements  *)
(* this module under a mapping from its tables (ImplementsCustody there).  *)
(***************************************************************************)
CONSTANTS OrderID, DroneID, Nil

VARIABLES
  place,    \* place[o]: "unknown", "offered", "carried", "done" or "withdrawn"
  carrier   \* carrier[o]: the drone order o is carried by, or Nil

vars == <<place, carrier>>

Init ==
  /\ place = [o \in OrderID |-> "unknown"]
  /\ carrier = [o \in OrderID |-> Nil]

Move(o, from, to, d) ==
  /\ place[o] \in from
  /\ place' = [place EXCEPT ![o] = to]
  /\ carrier' = [carrier EXCEPT ![o] = d]

Offer(o) == Move(o, {"unknown"}, "offered", Nil)

(* A drone takes one order at a time. *)
Take(o, d) ==
  /\ \A x \in OrderID : carrier[x] # d
  /\ Move(o, {"offered"}, "carried", d)

(* Back to all drones: the only way from one drone to another. *)
HandBack(o) == Move(o, {"carried"}, "offered", Nil)

Finish(o)   == Move(o, {"carried"}, "done", Nil)

Withdraw(o) == Move(o, {"offered", "carried"}, "withdrawn", Nil)

Next ==
  \E o \in OrderID :
    \/ Offer(o) \/ HandBack(o) \/ Finish(o) \/ Withdraw(o)
    \/ \E d \in DroneID : Take(o, d)

Spec == Init /\ [][Next]_vars
=============================================================================
