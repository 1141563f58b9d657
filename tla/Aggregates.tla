----------------------------- MODULE Aggregates -----------------------------
(***************************************************************************)
(* The three aggregates of the delivery service, as rows of their tables:  *)
(* orders, drones and jobs.  Every method of the Go model is a pair: a     *)
(* guard (CanX, the early return of the method) and an effect (X, its      *)
(* assignments).  A row that has not been inserted has status "ABSENT".    *)
(*                                                                         *)
(* Left out of the rows: timestamps, the submitter and the position of a   *)
(* drone.  Route stands for an (origin, destination) pair inside the       *)
(* delivery zone; a request with a place outside is refused before any     *)
(* row is read for writing.                                                *)
(***************************************************************************)
CONSTANTS OrderID, DroneID, JobID, Route, Nil

(* Nil is SQL's NULL: no identifier and no route is NULL. *)
ASSUME NilAssumption == Nil \notin OrderID \cup DroneID \cup JobID \cup Route

-----------------------------------------------------------------------------
(* The order aggregate: internal/order. *)

(* The statuses of order/dto.go, and the one the SQL of Cancel writes. *)
OrderStatus == {"PENDING", "ASSIGNED", "PICKED_UP", "DELIVERED", "FAILED",
                "WITHDRAWN", "AWAITING_HANDOFF", "CANCELLED"}

OrderRow == [status: OrderStatus \cup {"ABSENT"},
             drone: DroneID \cup {Nil},
             route: Route \cup {Nil}]

NoOrder     == [status |-> "ABSENT", drone |-> Nil, route |-> Nil]
NewOrder(r) == [status |-> "PENDING", drone |-> Nil, route |-> r]

IsTerminal(o) == o.status \in {"DELIVERED", "FAILED", "WITHDRAWN"}

CanAssign(o) == o.status \in {"PENDING", "AWAITING_HANDOFF"}

(* Mutant: the drone of the order is not written. *)
AssignWithoutDrone(o, d) == [o EXCEPT !.status = "ASSIGNED"]

Assign(o, d) == [o EXCEPT !.status = "ASSIGNED", !.drone = d]

CanPickUp(o)    == o.status = "ASSIGNED"
MarkPickedUp(o) == [o EXCEPT !.status = "PICKED_UP"]

(* Mutant: an order can be finished before it is picked up. *)
CanFinishEarly(o) == o.status \in {"ASSIGNED", "PICKED_UP"}

(* MarkDelivered and MarkFailed differ only in the status they write. *)
CanFinish(o)             == o.status = "PICKED_UP"
MarkFinished(o, outcome) == [o EXCEPT !.status = outcome, !.drone = Nil]

CanAwaitHandoff(o) == o.status \in {"ASSIGNED", "PICKED_UP"}
AwaitHandoff(o)    == [o EXCEPT !.status = "AWAITING_HANDOFF", !.drone = Nil]

(* UpdateOrigin and UpdateDestination; r = Nil: neither is in the request. *)
CanReroute(o, r) == o.status # "ABSENT" /\ (r # Nil => ~IsTerminal(o))
Reroute(o, r)    == IF r = Nil THEN o ELSE [o EXCEPT !.route = r]

(* The repository's Cancel: one conditional UPDATE.  It names a status     *)
(* "COMPLETED" that no order ever has, and leaves assigned_drone_id alone. *)
CanCancelOrder(o) == o.status \notin {"ABSENT", "COMPLETED", "CANCELLED"}
CancelOrder(o)    == [o EXCEPT !.status = "CANCELLED"]

-----------------------------------------------------------------------------
(* The drone aggregate: internal/drone. *)

DroneStatus == {"IDLE", "EN_ROUTE_PICKUP", "EN_ROUTE_DELIVERY", "BROKEN"}

DroneRow == [status: DroneStatus \cup {"ABSENT"}, order: OrderID \cup {Nil}]

NoDrone  == [status |-> "ABSENT", order |-> Nil]
NewDrone == [status |-> "IDLE", order |-> Nil]

CanReserveDrone(d)  == d.status = "IDLE"
ReserveDrone(d, o)  == [d EXCEPT !.status = "EN_ROUTE_PICKUP", !.order = o]

CanStartDelivery(d) == d.status = "EN_ROUTE_PICKUP"
StartDelivery(d)    == [d EXCEPT !.status = "EN_ROUTE_DELIVERY"]

(* Mutant: the drone keeps its order. *)
GoIdleWithOrder(d)  == [d EXCEPT !.status = "IDLE"]

GoIdle(d)           == [d EXCEPT !.status = "IDLE", !.order = Nil]

CanBreak(d)         == d.status \notin {"ABSENT", "BROKEN"}

(* Mutant: the broken drone keeps its order. *)
MarkBrokenWithOrder(d) == [d EXCEPT !.status = "BROKEN"]

MarkBroken(d)       == [d EXCEPT !.status = "BROKEN", !.order = Nil]

(* Mutant: a drone that works can be fixed. *)
CanFixAny(d)        == d.status # "ABSENT"

CanFix(d)           == d.status = "BROKEN"
MarkFixed(d)        == [d EXCEPT !.status = "IDLE", !.order = Nil]

-----------------------------------------------------------------------------
(* The job aggregate: internal/job. *)

JobStatus == {"OPEN", "RESERVED", "COMPLETED", "CANCELLED"}

JobRow == [status: JobStatus \cup {"ABSENT"},
           order: OrderID \cup {Nil},
           drone: DroneID \cup {Nil}]

NoJob     == [status |-> "ABSENT", order |-> Nil, drone |-> Nil]
NewJob(o) == [status |-> "OPEN", order |-> o, drone |-> Nil]

CanReserveJob(j)  == j.status = "OPEN"
ReserveJob(j, d)  == [j EXCEPT !.status = "RESERVED", !.drone = d]

CanCompleteJob(j) == j.status = "RESERVED"

(* Mutant: the job is not completed. *)
CompleteNothing(j) == j

CompleteJob(j)    == [j EXCEPT !.status = "COMPLETED"]

(* Mutants: the WHERE clause forgets the order, or completed jobs. *)
CanCancelAnyJob(j, o)       == j.status \notin {"COMPLETED", "CANCELLED"}
CanCancelCompletedJob(j, o) == j.order = o /\ j.status # "CANCELLED"

(* The WHERE clause and the SET clause of CancelByOrderID, for one row. *)
CanCancelJob(j, o) == j.order = o /\ j.status \notin {"COMPLETED", "CANCELLED"}
CancelJob(j)       == [j EXCEPT !.status = "CANCELLED", !.drone = Nil]

(* Mutant: no job is cancelled. *)
CancelNone(js, o) == js

(* The whole statement over a table of jobs. *)
CancelByOrderID(js, o) ==
  [j \in DOMAIN js |-> IF CanCancelJob(js[j], o) THEN CancelJob(js[j]) ELSE js[j]]

(* The rows GetByOrderIDForUpdate may return. *)
IsJobOf(j, o) == j.order = o /\ j.status # "CANCELLED"
=============================================================================
