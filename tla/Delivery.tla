------------------------------ MODULE Delivery ------------------------------
(***************************************************************************)
(* What the delivery workflows promise: every request either changes       *)
(* orders, drones and jobs in one indivisible step, or is refused and      *)
(* changes nothing.  A refusal is a step that does not happen.             *)
(* DeliveryTx refines the workflows of internal/delivery to this module.   *)
(***************************************************************************)
EXTENDS Aggregates

VARIABLES
  orders,   \* the orders table
  drones,   \* the drones table
  jobs      \* the jobs table

vars == <<orders, drones, jobs>>

(* No order was ever placed; some drones may have registered already. *)
Init ==
  /\ orders = [o \in OrderID |-> NoOrder]
  /\ drones \in [DroneID -> {NoDrone, NewDrone}]
  /\ jobs   = [j \in JobID |-> NoJob]

-----------------------------------------------------------------------------
(* Requests of customers. *)

(* Identifiers are fresh UUIDs: those of rows that do not exist yet. *)
CreateOrderAndJob(r, o, j) ==
  /\ orders[o].status = "ABSENT"
  /\ jobs[j].status = "ABSENT"
  /\ orders' = [orders EXCEPT ![o] = NewOrder(r)]
  /\ jobs' = [jobs EXCEPT ![j] = NewJob(o)]
  /\ UNCHANGED drones

(* Mutant: the second UPDATE may match no row. *)
CancelOrderWithoutJob(o) ==
  /\ CanCancelOrder(orders[o])
  /\ orders' = [orders EXCEPT ![o] = CancelOrder(@)]
  /\ jobs' = CancelByOrderID(jobs, o)
  /\ UNCHANGED drones

(* Withdrawal.  Each of the two UPDATEs fails if it matches no row, and    *)
(* then neither happens.                                                   *)
CancelOrderAndJob(o) ==
  /\ CanCancelOrder(orders[o])
  /\ \E j \in JobID : CanCancelJob(jobs[j], o)
  /\ orders' = [orders EXCEPT ![o] = CancelOrder(@)]
  /\ jobs' = CancelByOrderID(jobs, o)
  /\ UNCHANGED drones

-----------------------------------------------------------------------------
(* Requests of drones. *)

(* Mutant: the status of the job is not asked. *)
CanReserveAgain(j, d) ==
  /\ jobs[j].status # "ABSENT"
  /\ drones[d].status # "ABSENT"
  /\ CanAssign(orders[jobs[j].order])
  /\ CanReserveDrone(drones[d])

(* jobs.reserved_by_drone_id references drones, so the first UPDATE of a   *)
(* reservation fails for a drone that has no row: the code that would add  *)
(* the row comes after it.                                                 *)
CanReserve(j, d) ==
  /\ CanReserveJob(jobs[j])
  /\ drones[d].status # "ABSENT"
  /\ CanAssign(orders[jobs[j].order])
  /\ CanReserveDrone(drones[d])

ReserveJobAndAssign(j, d) ==
  LET o == jobs[j].order IN
  /\ CanReserve(j, d)
  /\ jobs' = [jobs EXCEPT ![j] = ReserveJob(@, d)]
  /\ orders' = [orders EXCEPT ![o] = Assign(@, d)]
  /\ drones' = [drones EXCEPT ![d] = ReserveDrone(@, o)]

GrabOrder(o, d) ==
  /\ orders[o].drone = d
  /\ CanPickUp(orders[o])
  /\ CanStartDelivery(drones[d])
  /\ orders' = [orders EXCEPT ![o] = MarkPickedUp(@)]
  /\ drones' = [drones EXCEPT ![d] = StartDelivery(@)]
  /\ UNCHANGED jobs

CompleteDelivery(o, d, outcome) ==
  /\ orders[o].drone = d
  /\ CanFinish(orders[o])
  /\ drones[d].status # "ABSENT"
  /\ \E j \in JobID :
       /\ IsJobOf(jobs[j], o)
       /\ CanCompleteJob(jobs[j])
       /\ jobs' = [jobs EXCEPT ![j] = CompleteJob(@)]
  /\ orders' = [orders EXCEPT ![o] = MarkFinished(@, outcome)]
  /\ drones' = [drones EXCEPT ![d] = GoIdle(@)]

(* HandleDroneBroken accepts a drone that is not broken yet, and whose     *)
(* order, if it has one, can be taken from it.                             *)
CanHandleBroken(d) ==
  LET o == drones[d].order IN
  /\ CanBreak(drones[d])
  /\ o # Nil => /\ CanAwaitHandoff(orders[o])
                /\ \E j \in JobID : CanCancelJob(jobs[j], o)

(* A drone without an order just breaks; the order of one that carries an  *)
(* order goes back to the pool under a new job.                            *)
BreakFree(d) ==
  /\ CanHandleBroken(d)
  /\ drones[d].order = Nil
  /\ drones' = [drones EXCEPT ![d] = MarkBroken(@)]
  /\ UNCHANGED <<orders, jobs>>

(* Mutant: the new job is inserted first and cancelled with the old one. *)
BreakInsertFirst(d, new) ==
  LET o == drones[d].order IN
  /\ CanHandleBroken(d)
  /\ o # Nil
  /\ jobs[new].status = "ABSENT"
  /\ drones' = [drones EXCEPT ![d] = MarkBroken(@)]
  /\ orders' = [orders EXCEPT ![o] = AwaitHandoff(@)]
  /\ jobs' = CancelByOrderID([jobs EXCEPT ![new] = NewJob(o)], o)

BreakCarrying(d, new) ==
  LET o == drones[d].order IN
  /\ CanHandleBroken(d)
  /\ o # Nil
  /\ jobs[new].status = "ABSENT"
  /\ drones' = [drones EXCEPT ![d] = MarkBroken(@)]
  /\ orders' = [orders EXCEPT ![o] = AwaitHandoff(@)]
  /\ jobs' = [CancelByOrderID(jobs, o) EXCEPT ![new] = NewJob(o)]

HandleDroneBroken(d) == BreakFree(d) \/ \E new \in JobID : BreakCarrying(d, new)

(* A heartbeat registers an unknown drone and otherwise moves it, which    *)
(* no variable here shows.                                                 *)
Heartbeat(d) ==
  /\ drones' = [drones EXCEPT ![d] = IF @.status = "ABSENT" THEN NewDrone ELSE @]
  /\ UNCHANGED <<orders, jobs>>

-----------------------------------------------------------------------------
(* Requests of administrators; "broken" is HandleDroneBroken. *)

MarkDroneFixed(d) ==
  /\ CanFix(drones[d])
  /\ drones' = [drones EXCEPT ![d] = MarkFixed(@)]
  /\ UNCHANGED <<orders, jobs>>

AdminUpdateOrder(o, r) ==
  /\ CanReroute(orders[o], r)
  /\ orders' = [orders EXCEPT ![o] = Reroute(@, r)]
  /\ UNCHANGED <<drones, jobs>>

-----------------------------------------------------------------------------
Next ==
  \/ \E o \in OrderID :
       \/ \E r \in Route, j \in JobID : CreateOrderAndJob(r, o, j)
       \/ CancelOrderAndJob(o)
       \/ \E r \in Route \cup {Nil} : AdminUpdateOrder(o, r)
  \/ \E d \in DroneID :
       \/ \E j \in JobID : ReserveJobAndAssign(j, d)
       \/ \E o \in OrderID : GrabOrder(o, d)
       \/ \E o \in OrderID, outcome \in {"DELIVERED", "FAILED"} :
            CompleteDelivery(o, d, outcome)
       \/ HandleDroneBroken(d)
       \/ MarkDroneFixed(d)
       \/ Heartbeat(d)

Spec == Init /\ [][Next]_vars

-----------------------------------------------------------------------------
(* What a reader of the three tables may rely on. *)

(* The rows are well formed; jobs.order_id is NOT NULL. *)
TypeOK ==
  /\ orders \in [OrderID -> OrderRow]
  /\ drones \in [DroneID -> DroneRow]
  /\ jobs \in [JobID -> JobRow]
  /\ \A j \in JobID : jobs[j].order = Nil <=> jobs[j].status = "ABSENT"

(* orders.assigned_drone_id and drones.current_order_id, written by        *)
(* different statements, are inverse to each other: so a drone has at most *)
(* one order, an order at most one drone, and GET /drone/me/order and the  *)
(* drone's own row name the same order.                                    *)
Mirror ==
  \A o \in OrderID, d \in DroneID : orders[o].drone = d <=> drones[d].order = o

(* The status of a drone matches that of the order it holds.  A withdrawn  *)
(* order may still be held.                                                *)
DroneFollowsOrder ==
  \A d \in DroneID : drones[d].order # Nil =>
    LET s == orders[drones[d].order].status IN
    \/ drones[d].status = "EN_ROUTE_PICKUP" /\ s \in {"ASSIGNED", "CANCELLED"}
    \/ drones[d].status = "EN_ROUTE_DELIVERY" /\ s \in {"PICKED_UP", "CANCELLED"}

(* An order on its way has a drone, and a drone that is idle, broken or    *)
(* unknown has no order.                                                   *)
CarrierBound ==
  /\ \A o \in OrderID :
       orders[o].status \in {"ASSIGNED", "PICKED_UP"} => orders[o].drone # Nil
  /\ \A d \in DroneID :
       drones[d].status \in {"EN_ROUTE_PICKUP", "EN_ROUTE_DELIVERY"} =>
         drones[d].order # Nil

(* At most one job of an order is not cancelled: no order is offered to,   *)
(* or carried by, two drones.  CompleteDelivery relies on it: it takes the *)
(* newest such job.                                                        *)
OneLiveJob ==
  \A i, j \in JobID :
    /\ jobs[i].status \notin {"ABSENT", "CANCELLED"}
    /\ jobs[j].status \notin {"ABSENT", "CANCELLED"}
    /\ jobs[i].order = jobs[j].order
    => i = j

(* A job is open, reserved or completed exactly as far as its order is,    *)
(* and is reserved by the drone the order is assigned to.                  *)
JobFollowsOrder ==
  \A j \in JobID :
    LET o == jobs[j].order IN
    /\ jobs[j].status = "OPEN" =>
         orders[o].status \in {"PENDING", "AWAITING_HANDOFF"}
    /\ jobs[j].status = "RESERVED" =>
         /\ orders[o].status \in {"ASSIGNED", "PICKED_UP"}
         /\ jobs[j].drone = orders[o].drone
    /\ jobs[j].status = "COMPLETED" =>
         orders[o].status \in {"DELIVERED", "FAILED"}

(* Every order that is not withdrawn has a job, so that an order waiting   *)
(* for a drone, at first or after a breakdown, is always on offer, and     *)
(* withdrawing or finishing an order never fails for want of its job.      *)
OrderHasJob ==
  \A o \in OrderID : orders[o].status \notin {"ABSENT", "CANCELLED"} =>
    \E j \in JobID : IsJobOf(jobs[j], o)

-----------------------------------------------------------------------------
(* What a step may never do. *)

(* A delivered or failed order is never touched again, and a withdrawn one *)
(* keeps its status and drone.  The SQL of Cancel does not exclude         *)
(* delivered orders: only the missing job makes it roll back.              *)
FinishedOrdersFrozen ==
  [][\A o \in OrderID :
       /\ orders[o].status \in {"DELIVERED", "FAILED"} => orders'[o] = orders[o]
       /\ orders[o].status = "CANCELLED" =>
            /\ orders'[o].status = "CANCELLED"
            /\ orders'[o].drone = orders[o].drone]_vars

(* A drone changes from one order to another only by letting go of the     *)
(* first, and lets go of it only when that order finishes or waits for     *)
(* another drone in the same step.                                         *)
ReleasedTogether ==
  [][\A d \in DroneID :
       LET o == drones[d].order IN
       o # Nil /\ drones'[d].order # o =>
         /\ drones'[d].order = Nil
         /\ orders'[o].status \in {"DELIVERED", "FAILED", "AWAITING_HANDOFF"}
         /\ orders'[o].drone = Nil]_vars

(* A job is completed for the drone that has just carried its order, and   *)
(* the job, like a cancelled one, never changes again.                     *)
CreditedToCarrier ==
  [][\A j \in JobID :
       /\ jobs[j].status = "RESERVED" /\ jobs'[j].status = "COMPLETED" =>
            \E d \in DroneID :
              /\ jobs[j].drone = d
              /\ drones[d] = [status |-> "EN_ROUTE_DELIVERY", order |-> jobs[j].order]
       /\ jobs[j].status \in {"COMPLETED", "CANCELLED"} => jobs'[j] = jobs[j]]_vars

-----------------------------------------------------------------------------
(* The promise behind the tables.  An order is where its jobs say it is,   *)
(* and carried by the drone its own row names.                             *)

HasJob(o, s) == \E j \in JobID : jobs[j].order = o /\ jobs[j].status = s

Place(o) ==
  CASE orders[o].status = "ABSENT" -> "unknown"
    [] HasJob(o, "OPEN")           -> "offered"
    [] HasJob(o, "RESERVED")       -> "carried"
    [] HasJob(o, "COMPLETED")      -> "done"
    [] OTHER                       -> "withdrawn"

Carrier(o) == IF Place(o) = "carried" THEN orders[o].drone ELSE Nil

Promise == INSTANCE Custody WITH
             place   <- [o \in OrderID |-> Place(o)],
             carrier <- [o \in OrderID |-> Carrier(o)]

(* Whatever requests follow each other, an order goes from offer to drone, *)
(* through another offer to the next drone, and ends done or withdrawn; a  *)
(* drone never has two.                                                    *)
ImplementsCustody == Promise!Spec

-----------------------------------------------------------------------------
(* What the documentation says and the code does not do.                   *)

(* README: "DELETE /orders/:id  Withdraw a pending order", and a drone     *)
(* becomes BROKEN from "(any state)".  A step that breaks this property    *)
(* breaks both promises: it withdraws an order that is not pending, and    *)
(* the drone that has it can then not be reported broken.                  *)
WithdrawalSparesDrones ==
  [][\A o \in OrderID :
       orders[o].status # "CANCELLED" /\ orders'[o].status = "CANCELLED" =>
         \/ orders[o].status = "PENDING"
         \/ \A d \in DroneID : drones[d].order = o => CanHandleBroken(d)']_vars
=============================================================================
